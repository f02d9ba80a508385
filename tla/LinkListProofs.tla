--------------------------- MODULE LinkListProofs ---------------------------
(***************************************************************************)
(* Proofs about the linked list, for any number of nodes and of            *)
(* operations.                                                             *)
(***************************************************************************)
EXTENDS LinkListProps, FiniteSetTheorems, WellFoundedInduction, TLAPS

-----------------------------------------------------------------------------
(* The nodes that are reached from a pointer. *)

Bound == Cardinality(Nodes)

LEMMA BoundNat == Bound \in Nat
  BY ListAssumption, FS_CardinalityType DEF Bound

LessRel == {ss \in Nat \X Nat : ss[1] < ss[2]}

\* A set of natural numbers has a least element.
LEMMA LeastNumber ==
  ASSUME NEW T \in SUBSET Nat, T # {}
  PROVE  \E n \in T : \A m \in T : n <= m
<1>1. OpToRel(<, Nat) = LessRel
  BY DEF OpToRel, LessRel
<1>2. IsWellFoundedOn(LessRel, Nat)
  BY <1>1, NatLessThanWellFounded
<1>3. PICK n \in T : \A m \in T : ~ (<<m, n>> \in LessRel)
  BY <1>2, WFMin
<1>4. \A m \in T : ~ (m < n)
  BY <1>3 DEF LessRel
<1> QED
  BY <1>4

\* The pointers that follow n, up to the m-th.
Follow(g, n, m) ==
  /\ g \in [0 .. m -> Pointers]
  /\ g[0] = n
  /\ \A i \in 1 .. m : g[i] = IF g[i - 1] = Null THEN Null ELSE next[g[i - 1]]

LEMMA FollowExists ==
  ASSUME next \in [Nodes -> Pointers], NEW n \in Pointers, NEW m \in Nat
  PROVE  \E g : Follow(g, n, m)
<1> DEFINE T == {k \in Nat : ~ \E g : Follow(g, n, k)}
<1> SUFFICES ASSUME T # {} PROVE FALSE
  OBVIOUS
<1>1. PICK k \in T : \A j \in T : k <= j
  BY LeastNumber
<1>2. k # 0
  <2>1. Follow([i \in 0 .. 0 |-> n], n, 0)
    BY DEF Follow
  <2> QED
    BY <1>1, <2>1
<1>3. k - 1 \in Nat /\ k - 1 \notin T
  BY <1>1, <1>2
<1>4. PICK g : Follow(g, n, k - 1)
  BY <1>3
<1> DEFINE x == IF g[k - 1] = Null THEN Null ELSE next[g[k - 1]]
           h == [i \in 0 .. k |-> IF i = k THEN x ELSE g[i]]
<1>5. x \in Pointers
  BY <1>3, <1>4 DEF Follow, Pointers
<1>6. h \in [0 .. k -> Pointers]
  <2> HIDE DEF x
  <2>1. \A i \in 0 .. k : i # k => i \in 0 .. k - 1
    BY <1>3
  <2> QED
    BY <1>4, <1>5, <2>1 DEF Follow
<1>7. h[0] = n
  BY <1>3, <1>4 DEF Follow
<1>8. ASSUME NEW i \in 1 .. k PROVE h[i] = IF h[i - 1] = Null THEN Null ELSE next[h[i - 1]]
  <2>1. i - 1 \in 0 .. k - 1 /\ i - 1 # k /\ i - 1 \in 0 .. k /\ i \in 0 .. k
    BY <1>3
  <2>2. h[i - 1] = g[i - 1]
    BY <2>1
  <2>3. CASE i = k
    BY <2>1, <2>2, <2>3
  <2>4. CASE i # k
    <3>1. i \in 1 .. k - 1 /\ h[i] = g[i]
      BY <1>3, <2>1, <2>4
    <3> QED
      BY <1>4, <2>2, <3>1 DEF Follow
  <2> QED
    BY <2>3, <2>4
<1>9. Follow(h, n, k)
  BY <1>6, <1>7, <1>8 DEF Follow
<1> QED
  BY <1>1, <1>9

LEMMA PathIs ==
  ASSUME next \in [Nodes -> Pointers], NEW n \in Pointers
  PROVE  \E g, len :
           /\ Follow(g, n, Bound)
           /\ len \in 0 .. Bound + 1
           /\ \A i \in 0 .. Bound : i < len => g[i] # Null
           /\ len <= Bound => g[len] = Null
           /\ Path(n) = [i \in 1 .. len |-> g[i - 1]]
<1> DEFINE nth[i \in 0 .. Cardinality(Nodes)] ==
             IF i = 0 THEN n
             ELSE IF nth[i - 1] = Null THEN Null ELSE next[nth[i - 1]]
           end == {i \in DOMAIN nth : nth[i] = Null}
           len == IF end = {} THEN Cardinality(Nodes) + 1
                  ELSE CHOOSE i \in end : \A j \in end : i <= j
<1>1. Path(n) = [i \in 1 .. len |-> nth[i - 1]]
  BY DEF Path
<1>2. PICK g : Follow(g, n, Bound)
  BY BoundNat, FollowExists
<1>3. nth = [i \in 0 .. Cardinality(Nodes) |->
               IF i = 0 THEN n
               ELSE IF nth[i - 1] = Null THEN Null ELSE next[nth[i - 1]]]
  <2>1. g = [i \in 0 .. Cardinality(Nodes) |->
               IF i = 0 THEN n
               ELSE IF g[i - 1] = Null THEN Null ELSE next[g[i - 1]]]
    BY <1>2, BoundNat DEF Follow, Bound
  <2>2. \E h : h = [i \in 0 .. Cardinality(Nodes) |->
               IF i = 0 THEN n
               ELSE IF h[i - 1] = Null THEN Null ELSE next[h[i - 1]]]
    BY <2>1
  <2> QED
    BY <2>2
<1> HIDE DEF nth
<1>4. nth = g
  <2> DEFINE T == {i \in 0 .. Bound : nth[i] # g[i]}
  <2>1. T = {}
    <3> SUFFICES ASSUME T # {} PROVE FALSE
      OBVIOUS
    <3>1. T \in SUBSET Nat
      BY BoundNat
    <3>2. PICK i \in T : \A j \in T : i <= j
      BY <3>1, LeastNumber
    <3>3. i # 0
      BY <1>2, <1>3, <3>2, BoundNat DEF Follow, Bound
    <3>4. i \in 1 .. Bound /\ i - 1 \in 0 .. Bound /\ i - 1 \notin T
      BY <3>2, <3>3, BoundNat
    <3>5. nth[i - 1] = g[i - 1]
      BY <3>4
    <3>6. nth[i] = IF nth[i - 1] = Null THEN Null ELSE next[nth[i - 1]]
      BY <1>3, <3>3, <3>4 DEF Bound
    <3>7. g[i] = IF g[i - 1] = Null THEN Null ELSE next[g[i - 1]]
      BY <1>2, <3>4 DEF Follow
    <3> QED
      BY <3>2, <3>5, <3>6, <3>7
  <2>2. DOMAIN nth = 0 .. Bound /\ DOMAIN g = 0 .. Bound
    BY <1>2, <1>3 DEF Follow, Bound
  <2>3. nth = [i \in DOMAIN nth |-> nth[i]] /\ g = [i \in DOMAIN g |-> g[i]]
    BY <1>2, <1>3 DEF Follow
  <2> QED
    BY <2>1, <2>2, <2>3
<1>5. end = {i \in 0 .. Bound : g[i] = Null}
  BY <1>2, <1>4 DEF Follow
<1>6. CASE end = {}
  <2>1. len = Bound + 1
    BY <1>6 DEF Bound
  <2>2. \A i \in 0 .. Bound : g[i] # Null
    BY <1>5, <1>6
  <2> HIDE DEF len, end
  <2>3. Path(n) = [i \in 1 .. len |-> g[i - 1]]
    BY <1>1, <1>4
  <2>4. len \in 0 .. Bound + 1 /\ ~(len <= Bound)
    BY <2>1, BoundNat
  <2> QED
    BY <1>2, <2>2, <2>3, <2>4
<1>7. CASE end # {}
  <2>1. end \in SUBSET Nat
    BY <1>5, BoundNat
  <2>2. len \in end /\ \A j \in end : len <= j
    BY <1>7, <2>1, LeastNumber
  <2> HIDE DEF len
  <2> QED
    BY <1>1, <1>2, <1>4, <1>5, <2>2, BoundNat
<1> QED
  BY <1>6, <1>7

-----------------------------------------------------------------------------
(* Lists in memory.  nx is the next member of all nodes.                     *)

\* The k nodes of f follow each other, from n on, and no node is there twice.
Chain(nx, f, k, n) ==
  /\ k \in Nat /\ f \in [1 .. k -> Nodes]
  /\ \A i, j \in 1 .. k : f[i] = f[j] => i = j
  /\ n = IF k = 0 THEN Null ELSE f[1]
  /\ \A i \in 1 .. k - 1 : nx[f[i]] = f[i + 1]

On(f, k) == {f[i] : i \in 1 .. k}

\* The last one is the end.
List(nx, f, k, n) == Chain(nx, f, k, n) /\ (k > 0 => nx[f[k]] = Null)

LEMMA ChainBound ==
  ASSUME NEW nx, NEW f, NEW k, NEW n, Chain(nx, f, k, n)
  PROVE  k <= Bound
<1> SUFFICES ASSUME ~(k <= Bound) PROVE FALSE
  OBVIOUS
<1>1. k \in Nat /\ f \in [1 .. k -> Nodes]
  BY DEF Chain
<1>2. IsFiniteSet(1 .. k) /\ Cardinality(1 .. k) = k
  <2> DEFINE lo == 1
  <2>1. lo \in Int /\ k \in Int
    BY <1>1
  <2> QED
    BY <1>1, FS_Interval
<1>3. IsFiniteSet(Nodes) /\ Cardinality(Nodes) < Cardinality(1 .. k)
  BY <1>1, <1>2, BoundNat, ListAssumption DEF Bound
<1>4. \E i, j \in 1 .. k : i # j /\ f[i] = f[j]
  BY <1>1, <1>2, <1>3, FS_PigeonHole
<1> QED
  BY <1>4 DEF Chain

LEMMA ChainNull ==
  ASSUME NEW nx, NEW f, NEW k, NEW n, Chain(nx, f, k, n)
  PROVE  /\ \A i \in 1 .. k : f[i] \in Nodes /\ f[i] # Null
         /\ n \in Pointers /\ (n = Null <=> k = 0) /\ (n # Null => n \in On(f, k))
         /\ On(f, k) \subseteq Nodes
  BY ListAssumption DEF Chain, On, Pointers

\* Path follows a chain, and ends where it ends.
LEMMA ChainPath ==
  ASSUME next \in [Nodes -> Pointers], NEW f, NEW k, NEW n, Chain(next, f, k, n)
  PROVE  /\ On(f, k) \subseteq Reached(n)
         /\ List(next, f, k, n) => Path(n) = f /\ Len(Path(n)) = k /\ Reached(n) = On(f, k)
<1>1. /\ k \in Nat /\ k <= Bound /\ Bound \in Nat /\ n \in Pointers
      /\ \A i \in 1 .. k : f[i] \in Nodes /\ f[i] # Null
  <2>1. k \in Nat
    BY DEF Chain
  <2>2. k <= Bound
    BY ChainBound
  <2>3. n \in Pointers /\ \A i \in 1 .. k : f[i] \in Nodes /\ f[i] # Null
    BY ChainNull
  <2> QED
    BY <2>1, <2>2, <2>3, BoundNat
<1>2. PICK g, len :
           /\ Follow(g, n, Bound)
           /\ len \in 0 .. Bound + 1
           /\ \A i \in 0 .. Bound : i < len => g[i] # Null
           /\ len <= Bound => g[len] = Null
           /\ Path(n) = [i \in 1 .. len |-> g[i - 1]]
  BY <1>1, PathIs
<1>3. \A i \in 1 .. k : g[i - 1] = f[i]
  <2> DEFINE T == {i \in 1 .. k : g[i - 1] # f[i]}
  <2> SUFFICES ASSUME T # {} PROVE FALSE
    OBVIOUS
  <2>1. T \in SUBSET Nat
    OBVIOUS
  <2>2. PICK i \in T : \A j \in T : i <= j
    BY <2>1, LeastNumber
  <2>3. i \in 1 .. k /\ g[i - 1] # f[i]
    BY <2>2
  <2>4. i # 1
    BY <1>1, <1>2, <2>3 DEF Follow, Chain
  <2>5. /\ i - 1 \in 1 .. k - 1 /\ i - 1 \in 1 .. k /\ i - 1 \in 1 .. Bound /\ i - 1 \notin T
        /\ (i - 1) + 1 = i
    BY <1>1, <2>2, <2>3, <2>4
  <2>6. g[(i - 1) - 1] = f[i - 1]
    BY <2>5
  <2>7. g[i - 1] = IF g[(i - 1) - 1] = Null THEN Null ELSE next[g[(i - 1) - 1]]
    BY <1>2, <2>5 DEF Follow
  <2>8. next[f[i - 1]] = f[(i - 1) + 1]
    BY <2>5 DEF Chain
  <2> QED
    BY <1>1, <2>3, <2>5, <2>6, <2>7, <2>8
<1>4. len >= k
  <2> SUFFICES ASSUME len < k PROVE FALSE
    BY <1>1, <1>2
  <2>1. len + 1 \in 1 .. k /\ (len + 1) - 1 = len
    BY <1>1, <1>2
  <2>2. g[len] # Null
    BY <1>1, <1>3, <2>1
  <2> QED
    BY <1>1, <1>2, <2>2
<1>5. On(f, k) \subseteq Reached(n)
  <2> SUFFICES ASSUME NEW i \in 1 .. k PROVE f[i] \in Reached(n)
    BY DEF On
  <2>1. i \in 1 .. len
    BY <1>1, <1>2, <1>4
  <2>2. Path(n)[i] = f[i] /\ i \in DOMAIN Path(n)
    BY <1>2, <1>3, <2>1
  <2> QED
    BY <2>2 DEF Reached
<1>6. ASSUME List(next, f, k, n)
      PROVE  Path(n) = f /\ Len(Path(n)) = k /\ Reached(n) = On(f, k)
  <2>1. k <= Bound => g[k] = Null
    <3>1. CASE k = 0
      BY <1>1, <1>2, <3>1 DEF Chain, Follow
    <3>2. CASE k # 0
      <4>1. k \in 1 .. Bound /\ k \in 1 .. k
        BY <1>1, <3>2
      <4>2. g[k] = IF g[k - 1] = Null THEN Null ELSE next[g[k - 1]]
        BY <1>2, <4>1 DEF Follow
      <4>3. next[f[k]] = Null
        BY <1>1, <1>6, <3>2 DEF List
      <4> QED
        BY <1>3, <4>1, <4>2, <4>3
    <3> QED
      BY <3>1, <3>2
  <2>2. len = k
    BY <1>1, <1>2, <1>4, <2>1
  <2>3. Path(n) = [i \in 1 .. k |-> f[i]]
    BY <1>2, <1>3, <2>2
  <2>4. Path(n) = f
    BY <2>3 DEF Chain
  <2>5. Len(f) = k
    BY <1>1 DEF Chain
  <2>6. Reached(n) = {f[i] : i \in 1 .. k}
    BY <2>3, <2>4 DEF Reached
  <2> QED
    BY <2>4, <2>5, <2>6 DEF On
<1> QED
  BY <1>5, <1>6

-----------------------------------------------------------------------------
(* What a store does to a list. *)

LEMMA SameChain ==
  ASSUME NEW nx, NEW nx2, NEW f, NEW k, NEW n, Chain(nx, f, k, n),
         \A x \in On(f, k) : nx2[x] = nx[x]
  PROVE  /\ Chain(nx2, f, k, n)
         /\ List(nx, f, k, n) => List(nx2, f, k, n)
<1>1. \A i \in 1 .. k : f[i] \in On(f, k) /\ nx2[f[i]] = nx[f[i]]
  BY DEF On
<1>2. k \in Nat /\ (\A i \in 1 .. k - 1 : i \in 1 .. k) /\ (k > 0 => k \in 1 .. k)
  BY DEF Chain
<1> QED
  BY <1>1, <1>2 DEF Chain, List

\* x goes behind the j-th node.
LEMMA InsertChain ==
  ASSUME NEW nx, NEW nx2, NEW f, NEW k, NEW n, Chain(nx, f, k, n),
         NEW j \in 1 .. k, NEW x \in Nodes, x \notin On(f, k),
         nx2[f[j]] = x, j < k => nx2[x] = f[j + 1],
         \A y \in On(f, k) \ {f[j]} : nx2[y] = nx[y]
  PROVE  \E h : /\ Chain(nx2, h, k + 1, n) /\ On(h, k + 1) = On(f, k) \cup {x}
                /\ h[k + 1] = IF j = k THEN x ELSE f[k]
<1> DEFINE h == [i \in 1 .. k + 1 |-> IF i <= j THEN f[i] ELSE IF i = j + 1 THEN x ELSE f[i - 1]]
<1>1. /\ k \in Nat /\ j \in Nat /\ j >= 1 /\ j <= k /\ f \in [1 .. k -> Nodes] /\ n = f[1]
      /\ \A i, m \in 1 .. k : f[i] = f[m] => i = m
      /\ \A i \in 1 .. k : f[i] # x
      /\ \A i \in 1 .. k : i # j => nx2[f[i]] = nx[f[i]]
      /\ \A i \in 1 .. k - 1 : nx[f[i]] = f[i + 1]
  BY DEF Chain, On
<1>2. /\ k + 1 \in Nat
      /\ \A i \in 1 .. k + 1 : \/ i <= j /\ i \in 1 .. k /\ h[i] = f[i]
                               \/ i = j + 1 /\ h[i] = x
                               \/ i > j + 1 /\ i - 1 \in 1 .. k /\ h[i] = f[i - 1]
  BY <1>1
<1>3. DOMAIN h = 1 .. k + 1 /\ h = [i \in 1 .. k + 1 |-> h[i]]
  OBVIOUS
<1> HIDE DEF h
<1>4. h \in [1 .. k + 1 -> Nodes]
  BY <1>1, <1>2, <1>3
<1>5. \A i, m \in 1 .. k + 1 : h[i] = h[m] => i = m
  BY <1>1, <1>2
<1>6. n = h[1]
  BY <1>1, <1>2
<1>7. ASSUME NEW i \in 1 .. (k + 1) - 1 PROVE nx2[h[i]] = h[i + 1]
  <2>1. i \in 1 .. k + 1 /\ i + 1 \in 1 .. k + 1 /\ (i + 1) - 1 = i
    BY <1>1
  <2>2. CASE i < j
    <3>1. i \in 1 .. k - 1 /\ i \in 1 .. k /\ i + 1 <= j /\ i # j
      BY <1>1, <2>2
    <3> QED
      BY <1>1, <1>2, <2>1, <3>1
  <2>3. CASE i = j
    <3>1. h[i] = f[j] /\ h[i + 1] = x
      BY <1>1, <1>2, <2>1, <2>3
    <3> QED
      BY <3>1
  <2>4. CASE i = j + 1
    <3>1. h[i] = x /\ h[i + 1] = f[i]
      BY <1>1, <1>2, <2>1, <2>4
    <3> QED
      BY <1>1, <2>4, <3>1
  <2>5. CASE i > j + 1
    <3>1. h[i] = f[i - 1] /\ h[i + 1] = f[i] /\ i - 1 \in 1 .. k - 1 /\ i - 1 \in 1 .. k
          /\ i - 1 # j /\ (i - 1) + 1 = i
      BY <1>1, <1>2, <2>1, <2>5
    <3> QED
      BY <1>1, <3>1
  <2> QED
    BY <1>1, <2>1, <2>2, <2>3, <2>4, <2>5
<1>8. On(h, k + 1) = On(f, k) \cup {x}
  <2>1. \A i \in 1 .. k + 1 : h[i] \in On(f, k) \cup {x}
    BY <1>2 DEF On
  <2>2. ASSUME NEW i \in 1 .. k PROVE f[i] \in On(h, k + 1)
    <3>1. CASE i <= j
      <4>1. i \in 1 .. k + 1 /\ h[i] = f[i]
        BY <1>1, <1>2, <3>1
      <4> QED
        BY <4>1 DEF On
    <3>2. CASE i > j
      <4>1. i + 1 \in 1 .. k + 1 /\ h[i + 1] = f[i]
        BY <1>1, <1>2, <3>2
      <4> QED
        BY <4>1 DEF On
    <3> QED
      BY <1>1, <3>1, <3>2
  <2>3. x \in On(h, k + 1)
    <3>1. j + 1 \in 1 .. k + 1 /\ h[j + 1] = x
      BY <1>1, <1>2
    <3> QED
      BY <3>1 DEF On
  <2> QED
    BY <2>1, <2>2, <2>3 DEF On
<1>9. h[k + 1] = IF j = k THEN x ELSE f[k]
  BY <1>1, <1>2
<1> QED
  BY <1>2, <1>4, <1>5, <1>6, <1>7, <1>8, <1>9 DEF Chain

\* A chain of one node more, which is x.
Longer(nx, f, k, n, x) ==
  \E h : /\ Chain(nx, h, k + 1, n) /\ On(h, k + 1) = On(f, k) \cup {x}
         /\ h[k + 1] = x

\* The same behind the last node.
LEMMA AppendChain ==
  ASSUME NEW nx, NEW nx2, NEW f, NEW k, NEW n, Chain(nx, f, k, n), k \in 1 .. k,
         NEW x \in Nodes, x \notin On(f, k), nx2[f[k]] = x,
         \A y \in On(f, k) \ {f[k]} : nx2[y] = nx[y]
  PROVE  Longer(nx2, f, k, n, x)
<1>1. k < k => nx2[x] = f[k + 1]
  BY DEF Chain
<1>2. \E h : /\ Chain(nx2, h, k + 1, n) /\ On(h, k + 1) = On(f, k) \cup {x}
             /\ h[k + 1] = IF k = k THEN x ELSE f[k]
  BY <1>1, InsertChain
<1> QED
  BY <1>2 DEF Longer

\* A list of S with less than k nodes that begins with the first j of f.
Begins(nx, n, S, f, j, k) ==
  \E h, m : /\ List(nx, h, m, n) /\ On(h, m) = S
            /\ j <= m /\ m < k /\ \A i \in 1 .. j : h[i] = f[i]

\* The node behind the j-th goes.
LEMMA RemoveChain ==
  ASSUME NEW nx, NEW nx2, NEW f, NEW k, NEW n, List(nx, f, k, n),
         NEW j \in 1 .. k, nx[f[j]] # Null,
         nx2[f[j]] = nx[nx[f[j]]],
         \A y \in On(f, k) \ {f[j], nx[f[j]]} : nx2[y] = nx[y]
  PROVE  Begins(nx2, n, On(f, k) \ {nx[f[j]]}, f, j, k)
<1> DEFINE h == [i \in 1 .. k - 1 |-> IF i <= j THEN f[i] ELSE f[i + 1]]
<1>1. k \in Nat /\ j < k
  <2>1. k \in Nat /\ nx[f[k]] = Null
    BY DEF List, Chain
  <2> QED
    BY <2>1
<1>2. /\ k \in Nat /\ j \in Nat /\ j >= 1 /\ j < k /\ f \in [1 .. k -> Nodes] /\ n = f[1]
      /\ \A i, m \in 1 .. k : f[i] = f[m] => i = m
      /\ \A i \in 1 .. k - 1 : nx[f[i]] = f[i + 1]
      /\ nx[f[k]] = Null
  BY <1>1 DEF List, Chain
<1>3. nx[f[j]] = f[j + 1] /\ nx2[f[j]] = nx[f[j + 1]]
  BY <1>2
<1>4. \A i \in 1 .. k : i # j /\ i # j + 1 => nx2[f[i]] = nx[f[i]]
  <2> SUFFICES ASSUME NEW i \in 1 .. k, i # j, i # j + 1 PROVE nx2[f[i]] = nx[f[i]]
    OBVIOUS
  <2>1. j \in 1 .. k /\ j + 1 \in 1 .. k
    BY <1>2
  <2>2. f[i] # f[j] /\ f[i] # f[j + 1] /\ f[i] \in On(f, k)
    BY <1>2, <2>1 DEF On
  <2> QED
    BY <1>3, <2>2
<1>5. /\ k - 1 \in Nat
      /\ \A i \in 1 .. k - 1 : \/ i <= j /\ i \in 1 .. k /\ h[i] = f[i]
                               \/ i > j /\ i + 1 \in 1 .. k /\ h[i] = f[i + 1]
  BY <1>2
<1>6. DOMAIN h = 1 .. k - 1 /\ h = [i \in 1 .. k - 1 |-> h[i]]
  OBVIOUS
<1> HIDE DEF h
<1>7. h \in [1 .. k - 1 -> Nodes]
  BY <1>2, <1>5, <1>6
<1>8. \A i, m \in 1 .. k - 1 : h[i] = h[m] => i = m
  BY <1>2, <1>5
<1>9. n = h[1] /\ k - 1 # 0
  BY <1>2, <1>5
<1>10. ASSUME NEW i \in 1 .. (k - 1) - 1 PROVE nx2[h[i]] = h[i + 1]
  <2>1. i \in 1 .. k - 1 /\ i + 1 \in 1 .. k - 1
    BY <1>2
  <2>2. CASE i < j
    <3>1. h[i] = f[i] /\ h[i + 1] = f[i + 1] /\ i \in 1 .. k /\ i # j /\ i # j + 1
      BY <1>2, <1>5, <2>1, <2>2
    <3> QED
      BY <1>2, <1>3, <1>4, <2>1, <3>1
  <2>3. CASE i = j
    <3>1. h[i] = f[j] /\ h[i + 1] = f[(j + 1) + 1] /\ j + 1 \in 1 .. k - 1
      BY <1>2, <1>5, <2>1, <2>3
    <3> QED
      BY <1>2, <1>3, <1>4, <3>1
  <2>4. CASE i > j
    <3>1. i + 1 \in 1 .. k /\ i + 1 # j /\ i + 1 # j + 1 /\ i # j /\ i + 1 > j
      BY <1>2, <2>1, <2>4
    <3>2. h[i] = f[i + 1] /\ h[i + 1] = f[(i + 1) + 1]
      BY <1>5, <2>1, <2>4, <3>1
    <3> QED
      BY <1>2, <1>3, <1>4, <2>1, <3>1, <3>2
  <2> QED
    BY <1>2, <2>1, <2>2, <2>3, <2>4
<1>11. nx2[h[k - 1]] = Null
  <2>1. CASE j = k - 1
    <3>1. h[k - 1] = f[j] /\ j + 1 = k
      BY <1>2, <1>5, <2>1
    <3> QED
      BY <1>2, <1>3, <3>1
  <2>2. CASE j # k - 1
    <3>1. h[k - 1] = f[(k - 1) + 1] /\ (k - 1) + 1 = k /\ k \in 1 .. k /\ k # j /\ k # j + 1
      BY <1>2, <1>5, <2>2
    <3> QED
      BY <1>2, <1>4, <3>1
  <2> QED
    BY <2>1, <2>2
<1>12. On(h, k - 1) = On(f, k) \ {f[j + 1]}
  <2>1. ASSUME NEW i \in 1 .. k - 1 PROVE h[i] \in On(f, k) \ {f[j + 1]}
    <3>1. j + 1 \in 1 .. k
      BY <1>2
    <3>2. \E m \in 1 .. k : h[i] = f[m] /\ m # j + 1
      BY <1>2, <1>5
    <3> QED
      BY <1>2, <3>1, <3>2 DEF On
  <2>2. ASSUME NEW i \in 1 .. k, i # j + 1 PROVE f[i] \in On(h, k - 1)
    <3>1. CASE i <= j
      <4>1. i \in 1 .. k - 1 /\ h[i] = f[i]
        BY <1>2, <1>5, <3>1
      <4> QED
        BY <4>1 DEF On
    <3>2. CASE i > j
      <4>1. i - 1 \in 1 .. k - 1 /\ h[i - 1] = f[i]
        BY <1>2, <1>5, <2>2, <3>2
      <4> QED
        BY <4>1 DEF On
    <3> QED
      BY <1>2, <3>1, <3>2
  <2> QED
    BY <2>1, <2>2 DEF On
<1>13. \A i \in 1 .. j : h[i] = f[i]
  BY <1>2, <1>5
<1>14. Chain(nx2, h, k - 1, n)
  BY <1>5, <1>7, <1>8, <1>9, <1>10 DEF Chain
<1> QED
  <2>1. List(nx2, h, k - 1, n) /\ On(h, k - 1) = On(f, k) \ {nx[f[j]]}
    BY <1>11, <1>12, <1>14, <1>3 DEF List
  <2>2. j <= k - 1 /\ k - 1 < k
    BY <1>1
  <2> QED
    BY <1>13, <2>1, <2>2 DEF Begins

\* x goes in front.
LEMMA PrependChain ==
  ASSUME NEW nx, NEW nx2, NEW f, NEW k, NEW n, Chain(nx, f, k, n),
         NEW x \in Nodes, x \notin On(f, k), k > 0 => nx2[x] = n,
         \A y \in On(f, k) : nx2[y] = nx[y]
  PROVE  \E h : /\ Chain(nx2, h, k + 1, x) /\ On(h, k + 1) = On(f, k) \cup {x}
                /\ h[k + 1] = IF k = 0 THEN x ELSE f[k]
<1> DEFINE h == [i \in 1 .. k + 1 |-> IF i = 1 THEN x ELSE f[i - 1]]
<1>1. /\ k \in Nat /\ f \in [1 .. k -> Nodes] /\ (k > 0 => n = f[1])
      /\ \A i, m \in 1 .. k : f[i] = f[m] => i = m
      /\ \A i \in 1 .. k : f[i] # x
      /\ \A i \in 1 .. k : nx2[f[i]] = nx[f[i]]
      /\ \A i \in 1 .. k - 1 : nx[f[i]] = f[i + 1]
  BY DEF Chain, On
<1>2. /\ k + 1 \in Nat /\ k + 1 # 0
      /\ \A i \in 1 .. k + 1 : \/ i = 1 /\ h[i] = x
                               \/ i > 1 /\ i - 1 \in 1 .. k /\ h[i] = f[i - 1]
  BY <1>1
<1>3. DOMAIN h = 1 .. k + 1 /\ h = [i \in 1 .. k + 1 |-> h[i]]
  OBVIOUS
<1> HIDE DEF h
<1>4. h \in [1 .. k + 1 -> Nodes]
  BY <1>1, <1>2, <1>3
<1>5. \A i, m \in 1 .. k + 1 : h[i] = h[m] => i = m
  BY <1>1, <1>2
<1>6. x = h[1]
  BY <1>1, <1>2
<1>7. ASSUME NEW i \in 1 .. (k + 1) - 1 PROVE nx2[h[i]] = h[i + 1]
  <2>1. i \in 1 .. k + 1 /\ i + 1 \in 1 .. k + 1 /\ (i + 1) - 1 = i /\ k > 0
    BY <1>1
  <2>2. h[i + 1] = f[i]
    BY <1>1, <1>2, <2>1
  <2>3. CASE i = 1
    BY <1>1, <1>6, <2>1, <2>2, <2>3
  <2>4. CASE i # 1
    <3>1. i - 1 \in 1 .. k - 1 /\ i - 1 \in 1 .. k /\ (i - 1) + 1 = i /\ h[i] = f[i - 1]
      BY <1>1, <1>2, <2>1, <2>4
    <3> QED
      BY <1>1, <2>2, <3>1
  <2> QED
    BY <2>3, <2>4
<1>8. On(h, k + 1) = On(f, k) \cup {x}
  <2>1. \A i \in 1 .. k + 1 : h[i] \in On(f, k) \cup {x}
    BY <1>2 DEF On
  <2>2. ASSUME NEW i \in 1 .. k PROVE f[i] \in On(h, k + 1)
    <3>1. i + 1 \in 1 .. k + 1 /\ h[i + 1] = f[i]
      BY <1>1, <1>2
    <3> QED
      BY <3>1 DEF On
  <2>3. x \in On(h, k + 1)
    <3>1. 1 \in 1 .. k + 1
      BY <1>1
    <3> QED
      BY <1>6, <3>1 DEF On
  <2> QED
    BY <2>1, <2>2, <2>3 DEF On
<1>9. h[k + 1] = IF k = 0 THEN x ELSE f[k]
  BY <1>1, <1>2
<1>10. Chain(nx2, h, k + 1, x)
  BY <1>2, <1>4, <1>5, <1>6, <1>7 DEF Chain
<1> QED
  BY <1>8, <1>9, <1>10

\* What follows the first node is a list.
LEMMA TailChain ==
  ASSUME NEW nx, NEW f, NEW k, NEW n, List(nx, f, k, n), k > 0
  PROVE  \E h : /\ List(nx, h, k - 1, nx[n]) /\ On(h, k - 1) = On(f, k) \ {n}
<1> DEFINE h == [i \in 1 .. k - 1 |-> f[i + 1]]
<1>1. /\ k \in Nat /\ f \in [1 .. k -> Nodes] /\ n = f[1]
      /\ \A i, m \in 1 .. k : f[i] = f[m] => i = m
      /\ \A i \in 1 .. k - 1 : nx[f[i]] = f[i + 1]
      /\ nx[f[k]] = Null
  BY DEF List, Chain
<1>2. k - 1 \in Nat /\ \A i \in 1 .. k - 1 : i + 1 \in 1 .. k /\ h[i] = f[i + 1]
  BY <1>1
<1>3. DOMAIN h = 1 .. k - 1 /\ h = [i \in 1 .. k - 1 |-> h[i]]
  OBVIOUS
<1> HIDE DEF h
<1>4. h \in [1 .. k - 1 -> Nodes]
  BY <1>1, <1>2, <1>3
<1>5. \A i, m \in 1 .. k - 1 : h[i] = h[m] => i = m
  BY <1>1, <1>2
<1>6. nx[n] = IF k - 1 = 0 THEN Null ELSE h[1]
  <2>1. CASE k = 1
    BY <1>1, <2>1
  <2>2. CASE k # 1
    <3>1. 1 \in 1 .. k - 1 /\ h[1] = f[1 + 1] /\ k - 1 # 0
      BY <1>1, <1>2, <2>2
    <3> QED
      BY <1>1, <3>1
  <2> QED
    BY <2>1, <2>2
<1>7. ASSUME NEW i \in 1 .. (k - 1) - 1 PROVE nx[h[i]] = h[i + 1]
  <2>1. i \in 1 .. k - 1 /\ i + 1 \in 1 .. k - 1
    BY <1>1
  <2>2. h[i] = f[i + 1] /\ h[i + 1] = f[(i + 1) + 1]
    BY <1>2, <2>1
  <2> QED
    BY <1>1, <2>1, <2>2
<1>8. k - 1 > 0 => nx[h[k - 1]] = Null
  <2> SUFFICES ASSUME k - 1 > 0 PROVE nx[h[k - 1]] = Null
    OBVIOUS
  <2>1. k - 1 \in 1 .. k - 1 /\ (k - 1) + 1 = k
    BY <1>1
  <2>2. h[k - 1] = f[k]
    BY <1>2, <2>1
  <2> QED
    BY <1>1, <2>2
<1>9. On(h, k - 1) = On(f, k) \ {n}
  <2>1. ASSUME NEW i \in 1 .. k - 1 PROVE h[i] \in On(f, k) \ {n}
    <3>1. h[i] = f[i + 1] /\ i + 1 \in 1 .. k /\ 1 \in 1 .. k /\ i + 1 # 1
      BY <1>1, <1>2
    <3> QED
      BY <1>1, <3>1 DEF On
  <2>2. ASSUME NEW i \in 1 .. k, i # 1 PROVE f[i] \in On(h, k - 1)
    <3>1. i - 1 \in 1 .. k - 1 /\ (i - 1) + 1 = i
      BY <1>1, <2>2
    <3>2. h[i - 1] = f[i]
      BY <1>2, <3>1
    <3> QED
      BY <3>1, <3>2 DEF On
  <2> QED
    BY <1>1, <2>1, <2>2 DEF On
<1>10. Chain(nx, h, k - 1, nx[n])
  BY <1>2, <1>4, <1>5, <1>6, <1>7 DEF Chain
<1> QED
  BY <1>8, <1>9, <1>10 DEF List

LEMMA ChainStep ==
  ASSUME NEW nx, NEW f, NEW k, NEW n, List(nx, f, k, n), NEW j \in 1 .. k
  PROVE  /\ j = k => nx[f[j]] = Null
         /\ j < k => nx[f[j]] = f[j + 1] /\ j + 1 \in 1 .. k /\ f[j + 1] # f[j]
         /\ nx[f[j]] \in On(f, k) \cup {Null}
<1>1. /\ k \in Nat /\ j \in Nat /\ j >= 1 /\ j <= k
      /\ \A i, m \in 1 .. k : f[i] = f[m] => i = m
      /\ \A i \in 1 .. k - 1 : nx[f[i]] = f[i + 1]
      /\ nx[f[k]] = Null
  BY DEF List, Chain
<1>2. CASE j = k
  BY <1>1, <1>2
<1>3. CASE j < k
  <2>1. j \in 1 .. k - 1 /\ j + 1 \in 1 .. k /\ j + 1 # j
    BY <1>1, <1>3
  <2>2. nx[f[j]] = f[j + 1] /\ f[j + 1] # f[j]
    BY <1>1, <2>1
  <2> QED
    BY <1>3, <2>1, <2>2 DEF On
<1> QED
  BY <1>1, <1>2, <1>3

\* From n on, S is a list.
Listed(nx, n, S) ==
  \E k \in 0 .. Bound : \E f \in [1 .. k -> Nodes] : List(nx, f, k, n) /\ On(f, k) = S

LEMMA ListedBy ==
  ASSUME NEW nx, NEW f, NEW k, NEW n, List(nx, f, k, n)
  PROVE  Listed(nx, n, On(f, k))
<1>1. k \in Nat /\ f \in [1 .. k -> Nodes] /\ Chain(nx, f, k, n)
  BY DEF List, Chain
<1>2. k <= Bound
  BY <1>1, ChainBound
<1> QED
  BY <1>1, <1>2, BoundNat DEF Listed

LEMMA ListedFacts ==
  ASSUME NEW nx, NEW n, NEW S, Listed(nx, n, S)
  PROVE  /\ S \subseteq Nodes /\ n \in Pointers
         /\ n = Null <=> S = {}
         /\ n # Null => n \in S
<1>1. PICK f, k : List(nx, f, k, n) /\ On(f, k) = S
  BY DEF Listed
<1>2. Chain(nx, f, k, n)
  BY <1>1 DEF List
<1>3. /\ n \in Pointers /\ (n = Null <=> k = 0) /\ (n # Null => n \in On(f, k))
      /\ On(f, k) \subseteq Nodes
  BY <1>2, ChainNull
<1>4. k = 0 => On(f, k) = {}
  BY DEF On
<1> QED
  BY <1>1, <1>3, <1>4

LEMMA ListedReached ==
  ASSUME next \in [Nodes -> Pointers], NEW n, NEW S, Listed(next, n, S)
  PROVE  Reached(n) = S
<1>1. PICK f, k : List(next, f, k, n) /\ On(f, k) = S
  BY DEF Listed
<1>2. Chain(next, f, k, n)
  BY <1>1 DEF List
<1> QED
  BY <1>1, <1>2, ChainPath

LEMMA ListedSame ==
  ASSUME NEW nx, NEW nx2, NEW n, NEW S, Listed(nx, n, S), \A x \in S : nx2[x] = nx[x]
  PROVE  Listed(nx2, n, S)
<1>1. PICK f, k : List(nx, f, k, n) /\ On(f, k) = S
  BY DEF Listed
<1>2. Chain(nx, f, k, n)
  BY <1>1 DEF List
<1>3. List(nx2, f, k, n)
  BY <1>1, <1>2, SameChain
<1> QED
  BY <1>1, <1>3, ListedBy

LEMMA ListedTail ==
  ASSUME NEW nx, NEW n, NEW S, Listed(nx, n, S), n # Null
  PROVE  n \in S /\ Listed(nx, nx[n], S \ {n})
<1>1. PICK f, k : List(nx, f, k, n) /\ On(f, k) = S
  BY DEF Listed
<1>2. k > 0
  BY <1>1 DEF List, Chain
<1>3. \E h : List(nx, h, k - 1, nx[n]) /\ On(h, k - 1) = On(f, k) \ {n}
  BY <1>1, <1>2, TailChain
<1>4. Listed(nx, nx[n], S \ {n})
  BY <1>1, <1>3, ListedBy
<1> QED
  BY <1>4, ListedFacts

LEMMA ListedEmpty ==
  ASSUME NEW nx
  PROVE  Listed(nx, Null, {})
<1> DEFINE f == [i \in 1 .. 0 |-> Null]
<1>1. List(nx, f, 0, Null)
  BY DEF List, Chain
<1>2. On(f, 0) = {}
  BY DEF On
<1> QED
  BY <1>1, <1>2, ListedBy

LEMMA ListedPrepend ==
  ASSUME NEW nx, NEW nx2, NEW n, NEW S, Listed(nx, n, S), NEW x \in Nodes, x \notin S,
         nx2[x] = n, \A y \in S : nx2[y] = nx[y]
  PROVE  Listed(nx2, x, S \cup {x})
<1>1. PICK f, k : List(nx, f, k, n) /\ On(f, k) = S
  BY DEF Listed
<1>2. Chain(nx, f, k, n) /\ k \in Nat
  BY <1>1 DEF List, Chain
<1>3. PICK h : /\ Chain(nx2, h, k + 1, x) /\ On(h, k + 1) = On(f, k) \cup {x}
               /\ h[k + 1] = IF k = 0 THEN x ELSE f[k]
  BY <1>1, <1>2, PrependChain
<1>4. nx2[h[k + 1]] = Null
  <2>1. CASE k = 0
    BY <1>2, <1>3, <2>1 DEF Chain
  <2>2. CASE k # 0
    <3>1. k \in 1 .. k /\ nx[f[k]] = Null
      BY <1>1, <1>2, <2>2 DEF List
    <3>2. f[k] \in S
      BY <1>1, <3>1 DEF On
    <3> QED
      BY <1>3, <2>2, <3>1, <3>2
  <2> QED
    BY <2>1, <2>2
<1>5. List(nx2, h, k + 1, x)
  BY <1>3, <1>4 DEF List
<1> QED
  BY <1>1, <1>3, <1>5, ListedBy

LEMMA ListedInsert ==
  ASSUME NEW nx, NEW nx2, NEW f, NEW k, NEW n, List(nx, f, k, n),
         NEW j \in 1 .. k, NEW x \in Nodes, x \notin On(f, k),
         nx2[f[j]] = x, nx2[x] = nx[f[j]],
         \A y \in On(f, k) \ {f[j]} : nx2[y] = nx[y]
  PROVE  Listed(nx2, n, On(f, k) \cup {x})
<1>1. Chain(nx, f, k, n) /\ k \in Nat
  BY DEF List, Chain
<1>2. /\ j = k => nx[f[j]] = Null
      /\ j < k => nx[f[j]] = f[j + 1]
  BY ChainStep
<1>3. PICK h : /\ Chain(nx2, h, k + 1, n) /\ On(h, k + 1) = On(f, k) \cup {x}
               /\ h[k + 1] = IF j = k THEN x ELSE f[k]
  BY <1>1, <1>2, InsertChain
<1>4. nx2[h[k + 1]] = Null
  <2>1. CASE j = k
    BY <1>2, <1>3, <2>1
  <2>2. CASE j # k
    <3>1. k \in 1 .. k /\ nx[f[k]] = Null
      BY <1>1 DEF List
    <3>2. f[k] \in On(f, k) /\ f[k] # f[j]
      BY <1>1, <2>2, <3>1 DEF On, Chain
    <3> QED
      BY <1>3, <2>2, <3>1, <3>2
  <2> QED
    BY <2>1, <2>2
<1>5. List(nx2, h, k + 1, n)
  BY <1>3, <1>4 DEF List
<1>6. Listed(nx2, n, On(h, k + 1))
  BY <1>5, ListedBy
<1> QED
  BY <1>3, <1>6

-----------------------------------------------------------------------------
(* The invariant: what the allocated nodes look like between the steps.      *)

ListTypeOK ==
  /\ live \subseteq Nodes /\ next \in [Nodes -> Pointers]
  /\ L \in Pointers /\ p \in Pointers /\ q \in Pointers

\* The list that is being read, still open at its end, which q points to.
OpenInv ==
  pc = "read" =>
    \E k \in 0 .. Bound : \E f \in [1 .. k -> Nodes] :
      /\ Chain(next, f, k, L) /\ On(f, k) = live
      /\ q = IF k = 0 THEN Null ELSE f[k]

\* Between the operations the allocated nodes are the list.
ClosedInv ==
  /\ pc \in {"front", "ready", "pur", "destroy"} => Listed(next, L, live)
  /\ pc = "pur" /\ p # Null => p \in live

\* The inner loop of pur_LinkList: q does not get before p.
InnerInv ==
  pc = "inner" =>
    \E k \in 0 .. Bound : \E f \in [1 .. k -> Nodes] :
      /\ List(next, f, k, L) /\ On(f, k) = live
      /\ \E a, b \in 1 .. k : a <= b /\ p = f[a] /\ q = f[b]

\* revers has two lists, which share no node.
TwoInv ==
  pc = "revers" =>
    /\ L # Null
    /\ \E S, T \in SUBSET Nodes : /\ Listed(next, L, S) /\ Listed(next, p, T)
                                /\ S \cap T = {} /\ S \cup T = live

\* There is nothing before the list is made nor after its end, and a header
\* stays until the list is destroyed.
EndsInv ==
  /\ pc = "create" => live = {} /\ L = Null /\ q = Null /\ header = FALSE
  /\ pc = "done" => live = {}
  /\ header = TRUE /\ pc \notin {"destroy", "done"} => L # Null

ShapeInv == ListTypeOK /\ OpenInv /\ ClosedInv /\ InnerInv /\ TwoInv /\ EndsInv

LEMMA InitShape ==
  ASSUME Init
  PROVE  ShapeInv
<1>1. ListTypeOK
  BY DEF Init, ListTypeOK, Pointers
<1> QED
  BY <1>1 DEF Init, ShapeInv, OpenInv, ClosedInv, InnerInv, TwoInv, EndsInv

-----------------------------------------------------------------------------
(* The steps that make the list. *)

LEMMA CreateKeeps ==
  ASSUME ShapeInv, Create_LinkList \/ Create_LinkList2
  PROVE  ShapeInv'
<1>1. /\ pc = "create" /\ pc' \in {"front", "read"}
      /\ UNCHANGED <<live, data, next, L, header, p, q>>
  BY DEF Create_LinkList, Create_LinkList2
<1>2. live = {} /\ L = Null /\ q = Null /\ header = FALSE /\ ListTypeOK
  BY <1>1 DEF ShapeInv, EndsInv
<1>3. ListTypeOK'
  BY <1>1, <1>2 DEF ListTypeOK
<1>4. Listed(next, Null, {})
  BY ListedEmpty
<1>5. PICK f, k : /\ k \in 0 .. Bound /\ f \in [1 .. k -> Nodes]
                  /\ List(next, f, k, Null) /\ On(f, k) = {}
  BY <1>4 DEF Listed
<1>6. Chain(next, f, k, Null) /\ k = 0
  BY <1>5, ChainNull DEF List
<1>7. OpenInv'
  BY <1>1, <1>2, <1>5, <1>6 DEF OpenInv
<1>8. ClosedInv'
  BY <1>1, <1>2, <1>4 DEF ClosedInv
<1> QED
  BY <1>1, <1>2, <1>3, <1>7, <1>8 DEF ShapeInv, InnerInv, TwoInv, EndsInv

LEMMA CreateHeaderKeeps ==
  ASSUME ShapeInv, Create_LinkList3
  PROVE  ShapeInv'
<1>1. PICK n \in Nodes : /\ live' = live \cup {n} /\ next' = [next EXCEPT ![n] = Null]
                         /\ L' = n /\ q' = n
  BY DEF Create_LinkList3, Malloc
<1>2. pc = "create" /\ pc' = "read" /\ p' = p
  BY DEF Create_LinkList3
<1>3. live = {} /\ ListTypeOK /\ n # Null
  BY <1>2, ListAssumption DEF ShapeInv, EndsInv
<1>4. ListTypeOK'
  BY <1>1, <1>2, <1>3 DEF ListTypeOK, Pointers
<1>5. Listed(next, Null, {})
  BY ListedEmpty
<1>6. next'[n] = Null
  BY <1>1, <1>3 DEF ListTypeOK
<1>7. Listed(next', n, {} \cup {n})
  BY <1>5, <1>6, ListedPrepend
<1>8. PICK k \in 0 .. Bound : \E f \in [1 .. k -> Nodes] :
        List(next', f, k, n) /\ On(f, k) = {} \cup {n}
  BY <1>7 DEF Listed
<1>9. PICK f \in [1 .. k -> Nodes] : List(next', f, k, n) /\ On(f, k) = {n}
  BY <1>8
<1>10. Chain(next', f, k, n)
  BY <1>9 DEF List
<1>11. k # 0
  BY <1>3, <1>10, ChainNull
<1>12. k \in 1 .. k
  BY <1>11, BoundNat
<1>13. n = f[k]
  BY <1>9, <1>12 DEF On
<1>14. OpenInv'
  BY <1>1, <1>3, <1>9, <1>10, <1>11, <1>13 DEF OpenInv
<1> QED
  BY <1>1, <1>2, <1>3, <1>4, <1>14 DEF ShapeInv, ClosedInv, InnerInv, TwoInv, EndsInv

LEMMA ReadFrontKeeps ==
  ASSUME ShapeInv, NEW x \in Data, ReadFront(x)
  PROVE  ShapeInv'
<1>1. PICK n \in Nodes : /\ n \notin live /\ live' = live \cup {n}
                         /\ next' = [next EXCEPT ![n] = L] /\ L' = n
  BY DEF ReadFront, Malloc
<1>2. pc = "front" /\ pc' = pc /\ p' = p /\ q' = q
  BY DEF ReadFront
<1>3. Listed(next, L, live) /\ ListTypeOK /\ n # Null
  BY <1>2, ListAssumption DEF ShapeInv, ClosedInv
<1>4. ListTypeOK'
  BY <1>1, <1>2, <1>3 DEF ListTypeOK, Pointers
<1>5. next'[n] = L /\ \A y \in live : next'[y] = next[y]
  BY <1>1, <1>3 DEF ListTypeOK
<1>6. Listed(next', n, live \cup {n})
  BY <1>1, <1>3, <1>5, ListedPrepend
<1> QED
  BY <1>1, <1>2, <1>3, <1>4, <1>6 DEF ShapeInv, OpenInv, ClosedInv, InnerInv, TwoInv, EndsInv

LEMMA ReadItemKeeps ==
  ASSUME ShapeInv, NEW x \in Data, ReadItem(x)
  PROVE  ShapeInv'
<1>1. pc = "read" /\ pc' = pc /\ p' = p /\ header' = header
  BY DEF ReadItem
<1>2. ListTypeOK
  BY DEF ShapeInv
<1>3. PICK k \in 0 .. Bound : \E f \in [1 .. k -> Nodes] :
      /\ Chain(next, f, k, L) /\ On(f, k) = live
      /\ q = IF k = 0 THEN Null ELSE f[k]
  BY <1>1 DEF ShapeInv, OpenInv
<1>4. PICK f \in [1 .. k -> Nodes] :
      /\ Chain(next, f, k, L) /\ On(f, k) = live
      /\ q = IF k = 0 THEN Null ELSE f[k]
  BY <1>3
<1>5. (L = Null <=> k = 0) /\ k \in Nat
  BY <1>4, ChainNull DEF Chain
<1>6. PICK n \in Nodes, g \in Pointers :
        /\ n \notin live /\ live' = live \cup {n} /\ q' = n
        /\ IF L = Null
           THEN next' = [next EXCEPT ![n] = g] /\ L' = n
           ELSE next' = [next EXCEPT ![q] = n, ![n] = g] /\ L' = L
  BY DEF ReadItem, Malloc, Pointers
<1>7. ListTypeOK'
  BY <1>1, <1>2, <1>6 DEF ListTypeOK, Pointers
<1>8. n # Null
  BY ListAssumption
<1>9. \E h : /\ Chain(next', h, k + 1, L') /\ On(h, k + 1) = live' /\ h[k + 1] = n
  <2>1. CASE k = 0
    <3>1. L' = n /\ n \notin On(f, k) /\ On(f, k) = {}
      BY <1>4, <1>5, <1>6, <2>1 DEF On
    <3> DEFINE h == [i \in 1 .. 1 |-> n]
    <3>2. Chain(next', h, 1, n)
      BY DEF Chain
    <3>3. On(h, 1) = {n} /\ h[1] = n /\ k + 1 = 1
      BY <2>1 DEF On
    <3> QED
      BY <1>4, <1>6, <3>1, <3>2, <3>3
  <2>2. CASE k # 0
    <3>1. k \in 1 .. k /\ q = f[k] /\ f[k] \in On(f, k) /\ f[k] \in Nodes
      BY <1>4, <1>5, <2>2 DEF On
    <3>2. next' = [next EXCEPT ![q] = n, ![n] = g] /\ L' = L /\ n # q
      BY <1>4, <1>5, <1>6, <2>2, <3>1
    <3>3. next'[f[k]] = n
      BY <1>2, <3>1, <3>2 DEF ListTypeOK
    <3>4. \A y \in On(f, k) \ {f[k]} : next'[y] = next[y]
      BY <1>2, <1>4, <1>6, <3>1, <3>2 DEF ListTypeOK
    <3>5. n \notin On(f, k) /\ ~(k < k)
      BY <1>4, <1>5, <1>6
    <3>6. Longer(next', f, k, L, n)
      BY <1>4, <3>1, <3>3, <3>4, <3>5, AppendChain
    <3> QED
      BY <1>4, <1>6, <3>2, <3>6 DEF Longer
  <2> QED
    BY <2>1, <2>2
<1>10. PICK h : /\ Chain(next', h, k + 1, L') /\ On(h, k + 1) = live' /\ h[k + 1] = n
  BY <1>9
<1>11. k + 1 \in 0 .. Bound /\ h \in [1 .. k + 1 -> Nodes] /\ k + 1 # 0
  <2>1. k + 1 <= Bound
    BY <1>10, ChainBound
  <2> QED
    BY <1>5, <1>10, <2>1, BoundNat DEF Chain
<1>12. OpenInv'
  BY <1>6, <1>10, <1>11 DEF OpenInv
<1>13. L' # Null
  BY <1>6, <1>8
<1> QED
  BY <1>1, <1>7, <1>12, <1>13 DEF ShapeInv, ClosedInv, InnerInv, TwoInv, EndsInv

LEMMA ReadEndKeeps ==
  ASSUME ShapeInv, ReadEnd
  PROVE  ShapeInv'
<1>1. /\ pc = "read" /\ pc' = "ready" /\ UNCHANGED <<live, L, header, p, q>>
      /\ next' = IF q = Null THEN next ELSE [next EXCEPT ![q] = Null]
  BY DEF ReadEnd, LastNext
<1>2. ListTypeOK
  BY DEF ShapeInv
<1>3. PICK k \in 0 .. Bound : \E f \in [1 .. k -> Nodes] :
      /\ Chain(next, f, k, L) /\ On(f, k) = live
      /\ q = IF k = 0 THEN Null ELSE f[k]
  BY <1>1 DEF ShapeInv, OpenInv
<1>4. PICK f \in [1 .. k -> Nodes] :
      /\ Chain(next, f, k, L) /\ On(f, k) = live
      /\ q = IF k = 0 THEN Null ELSE f[k]
  BY <1>3
<1>5. ListTypeOK'
  BY <1>1, <1>2 DEF ListTypeOK, Pointers
<1>6. Listed(next', L, live)
  <2>1. CASE k = 0
    <3>1. next' = next /\ List(next, f, k, L)
      BY <1>1, <1>4, <2>1 DEF List
    <3> QED
      BY <1>4, <3>1, ListedBy
  <2>2. CASE k # 0
    <3>1. k \in Nat /\ k \in 1 .. k /\ q = f[k] /\ f[k] \in Nodes
      BY <1>4, <2>2, BoundNat
    <3>2. f[k] # Null
      BY <3>1, ListAssumption
    <3>3. next' = [next EXCEPT ![f[k]] = Null]
      BY <1>1, <3>1, <3>2
    <3>4. next'[f[k]] = Null
      BY <1>2, <3>1, <3>3 DEF ListTypeOK
    <3>5. ASSUME NEW i \in 1 .. k - 1 PROVE next'[f[i]] = f[i + 1]
      <4>1. i \in 1 .. k /\ i # k
        BY <3>1
      <4>2. f[i] # f[k] /\ f[i] \in Nodes /\ next[f[i]] = f[i + 1]
        BY <1>4, <3>1, <4>1 DEF Chain
      <4> QED
        BY <1>2, <3>3, <4>2 DEF ListTypeOK
    <3>6. List(next', f, k, L)
      BY <1>4, <3>4, <3>5 DEF List, Chain
    <3> QED
      BY <1>4, <3>6, ListedBy
  <2> QED
    BY <2>1, <2>2
<1>7. header = TRUE => L # Null
  BY <1>1 DEF ShapeInv, EndsInv
<1> QED
  BY <1>1, <1>5, <1>6, <1>7 DEF ShapeInv, OpenInv, ClosedInv, InnerInv, TwoInv, EndsInv

-----------------------------------------------------------------------------
(* The steps that use it. *)

\* The i-th node of the list, from 0, is what Get_LinkList finds.
LEMMA GetNode ==
  ASSUME next \in [Nodes -> Pointers], NEW f, NEW k, List(next, f, k, L), NEW i \in Int,
         Get(i) # Null
  PROVE  i + 1 \in 1 .. k /\ Get(i) = f[i + 1]
<1>1. Chain(next, f, k, L) /\ k \in Nat
  BY DEF List, Chain
<1>2. Path(L) = f /\ Len(Path(L)) = k
  BY <1>1, ChainPath
<1> QED
  BY <1>1, <1>2 DEF Get

LEMMA InsertKeeps ==
  ASSUME ShapeInv, NEW i \in 0 .. Cardinality(Nodes), NEW x \in Data, Insert(i, x)
  PROVE  ShapeInv'
<1>1. pc = "ready" /\ UNCHANGED <<L, header, pc, p, q>>
  BY DEF Insert, Call
<1>2. ListTypeOK /\ Listed(next, L, live) /\ i \in Nat
  BY <1>1, BoundNat DEF ShapeInv, ClosedInv, Bound
<1>3. ListTypeOK' /\ Listed(next', L, live')
  <2>1. CASE Before(i) = Null
    <3>1. UNCHANGED <<live, next>>
      BY <2>1 DEF Insert
    <3> QED
      BY <1>1, <1>2, <3>1 DEF ListTypeOK
  <2>2. CASE Before(i) # Null
    <3>1. PICK n \in Nodes : /\ n \notin live /\ live' = live \cup {n}
                             /\ next' = [next EXCEPT ![n] = next[Before(i)], ![Before(i)] = n]
      BY <2>2 DEF Insert, Malloc
    <3>2. PICK f, k : List(next, f, k, L) /\ On(f, k) = live
      BY <1>2 DEF Listed
    <3>3. i - 1 \in Int /\ (i - 1) + 1 = i /\ Get(i - 1) # Null
      BY <1>2, <2>2 DEF Before
    <3>4. i \in 1 .. k /\ Before(i) = f[i]
      BY <1>2, <3>2, <3>3, GetNode DEF ListTypeOK, Before
    <3>5. f[i] \in live /\ f[i] \in Nodes /\ n # f[i]
      BY <1>2, <3>1, <3>2, <3>4 DEF On, ListTypeOK
    <3>6. next' = [next EXCEPT ![n] = next[f[i]], ![f[i]] = n]
      BY <3>1, <3>4
    <3>7. /\ next'[f[i]] = n /\ next'[n] = next[f[i]]
          /\ \A y \in On(f, k) \ {f[i]} : next'[y] = next[y]
      BY <1>2, <3>1, <3>2, <3>5, <3>6 DEF ListTypeOK
    <3>8. n \notin On(f, k)
      BY <3>1, <3>2
    <3>9. Listed(next', L, On(f, k) \cup {n})
      BY <3>2, <3>4, <3>7, <3>8, ListedInsert
    <3>10. ListTypeOK'
      BY <1>1, <1>2, <3>1, <3>5, <3>6 DEF ListTypeOK, Pointers
    <3> QED
      BY <3>1, <3>2, <3>9, <3>10
  <2> QED
    BY <2>1, <2>2
<1>4. header = TRUE => L # Null
  BY <1>1 DEF ShapeInv, EndsInv
<1> QED
  BY <1>1, <1>3, <1>4 DEF ShapeInv, OpenInv, ClosedInv, InnerInv, TwoInv, EndsInv

\* The node behind the j-th is unlinked and freed; the ones before stay.
LEMMA Unlinked ==
  ASSUME ListTypeOK, NEW f, NEW k, List(next, f, k, L), On(f, k) = live,
         NEW j \in 1 .. k, next[f[j]] # Null,
         live' = live \ {next[f[j]]},
         next' = [next EXCEPT ![f[j]] = next[next[f[j]]]]
  PROVE  /\ next' \in [Nodes -> Pointers] /\ live' \subseteq Nodes
         /\ Begins(next', L, live', f, j, k)
<1>1. k \in Nat /\ f \in [1 .. k -> Nodes] /\ f[j] \in Nodes
  BY DEF List, Chain
<1>2. j # k
  BY ChainStep
<1>3. j \in 1 .. k - 1 /\ j < k
  BY <1>1, <1>2
<1>4. next[f[j]] \in Nodes /\ next[f[j]] # f[j]
  <2>1. next[f[j]] = f[j + 1] /\ j + 1 \in 1 .. k /\ f[j + 1] # f[j]
    BY <1>3, ChainStep
  <2> QED
    BY <1>1, <2>1
<1>5. next'[f[j]] = next[next[f[j]]]
  BY <1>1 DEF ListTypeOK
<1>6. \A y \in On(f, k) \ {f[j], next[f[j]]} : next'[y] = next[y]
  BY <1>1 DEF ListTypeOK, List, Chain, On
<1>7. Begins(next', L, On(f, k) \ {next[f[j]]}, f, j, k)
  BY <1>5, <1>6, RemoveChain
<1>8. next' \in [Nodes -> Pointers] /\ live' \subseteq Nodes
  BY <1>1, <1>4 DEF ListTypeOK
<1> QED
  BY <1>7, <1>8

LEMMA DeleteKeeps ==
  ASSUME ShapeInv, NEW i \in 0 .. Cardinality(Nodes), Delete(i)
  PROVE  ShapeInv'
<1>1. pc = "ready" /\ UNCHANGED <<L, header, pc, p, q>>
  BY DEF Delete, Call
<1>2. ListTypeOK /\ Listed(next, L, live) /\ i \in Nat
  BY <1>1, BoundNat DEF ShapeInv, ClosedInv, Bound
<1>3. ListTypeOK' /\ Listed(next', L, live')
  <2>1. CASE Before(i) = Null \/ next[Before(i)] = Null
    <3>1. UNCHANGED <<live, next>>
      BY <2>1 DEF Delete
    <3> QED
      BY <1>1, <1>2, <3>1 DEF ListTypeOK
  <2>2. CASE ~(Before(i) = Null \/ next[Before(i)] = Null)
    <3>1. /\ live' = live \ {next[Before(i)]}
          /\ next' = [next EXCEPT ![Before(i)] = next[next[Before(i)]]]
      BY <2>2 DEF Delete
    <3>2. PICK f, k : List(next, f, k, L) /\ On(f, k) = live
      BY <1>2 DEF Listed
    <3>3. i - 1 \in Int /\ (i - 1) + 1 = i /\ Get(i - 1) # Null
      BY <1>2, <2>2 DEF Before
    <3>4. i \in 1 .. k /\ Before(i) = f[i]
      BY <1>2, <3>2, <3>3, GetNode DEF ListTypeOK, Before
    <3>5. /\ next[f[i]] # Null /\ live' = live \ {next[f[i]]}
          /\ next' = [next EXCEPT ![f[i]] = next[next[f[i]]]]
      BY <2>2, <3>1, <3>4
    <3>6. /\ next' \in [Nodes -> Pointers] /\ live' \subseteq Nodes
          /\ Begins(next', L, live', f, i, k)
      BY <1>2, <3>2, <3>4, <3>5, Unlinked
    <3>7. Listed(next', L, live')
      BY <3>6, ListedBy DEF Begins
    <3> QED
      BY <1>1, <1>2, <3>6, <3>7 DEF ListTypeOK
  <2> QED
    BY <2>1, <2>2
<1>4. header = TRUE => L # Null
  BY <1>1 DEF ShapeInv, EndsInv
<1> QED
  BY <1>1, <1>3, <1>4 DEF ShapeInv, OpenInv, ClosedInv, InnerInv, TwoInv, EndsInv

-----------------------------------------------------------------------------
(* The loops. *)

LEMMA PurKeeps ==
  ASSUME ShapeInv, Pur
  PROVE  ShapeInv'
<1>1. /\ pc = "ready" /\ header = TRUE /\ pc' = "pur" /\ p' = next[L]
      /\ UNCHANGED <<live, next, L, header, q>>
  BY DEF Pur, Call
<1>2. ListTypeOK /\ Listed(next, L, live) /\ L # Null
  BY <1>1 DEF ShapeInv, ClosedInv, EndsInv
<1>3. Listed(next, next[L], live \ {L})
  BY <1>2, ListedTail
<1>4. next[L] \in Pointers /\ (next[L] # Null => next[L] \in live)
  BY <1>3, ListedFacts
<1>5. ListTypeOK'
  BY <1>1, <1>2, <1>4 DEF ListTypeOK
<1> QED
  BY <1>1, <1>2, <1>4, <1>5 DEF ShapeInv, OpenInv, ClosedInv, InnerInv, TwoInv, EndsInv

LEMMA PurOuterKeeps ==
  ASSUME ShapeInv, PurOuter
  PROVE  ShapeInv'
<1>1. pc = "pur" /\ UNCHANGED <<live, next, L, header, p>>
  BY DEF PurOuter
<1>2. ListTypeOK /\ Listed(next, L, live) /\ (p # Null => p \in live)
      /\ (header = TRUE => L # Null)
  BY <1>1 DEF ShapeInv, ClosedInv, EndsInv
<1>3. CASE p # Null /\ next[p] # Null
  <2>1. pc' = "inner" /\ q' = p
    BY <1>3 DEF PurOuter
  <2>2. PICK k \in 0 .. Bound : \E f \in [1 .. k -> Nodes] : List(next, f, k, L) /\ On(f, k) = live
    BY <1>2 DEF Listed
  <2>3. PICK f \in [1 .. k -> Nodes] : List(next, f, k, L) /\ On(f, k) = live
    BY <2>2
  <2>4. PICK a \in 1 .. k : p = f[a]
    BY <1>2, <1>3, <2>3 DEF On
  <2>5. a <= a
    OBVIOUS
  <2>6. InnerInv'
    BY <1>1, <2>1, <2>3, <2>4, <2>5 DEF InnerInv
  <2>7. ListTypeOK'
    BY <1>1, <1>2, <2>1 DEF ListTypeOK
  <2> QED
    BY <1>1, <1>2, <2>1, <2>6, <2>7 DEF ShapeInv, OpenInv, ClosedInv, TwoInv, EndsInv
<1>4. CASE ~(p # Null /\ next[p] # Null)
  <2>1. pc' = "ready" /\ q' = q
    BY <1>4 DEF PurOuter
  <2>2. ListTypeOK'
    BY <1>1, <1>2, <2>1 DEF ListTypeOK
  <2> QED
    BY <1>1, <1>2, <2>1, <2>2 DEF ShapeInv, OpenInv, ClosedInv, InnerInv, TwoInv, EndsInv
<1> QED
  BY <1>3, <1>4

LEMMA PurInnerKeeps ==
  ASSUME ShapeInv, PurInner
  PROVE  ShapeInv'
<1>1. pc = "inner" /\ UNCHANGED <<L, header>>
  BY DEF PurInner
<1>2. ListTypeOK /\ (header = TRUE => L # Null)
  BY <1>1 DEF ShapeInv, EndsInv
<1>3. PICK k \in 0 .. Bound : \E f \in [1 .. k -> Nodes] :
      /\ List(next, f, k, L) /\ On(f, k) = live
      /\ \E a, b \in 1 .. k : a <= b /\ p = f[a] /\ q = f[b]
  BY <1>1 DEF ShapeInv, InnerInv
<1>4. PICK f \in [1 .. k -> Nodes], a \in 1 .. k, b \in 1 .. k :
      /\ List(next, f, k, L) /\ On(f, k) = live
      /\ a <= b /\ p = f[a] /\ q = f[b]
  BY <1>3
<1>5. Listed(next, L, live)
  BY <1>4, ListedBy
<1>6. CASE /\ next[q] = Null
           /\ p' = next[p] /\ pc' = "pur"
           /\ UNCHANGED <<live, next, q>>
  <2>1. next[f[a]] \in On(f, k) \cup {Null}
    BY <1>4, ChainStep
  <2>2. (p' # Null => p' \in live) /\ p' \in Pointers
    BY <1>2, <1>4, <1>6, <2>1 DEF ListTypeOK, Pointers
  <2>3. ListTypeOK'
    BY <1>1, <1>2, <1>6, <2>2 DEF ListTypeOK
  <2> QED
    BY <1>1, <1>2, <1>5, <1>6, <2>2, <2>3
       DEF ShapeInv, OpenInv, ClosedInv, InnerInv, TwoInv, EndsInv
<1>7. CASE /\ next[q] # Null
           /\ next' = [next EXCEPT ![q] = next[next[q]]]
           /\ live' = live \ {next[q]}
           /\ q' = q /\ UNCHANGED <<p, pc>>
  <2>1. /\ next' \in [Nodes -> Pointers] /\ live' \subseteq Nodes
        /\ Begins(next', L, live', f, b, k)
    <3>1. /\ next[f[b]] # Null /\ live' = live \ {next[f[b]]}
          /\ next' = [next EXCEPT ![f[b]] = next[next[f[b]]]]
      BY <1>4, <1>7
    <3> QED
      BY <1>2, <1>4, <3>1, Unlinked
  <2>2. PICK h, m : /\ List(next', h, m, L) /\ On(h, m) = live' /\ b <= m
                    /\ \A i \in 1 .. b : h[i] = f[i]
    BY <2>1 DEF Begins
  <2>3. m \in Nat /\ h \in [1 .. m -> Nodes] /\ Chain(next', h, m, L)
    BY <2>2 DEF List, Chain
  <2>4. m \in 0 .. Bound
    <3>1. m <= Bound
      BY <2>3, ChainBound
    <3> QED
      BY <2>3, <3>1, BoundNat
  <2>5. a \in 1 .. m /\ b \in 1 .. m /\ a \in 1 .. b /\ b \in 1 .. b
    BY <1>4, <2>2, <2>3
  <2>6. p' = h[a] /\ q' = h[b]
    BY <1>4, <1>7, <2>2, <2>5
  <2>7. InnerInv'
    BY <1>1, <1>4, <2>2, <2>3, <2>4, <2>5, <2>6 DEF InnerInv
  <2>8. ListTypeOK'
    BY <1>1, <1>2, <1>7, <2>1 DEF ListTypeOK
  <2> QED
    BY <1>1, <1>2, <1>7, <2>7, <2>8 DEF ShapeInv, OpenInv, ClosedInv, TwoInv, EndsInv
<1>8. CASE /\ next[q] # Null
           /\ q' = next[q]
           /\ UNCHANGED <<live, next, p, pc>>
  <2>1. b # k
    BY <1>4, <1>8, ChainStep
  <2>2. b < k /\ b \in Nat /\ a \in Nat
    BY <2>1
  <2>3. q' = f[b + 1] /\ b + 1 \in 1 .. k
    BY <1>4, <1>8, <2>2, ChainStep
  <2>4. a <= b + 1
    BY <1>4, <2>2
  <2>5. InnerInv'
    BY <1>1, <1>4, <1>8, <2>3, <2>4 DEF InnerInv
  <2>6. ListTypeOK'
    BY <1>1, <1>2, <1>8, <2>3 DEF ListTypeOK, Pointers
  <2> QED
    BY <1>1, <1>2, <1>8, <2>5, <2>6 DEF ShapeInv, OpenInv, ClosedInv, TwoInv, EndsInv
<1> QED
  BY <1>6, <1>7, <1>8 DEF PurInner, QAfterRemoval

LEMMA ReversKeeps ==
  ASSUME ShapeInv, Revers
  PROVE  ShapeInv'
<1>1. /\ pc = "ready" /\ header = TRUE /\ pc' = "revers" /\ p' = next[L]
      /\ next' = [next EXCEPT ![L] = Null]
      /\ UNCHANGED <<live, L, header, q>>
  BY DEF Revers, Call
<1>2. ListTypeOK /\ Listed(next, L, live) /\ L # Null
  BY <1>1 DEF ShapeInv, ClosedInv, EndsInv
<1>3. L \in live /\ Listed(next, next[L], live \ {L})
  BY <1>2, ListedTail
<1>4. next'[L] = Null /\ \A y \in live \ {L} : next'[y] = next[y]
  BY <1>1, <1>2, <1>3 DEF ListTypeOK
<1>5. Listed(next', next[L], live \ {L})
  BY <1>3, <1>4, ListedSame
<1>6. L \in Nodes
  BY <1>2, <1>3 DEF ListTypeOK
<1>7. Listed(next', L, {} \cup {L})
  <2>1. Listed(next, Null, {})
    BY ListedEmpty
  <2> QED
    BY <1>4, <1>6, <2>1, ListedPrepend
<1>8. next[L] \in Pointers
  BY <1>3, ListedFacts
<1>9. ListTypeOK'
  BY <1>1, <1>2, <1>8 DEF ListTypeOK, Pointers
<1>10. TwoInv'
  <2> DEFINE S == {L}
             T == live \ {L}
  <2>1. /\ S \in SUBSET Nodes /\ T \in SUBSET Nodes /\ S \cap T = {} /\ S \cup T = live'
    BY <1>1, <1>2, <1>3, <1>6 DEF ListTypeOK
  <2>2. Listed(next', L', S) /\ Listed(next', p', T) /\ L' # Null
    BY <1>1, <1>2, <1>5, <1>7
  <2> HIDE DEF S, T
  <2> QED
    BY <2>1, <2>2 DEF TwoInv
<1> QED
  BY <1>1, <1>2, <1>9, <1>10 DEF ShapeInv, OpenInv, ClosedInv, InnerInv, EndsInv

LEMMA ReversStepKeeps ==
  ASSUME ShapeInv, ReversStep
  PROVE  ShapeInv'
<1>1. pc = "revers" /\ UNCHANGED <<live, L, header>>
  BY DEF ReversStep
<1>2. ListTypeOK /\ L # Null
  BY <1>1 DEF ShapeInv, TwoInv
<1>3. PICK S \in SUBSET Nodes, T \in SUBSET Nodes :
        /\ Listed(next, L, S) /\ Listed(next, p, T)
        /\ S \cap T = {} /\ S \cup T = live
  BY <1>1 DEF ShapeInv, TwoInv
<1>4. CASE p = Null
  <2>1. pc' = "ready" /\ UNCHANGED <<next, p, q>>
    BY <1>4 DEF ReversStep
  <2>2. T = {}
    BY <1>3, <1>4, ListedFacts
  <2>3. Listed(next, L, live)
    BY <1>3, <2>2
  <2>4. ListTypeOK'
    BY <1>1, <1>2, <2>1 DEF ListTypeOK
  <2> QED
    BY <1>1, <1>2, <2>1, <2>3, <2>4 DEF ShapeInv, OpenInv, ClosedInv, InnerInv, TwoInv, EndsInv
<1>5. CASE p # Null
  <2>1. /\ q' = p /\ p' = next[p] /\ pc' = pc
        /\ next' = [next EXCEPT ![p] = next[L], ![L] = p]
    BY <1>5 DEF ReversStep
  <2>2. p \in T /\ Listed(next, next[p], T \ {p})
    BY <1>3, <1>5, ListedTail
  <2>3. L \in S
    BY <1>2, <1>3, ListedFacts
  <2>4. p \notin S /\ L \notin T /\ p # L /\ p \in Nodes /\ L \in Nodes
    BY <1>3, <2>2, <2>3
  <2>5. /\ next'[L] = p /\ next'[p] = next[L]
        /\ \A y \in Nodes \ {p, L} : next'[y] = next[y]
    BY <1>2, <2>1, <2>4 DEF ListTypeOK
  <2>6. Listed(next', next[p], T \ {p})
    BY <2>2, <2>4, <2>5, ListedSame
  <2>7. Listed(next', L, S \cup {p})
    <3>1. PICK f, k : List(next, f, k, L) /\ On(f, k) = S
      BY <1>3 DEF Listed
    <3>2. L = f[1] /\ k \in Nat /\ k # 0
      BY <1>2, <3>1 DEF List, Chain
    <3>3. PICK j \in 1 .. k : j = 1
      BY <3>2
    <3>4. /\ next'[f[j]] = p /\ next'[p] = next[f[j]] /\ p \notin On(f, k)
          /\ \A y \in On(f, k) \ {f[j]} : next'[y] = next[y]
      BY <2>4, <2>5, <3>1, <3>2, <3>3
    <3> QED
      BY <2>4, <3>1, <3>4, ListedInsert
  <2>8. next[p] \in Pointers
    BY <2>2, ListedFacts
  <2>9. ListTypeOK'
    BY <1>1, <1>2, <2>1, <2>4, <2>8 DEF ListTypeOK, Pointers
  <2>10. TwoInv'
    <3> DEFINE S2 == S \cup {p}
               T2 == T \ {p}
    <3>1. S2 \in SUBSET Nodes /\ T2 \in SUBSET Nodes /\ S2 \cap T2 = {} /\ S2 \cup T2 = live'
      BY <1>1, <1>3, <2>2, <2>4
    <3>2. Listed(next', L', S2) /\ Listed(next', p', T2) /\ L' # Null
      BY <1>1, <1>2, <2>1, <2>6, <2>7
    <3> HIDE DEF S2, T2
    <3> QED
      BY <3>1, <3>2 DEF TwoInv
  <2> QED
    BY <1>1, <1>2, <2>1, <2>9, <2>10 DEF ShapeInv, OpenInv, ClosedInv, InnerInv, EndsInv
<1> QED
  BY <1>4, <1>5

LEMMA DestroyStepKeeps ==
  ASSUME ShapeInv, DestroyStep
  PROVE  ShapeInv'
<1>1. pc = "destroy" /\ UNCHANGED <<next, header, q>>
  BY DEF DestroyStep
<1>2. ListTypeOK /\ Listed(next, L, live)
  BY <1>1 DEF ShapeInv, ClosedInv
<1>3. CASE L = Null
  <2>1. pc' = "done" /\ UNCHANGED <<live, L, p>>
    BY <1>3 DEF DestroyStep
  <2>2. live = {}
    BY <1>2, <1>3, ListedFacts
  <2>3. ListTypeOK'
    BY <1>1, <1>2, <2>1 DEF ListTypeOK
  <2> QED
    BY <1>1, <2>1, <2>2, <2>3 DEF ShapeInv, OpenInv, ClosedInv, InnerInv, TwoInv, EndsInv
<1>4. CASE L # Null
  <2>1. pc' = pc /\ p' = L /\ L' = next[L] /\ live' = live \ {L}
    BY <1>4 DEF DestroyStep, NextHead
  <2>2. Listed(next, next[L], live \ {L})
    BY <1>2, <1>4, ListedTail
  <2>3. next[L] \in Pointers
    BY <2>2, ListedFacts
  <2>4. ListTypeOK'
    BY <1>1, <1>2, <2>1, <2>3 DEF ListTypeOK
  <2> QED
    BY <1>1, <2>1, <2>2, <2>4 DEF ShapeInv, OpenInv, ClosedInv, InnerInv, TwoInv, EndsInv
<1> QED
  BY <1>3, <1>4

\* The steps that only move the program counter, and those that change nothing.
LEMMA OthersKeep ==
  ASSUME ShapeInv, ReadFrontEnd \/ Destroy \/ UNCHANGED vars
  PROVE  ShapeInv'
<1>1. UNCHANGED <<live, next, L, header, p, q>>
  BY DEF ReadFrontEnd, Destroy, vars
<1>2. ListTypeOK'
  BY <1>1 DEF ShapeInv, ListTypeOK
<1>3. CASE ReadFrontEnd
  <2>1. pc = "front" /\ pc' = "ready"
    BY <1>3 DEF ReadFrontEnd
  <2> QED
    BY <1>1, <1>2, <2>1 DEF ShapeInv, OpenInv, ClosedInv, InnerInv, TwoInv, EndsInv
<1>4. CASE Destroy
  <2>1. pc = "ready" /\ pc' = "destroy"
    BY <1>4 DEF Destroy
  <2> QED
    BY <1>1, <1>2, <2>1 DEF ShapeInv, OpenInv, ClosedInv, InnerInv, TwoInv, EndsInv
<1>5. CASE UNCHANGED vars
  <2>1. pc' = pc
    BY <1>5 DEF vars
  <2> QED
    BY <1>1, <1>2, <2>1 DEF ShapeInv, OpenInv, ClosedInv, InnerInv, TwoInv, EndsInv
<1> QED
  BY <1>3, <1>4, <1>5

\* The invariant holds in every reachable state.
THEOREM ShapeInvariant == Spec => []ShapeInv
<1>1. Init => ShapeInv
  BY InitShape
<1>2. ShapeInv /\ [Next]_vars => ShapeInv'
  <2> SUFFICES ASSUME ShapeInv, [Next]_vars PROVE ShapeInv'
    OBVIOUS
  <2>1. CASE Create_LinkList \/ Create_LinkList2
    BY <2>1, CreateKeeps
  <2>2. CASE Create_LinkList3
    BY <2>2, CreateHeaderKeeps
  <2>3. CASE ReadEnd
    BY <2>3, ReadEndKeeps
  <2>4. CASE \E x \in Data : ReadFront(x)
    BY <2>4, ReadFrontKeeps
  <2>5. CASE \E x \in Data : ReadItem(x)
    BY <2>5, ReadItemKeeps
  <2>6. CASE \E i \in 0 .. Cardinality(Nodes), x \in Data : Insert(i, x)
    BY <2>6, InsertKeeps
  <2>7. CASE \E i \in 0 .. Cardinality(Nodes) : Delete(i)
    BY <2>7, DeleteKeeps
  <2>8. CASE Pur
    BY <2>8, PurKeeps
  <2>9. CASE Revers
    BY <2>9, ReversKeeps
  <2>10. CASE PurOuter
    BY <2>10, PurOuterKeeps
  <2>11. CASE PurInner
    BY <2>11, PurInnerKeeps
  <2>12. CASE ReversStep
    BY <2>12, ReversStepKeeps
  <2>13. CASE DestroyStep
    BY <2>13, DestroyStepKeeps
  <2>14. CASE ReadFrontEnd \/ Destroy \/ UNCHANGED vars
    BY <2>14, OthersKeep
  <2> QED
    BY <2>1, <2>2, <2>3, <2>4, <2>5, <2>6, <2>7, <2>8, <2>9, <2>10, <2>11, <2>12, <2>13, <2>14
       DEF Next, Loops
<1> QED
  BY <1>1, <1>2, PTL DEF Spec

-----------------------------------------------------------------------------

\* No step reads or writes a node that was freed or never allocated, or frees
\* one twice.
THEOREM MemorySafety == Spec => []MemorySafe
<1>1. ShapeInv => MemorySafe
  <2> SUFFICES ASSUME ShapeInv PROVE MemorySafe
    OBVIOUS
  <2>1. ListTypeOK
    BY DEF ShapeInv
  <2>2. pc = "ready" => Reached(L) \subseteq live
    <3>1. pc = "ready" => Listed(next, L, live)
      BY DEF ShapeInv, ClosedInv
    <3> QED
      BY <2>1, <3>1, ListedReached DEF ListTypeOK
  <2>3. Dereferenced \subseteq live
    <3>1. CASE pc = "read"
      <4>1. PICK k \in 0 .. Bound : \E f \in [1 .. k -> Nodes] :
              /\ Chain(next, f, k, L) /\ On(f, k) = live
              /\ q = IF k = 0 THEN Null ELSE f[k]
        BY <3>1 DEF ShapeInv, OpenInv
      <4>2. k # 0 => k \in 1 .. k
        BY BoundNat
      <4>3. q # Null => q \in live
        BY <4>1, <4>2 DEF On
      <4> QED
        BY <3>1, <4>3 DEF Dereferenced
    <3>2. CASE pc = "pur"
      <4>1. p # Null => p \in live
        BY <3>2 DEF ShapeInv, ClosedInv
      <4> QED
        BY <3>2, <4>1 DEF Dereferenced
    <3>3. CASE pc = "inner"
      <4>1. PICK k \in 0 .. Bound : \E f \in [1 .. k -> Nodes] :
              /\ List(next, f, k, L) /\ On(f, k) = live
              /\ \E a, b \in 1 .. k : a <= b /\ p = f[a] /\ q = f[b]
        BY <3>3 DEF ShapeInv, InnerInv
      <4>2. PICK f \in [1 .. k -> Nodes], a \in 1 .. k, b \in 1 .. k :
              List(next, f, k, L) /\ On(f, k) = live /\ p = f[a] /\ q = f[b]
        BY <4>1
      <4>3. next[f[b]] \in On(f, k) \cup {Null}
        BY <4>2, ChainStep
      <4>4. p \in live /\ q \in live /\ (next[q] # Null => next[q] \in live)
        BY <4>2, <4>3 DEF On
      <4> QED
        BY <3>3, <4>4 DEF Dereferenced
    <3>4. CASE pc = "revers"
      <4>1. /\ L # Null
            /\ \E S, T \in SUBSET Nodes : /\ Listed(next, L, S) /\ Listed(next, p, T)
                                        /\ S \cap T = {} /\ S \cup T = live
        BY <3>4 DEF ShapeInv, TwoInv
      <4>2. L \in live /\ (p # Null => p \in live)
        BY <4>1, ListedFacts
      <4> QED
        BY <3>4, <4>2 DEF Dereferenced
    <3>5. CASE pc = "destroy"
      <4>1. Listed(next, L, live)
        BY <3>5 DEF ShapeInv, ClosedInv
      <4>2. L # Null => L \in live
        BY <4>1, ListedFacts
      <4> QED
        BY <3>5, <4>2 DEF Dereferenced
    <3>6. CASE pc \notin {"read", "pur", "inner", "revers", "destroy"}
      BY <3>6 DEF Dereferenced
    <3> QED
      BY <3>1, <3>2, <3>3, <3>4, <3>5, <3>6
  <2> QED
    BY <2>2, <2>3 DEF MemorySafe
<1> QED
  BY <1>1, ShapeInvariant, PTL

\* Every allocated node can be reached, in the middle of an operation too, and
\* when the list is destroyed nothing is left.
THEOREM NothingLost == Spec => []NoNodeLost
<1>1. ShapeInv => NoNodeLost
  <2> SUFFICES ASSUME ShapeInv PROVE NoNodeLost
    OBVIOUS
  <2>1. next \in [Nodes -> Pointers]
    BY DEF ShapeInv, ListTypeOK
  <2>2. pc \in {"front", "ready", "pur", "destroy"} => live \subseteq Reached(L)
    <3>1. pc \in {"front", "ready", "pur", "destroy"} => Listed(next, L, live)
      BY DEF ShapeInv, ClosedInv
    <3> QED
      BY <2>1, <3>1, ListedReached
  <2>3. pc = "read" => live \subseteq Reached(L)
    <3>1. pc = "read" => \E k, f : Chain(next, f, k, L) /\ On(f, k) = live
      BY DEF ShapeInv, OpenInv
    <3> QED
      BY <2>1, <3>1, ChainPath
  <2>4. pc = "inner" => live \subseteq Reached(L)
    <3>1. pc = "inner" => \E k, f : List(next, f, k, L) /\ On(f, k) = live
      BY DEF ShapeInv, InnerInv
    <3>2. pc = "inner" => Listed(next, L, live)
      BY <3>1, ListedBy
    <3> QED
      BY <2>1, <3>2, ListedReached
  <2>5. pc = "revers" => live \subseteq Reached(L) \cup Reached(p)
    <3>1. pc = "revers" => \E S, T \in SUBSET Nodes :
            Listed(next, L, S) /\ Listed(next, p, T) /\ S \cup T = live
      BY DEF ShapeInv, TwoInv
    <3> QED
      BY <2>1, <3>1, ListedReached
  <2>6. pc = "done" => live = {}
    BY DEF ShapeInv, EndsInv
  <2> QED
    BY <2>2, <2>3, <2>4, <2>5, <2>6 DEF NoNodeLost
<1> QED
  BY <1>1, ShapeInvariant, PTL

-----------------------------------------------------------------------------
(* Every loop ends: what is left to do decreases.                            *)

\* The nodes from the a-th on are a list.
LEMMA SuffixList ==
  ASSUME NEW nx, NEW f, NEW k, NEW n, List(nx, f, k, n), NEW a \in 1 .. k
  PROVE  \E h : List(nx, h, k - a + 1, f[a])
<1> DEFINE h == [i \in 1 .. k - a + 1 |-> f[i + a - 1]]
<1>1. /\ k \in Nat /\ a \in Nat /\ a >= 1 /\ a <= k /\ f \in [1 .. k -> Nodes]
      /\ \A i, m \in 1 .. k : f[i] = f[m] => i = m
      /\ \A i \in 1 .. k - 1 : nx[f[i]] = f[i + 1]
      /\ nx[f[k]] = Null
  BY DEF List, Chain
<1>2. /\ k - a + 1 \in Nat /\ k - a + 1 # 0
      /\ \A i \in 1 .. k - a + 1 : i + a - 1 \in 1 .. k /\ h[i] = f[i + a - 1]
  BY <1>1
<1>3. DOMAIN h = 1 .. k - a + 1 /\ h = [i \in 1 .. k - a + 1 |-> h[i]]
  OBVIOUS
<1> HIDE DEF h
<1>4. h \in [1 .. k - a + 1 -> Nodes]
  BY <1>1, <1>2, <1>3
<1>5. \A i, m \in 1 .. k - a + 1 : h[i] = h[m] => i = m
  BY <1>1, <1>2
<1>6. f[a] = h[1]
  <2>1. 1 \in 1 .. k - a + 1 /\ 1 + a - 1 = a
    BY <1>1
  <2> QED
    BY <1>2, <2>1
<1>7. ASSUME NEW i \in 1 .. (k - a + 1) - 1 PROVE nx[h[i]] = h[i + 1]
  <2>1. /\ i \in 1 .. k - a + 1 /\ i + 1 \in 1 .. k - a + 1
        /\ i + a - 1 \in 1 .. k - 1 /\ (i + 1) + a - 1 = (i + a - 1) + 1
    BY <1>1
  <2>2. h[i] = f[i + a - 1] /\ h[i + 1] = f[(i + a - 1) + 1]
    BY <1>2, <2>1
  <2> QED
    BY <1>1, <2>1, <2>2
<1>8. nx[h[k - a + 1]] = Null
  <2>1. k - a + 1 \in 1 .. k - a + 1 /\ (k - a + 1) + a - 1 = k
    BY <1>1
  <2>2. h[k - a + 1] = f[k]
    BY <1>2, <2>1
  <2> QED
    BY <1>1, <2>2
<1>9. Chain(nx, h, k - a + 1, f[a])
  BY <1>2, <1>4, <1>5, <1>6, <1>7 DEF Chain
<1> QED
  BY <1>8, <1>9 DEF List

\* From n on there are x nodes.
Long(nx, n, x) == \E f : List(nx, f, x, n)

LEMMA LongNull ==
  ASSUME NEW nx
  PROVE  Long(nx, Null, 0)
<1> DEFINE f == [i \in 1 .. 0 |-> Null]
<1>1. List(nx, f, 0, Null)
  BY DEF List, Chain
<1> QED
  BY <1>1 DEF Long

LEMMA LongBound ==
  ASSUME NEW nx, NEW n, NEW x, Long(nx, n, x)
  PROVE  x \in Nat /\ x <= Bound
<1>1. PICK f : Chain(nx, f, x, n)
  BY DEF Long, List
<1>2. x <= Bound
  BY <1>1, ChainBound
<1> QED
  BY <1>1, <1>2 DEF Chain

\* From the a-th node on, and from behind it.
LEMMA LongSuffix ==
  ASSUME NEW nx, NEW f, NEW k, NEW n, List(nx, f, k, n), NEW a \in 1 .. k
  PROVE  Long(nx, f[a], k - a + 1) /\ Long(nx, nx[f[a]], k - a)
<1>1. k \in Nat
  BY DEF List, Chain
<1>2. Long(nx, f[a], k - a + 1)
  BY SuffixList DEF Long
<1>3. CASE a = k
  <2>1. nx[f[a]] = Null /\ k - a = 0
    BY <1>1, <1>3, ChainStep
  <2> QED
    BY <1>2, <2>1, LongNull
<1>4. CASE a # k
  <2>1. PICK b \in 1 .. k : b = a + 1
    BY <1>1, <1>4
  <2>2. nx[f[a]] = f[b]
    BY <1>1, <1>4, <2>1, ChainStep
  <2>3. Long(nx, f[b], k - b + 1)
    BY SuffixList DEF Long
  <2>4. k - b + 1 = k - a
    BY <1>1, <2>1
  <2> QED
    BY <1>2, <2>2, <2>3, <2>4
<1> QED
  BY <1>3, <1>4

LEMMA LongListed ==
  ASSUME NEW nx, NEW n, NEW S, Listed(nx, n, S)
  PROVE  Long(nx, n, Cardinality(S)) /\ IsFiniteSet(S)
<1>1. PICK f, k : List(nx, f, k, n) /\ On(f, k) = S
  BY DEF Listed
<1>2. /\ k \in Nat /\ f \in [1 .. k -> Nodes]
      /\ \A i, j \in 1 .. k : f[i] = f[j] => i = j
  BY <1>1 DEF List, Chain
<1>3. f \in [1 .. k -> S] /\ \A y \in S : \E i \in 1 .. k : f[i] = y
  BY <1>1, <1>2 DEF On
<1>4. ExistsBijection(1 .. k, S)
  <2>1. f \in Injection(1 .. k, S)
    BY <1>2, <1>3 DEF Injection, IsInjective
  <2>2. f \in Surjection(1 .. k, S)
    BY <1>3 DEF Surjection
  <2> QED
    BY <2>1, <2>2 DEF ExistsBijection, Bijection
<1>5. IsFiniteSet(1 .. k) /\ Cardinality(1 .. k) = k
  <2>1. PICK lo \in Int : lo = 1
    OBVIOUS
  <2>2. k \in Int
    BY <1>2
  <2>3. /\ IsFiniteSet(lo .. k)
        /\ Cardinality(lo .. k) = IF lo > k THEN 0 ELSE k - lo + 1
    BY <2>2, FS_Interval
  <2> QED
    BY <1>2, <2>1, <2>3
<1>6. IsFiniteSet(S) /\ Cardinality(S) = k
  BY <1>4, <1>5, FS_Bijection
<1> QED
  BY <1>1, <1>6 DEF Long

\* What Work is, given how many nodes follow the pointers of the loop.
WorkFact ==
  next \in [Nodes -> Pointers] =>
    \A x, y :
      /\ pc = "pur" /\ Long(next, p, x) => Work = (Bound + 3) * x + Bound + 2
      /\ pc = "inner" /\ Long(next, p, x) /\ Long(next, q, y) => Work = (Bound + 3) * x + y
      /\ pc = "revers" /\ Long(next, p, x) => Work = x + 1
      /\ pc = "destroy" /\ Long(next, L, x) => Work = x + 1
      /\ pc \notin {"pur", "inner", "revers", "destroy"} => Work = 0

LEMMA WorkIs == WorkFact
<1> SUFFICES ASSUME next \in [Nodes -> Pointers], NEW x, NEW y
    PROVE  /\ pc = "pur" /\ Long(next, p, x) => Work = (Bound + 3) * x + Bound + 2
           /\ pc = "inner" /\ Long(next, p, x) /\ Long(next, q, y) => Work = (Bound + 3) * x + y
           /\ pc = "revers" /\ Long(next, p, x) => Work = x + 1
           /\ pc = "destroy" /\ Long(next, L, x) => Work = x + 1
           /\ pc \notin {"pur", "inner", "revers", "destroy"} => Work = 0
  BY DEF WorkFact
<1>1. \A n, k : Long(next, n, k) => Len(Path(n)) = k
  <2> SUFFICES ASSUME NEW n, NEW k, Long(next, n, k) PROVE Len(Path(n)) = k
    OBVIOUS
  <2>1. PICK f : List(next, f, k, n)
    BY DEF Long
  <2>2. Chain(next, f, k, n)
    BY <2>1 DEF List
  <2> QED
    BY <2>1, <2>2, ChainPath
<1>2. /\ pc = "pur" => Work = (Bound + 3) * Len(Path(p)) + Bound + 2
      /\ pc = "inner" => Work = (Bound + 3) * Len(Path(p)) + Len(Path(q))
      /\ pc = "revers" => Work = Len(Path(p)) + 1
      /\ pc = "destroy" => Work = Len(Path(L)) + 1
      /\ pc \notin {"pur", "inner", "revers", "destroy"} => Work = 0
  BY DEF Work, Bound
<1> QED
  BY <1>1, <1>2

\* In this state and in the next.
LEMMA WorkAlways == []WorkFact
  BY WorkIs, PTL

LEMMA Scale ==
  ASSUME NEW m \in Nat, NEW x \in Nat, NEW y \in Nat
  PROVE  /\ m * x \in Nat
         /\ x <= y => m * x <= m * y
         /\ m * (x + 1) = m * x + m
  OBVIOUS

LEMMA PurOuterAdvances ==
  ASSUME ShapeInv, WorkFact, WorkFact', PurOuter
  PROVE  Work' < Work
<1>1. pc = "pur" /\ UNCHANGED <<next, p>> /\ ListTypeOK
  BY DEF PurOuter, ShapeInv
<1>2. \E x \in Nat : x <= Bound /\ Long(next, p, x)
  <2>1. CASE p = Null
    BY <2>1, LongNull, BoundNat
  <2>2. CASE p # Null
    <3>1. p \in live /\ Listed(next, L, live)
      BY <1>1, <2>2 DEF ShapeInv, ClosedInv
    <3>2. PICK f, k : List(next, f, k, L) /\ On(f, k) = live
      BY <3>1 DEF Listed
    <3>3. PICK a \in 1 .. k : p = f[a]
      BY <3>1, <3>2 DEF On
    <3>4. Long(next, p, k - a + 1)
      BY <3>2, <3>3, LongSuffix
    <3> QED
      BY <3>4, LongBound
  <2> QED
    BY <2>1, <2>2
<1>3. PICK x \in Nat : x <= Bound /\ Long(next, p, x)
  BY <1>2
<1>4. PICK m \in Nat : m = Bound + 3
  BY BoundNat
<1>5. PICK mx \in Nat : mx = m * x
  BY Scale
<1>6. Work = mx + Bound + 2
  <2>1. Work = (Bound + 3) * x + Bound + 2
    BY <1>1, <1>3 DEF WorkFact, ListTypeOK
  <2> QED
    BY <1>4, <1>5, <2>1
<1>7. Work' = mx + x \/ Work' = 0
  <2>1. next' \in [Nodes -> Pointers] /\ Long(next', p', x)
    BY <1>1, <1>3 DEF ListTypeOK
  <2>2. CASE pc' = "inner" /\ q' = p
    <3>1. Work' = (Bound + 3) * x + x
      BY <1>1, <2>1, <2>2 DEF WorkFact
    <3> QED
      BY <1>4, <1>5, <3>1
  <2>3. CASE pc' = "ready"
    BY <2>1, <2>3 DEF WorkFact
  <2> QED
    BY <2>2, <2>3 DEF PurOuter
<1> QED
  BY <1>3, <1>6, <1>7, BoundNat

LEMMA PurInnerAdvances ==
  ASSUME ShapeInv, ShapeInv', WorkFact, WorkFact', PurInner
  PROVE  Work' < Work
<1>1. pc = "inner" /\ ListTypeOK /\ ListTypeOK'
  BY DEF PurInner, ShapeInv
<1>2. PICK k \in 0 .. Bound : \E f \in [1 .. k -> Nodes] :
      /\ List(next, f, k, L) /\ On(f, k) = live
      /\ \E a, b \in 1 .. k : a <= b /\ p = f[a] /\ q = f[b]
  BY <1>1 DEF ShapeInv, InnerInv
<1>3. PICK f \in [1 .. k -> Nodes], a \in 1 .. k, b \in 1 .. k :
      /\ List(next, f, k, L) /\ On(f, k) = live
      /\ a <= b /\ p = f[a] /\ q = f[b]
  BY <1>2
<1>4. PICK x \in Nat, y \in Nat : x = k - a /\ y = k - b
  BY BoundNat
<1>5. PICK m \in Nat : m = Bound + 3
  BY BoundNat
<1>6. PICK mx \in Nat : mx = m * x
  BY Scale
<1>7. m * (x + 1) = mx + m
  BY <1>6, Scale
<1>8. Long(next, p, x + 1) /\ Long(next, next[p], x)
  <2>1. Long(next, f[a], k - a + 1) /\ Long(next, next[f[a]], k - a)
    BY <1>3, LongSuffix
  <2> QED
    BY <1>3, <1>4, <2>1
<1>9. Long(next, q, y + 1) /\ Long(next, next[q], y)
  <2>1. Long(next, f[b], k - b + 1) /\ Long(next, next[f[b]], k - b)
    BY <1>3, LongSuffix
  <2> QED
    BY <1>3, <1>4, <2>1
<1>10. Work = mx + m + y + 1
  <2>1. Work = (Bound + 3) * (x + 1) + (y + 1)
    BY <1>1, <1>8, <1>9 DEF WorkFact, ListTypeOK
  <2> QED
    BY <1>5, <1>7, <2>1
<1>11. CASE p' = next[p] /\ pc' = "pur" /\ UNCHANGED next
  <2>1. Work' = (Bound + 3) * x + Bound + 2
    BY <1>1, <1>8, <1>11 DEF WorkFact, ListTypeOK
  <2>2. Work' = mx + Bound + 2
    BY <1>5, <1>6, <2>1
  <2> QED
    BY <1>5, <1>10, <2>2, BoundNat
<1>12. CASE /\ next[q] # Null
            /\ next' = [next EXCEPT ![q] = next[next[q]]]
            /\ live' = live \ {next[q]}
            /\ q' = q /\ p' = p /\ pc' = pc /\ L' = L
  <2>1. Begins(next', L, live', f, b, k)
    <3>1. /\ next[f[b]] # Null /\ live' = live \ {next[f[b]]}
          /\ next' = [next EXCEPT ![f[b]] = next[next[f[b]]]]
      BY <1>3, <1>12
    <3> QED
      BY <1>1, <1>3, <3>1, Unlinked
  <2>2. PICK h, n : /\ List(next', h, n, L) /\ On(h, n) = live' /\ b <= n /\ n < k
                    /\ \A i \in 1 .. b : h[i] = f[i]
    BY <2>1 DEF Begins
  <2>3. n \in Nat
    BY <2>2 DEF List, Chain
  <2>4. a \in 1 .. n /\ b \in 1 .. n /\ a \in 1 .. b /\ b \in 1 .. b
    BY <1>3, <2>2, <2>3
  <2>5. p' = h[a] /\ q' = h[b]
    BY <1>3, <1>12, <2>2, <2>4
  <2>6. PICK u \in Nat, v \in Nat : u = n - a + 1 /\ v = n - b + 1 /\ u <= x /\ v <= y
    BY <1>4, <2>2, <2>3, <2>4
  <2>7. Long(next', p', u) /\ Long(next', q', v)
    <3>1. Long(next', h[a], n - a + 1)
      BY <2>2, <2>4, LongSuffix
    <3>2. Long(next', h[b], n - b + 1)
      BY <2>2, <2>4, LongSuffix
    <3> QED
      BY <2>5, <2>6, <3>1, <3>2
  <2>8. PICK mu \in Nat : mu = m * u /\ mu <= mx
    BY <1>6, <2>6, Scale
  <2>9. Work' = (Bound + 3) * u + v
    BY <1>1, <1>12, <2>7 DEF WorkFact, ListTypeOK
  <2>10. Work' = mu + v
    BY <1>5, <2>8, <2>9
  <2>11. mu + v < mx + m + y + 1
    <3>1. mu <= mx /\ v <= y
      BY <2>6, <2>8
    <3>2. m \in Nat /\ mx \in Nat
      BY <1>5, <1>6, BoundNat
    <3> QED
      BY <3>1, <3>2
  <2> QED
    BY <1>10, <2>10, <2>11
<1>13. CASE q' = next[q] /\ p' = p /\ pc' = pc /\ UNCHANGED next
  <2>1. Work' = (Bound + 3) * (x + 1) + y
    BY <1>1, <1>8, <1>9, <1>13 DEF WorkFact, ListTypeOK
  <2>2. Work' = mx + m + y
    BY <1>5, <1>7, <2>1
  <2> QED
    BY <1>10, <2>2
<1> QED
  BY <1>11, <1>12, <1>13 DEF PurInner, QAfterRemoval

LEMMA ReversStepAdvances ==
  ASSUME ShapeInv, ShapeInv', WorkFact, WorkFact', ReversStep
  PROVE  Work' < Work
<1>1. pc = "revers" /\ L # Null /\ ListTypeOK /\ ListTypeOK'
  BY DEF ReversStep, ShapeInv, TwoInv
<1>2. PICK S \in SUBSET Nodes, T \in SUBSET Nodes :
        /\ Listed(next, L, S) /\ Listed(next, p, T) /\ S \cap T = {}
  BY <1>1 DEF ShapeInv, TwoInv
<1>3. PICK x \in Nat : x = Cardinality(T) /\ Long(next, p, x) /\ IsFiniteSet(T)
  <2>1. Long(next, p, Cardinality(T)) /\ IsFiniteSet(T)
    BY <1>2, LongListed
  <2> QED
    BY <2>1, LongBound
<1>4. Work = x + 1
  BY <1>1, <1>3 DEF WorkFact, ListTypeOK
<1>5. CASE p = Null
  <2>1. pc' = "ready"
    BY <1>5 DEF ReversStep
  <2>2. Work' = 0
    BY <1>1, <2>1 DEF WorkFact, ListTypeOK
  <2> QED
    BY <1>4, <2>2
<1>6. CASE p # Null
  <2>1. /\ p' = next[p] /\ pc' = pc
        /\ next' = [next EXCEPT ![p] = next[L], ![L] = p]
    BY <1>6 DEF ReversStep
  <2>2. p \in T /\ Listed(next, next[p], T \ {p})
    BY <1>2, <1>6, ListedTail
  <2>3. L \in S
    BY <1>1, <1>2, ListedFacts
  <2>4. \A y \in T \ {p} : next'[y] = next[y]
    BY <1>1, <1>2, <2>1, <2>2, <2>3 DEF ListTypeOK
  <2>5. Listed(next', next[p], T \ {p})
    BY <2>2, <2>4, ListedSame
  <2>6. Long(next', next[p], Cardinality(T \ {p}))
    BY <2>5, LongListed
  <2>7. Cardinality(T \ {p}) = x - 1
    BY <1>3, <2>2, FS_RemoveElement
  <2>8. PICK y \in Nat : y = x - 1 /\ Long(next', p', y)
    BY <2>1, <2>6, <2>7, LongBound
  <2>9. Work' = y + 1
    BY <1>1, <2>1, <2>8 DEF WorkFact, ListTypeOK
  <2> QED
    BY <1>4, <2>8, <2>9
<1> QED
  BY <1>5, <1>6

LEMMA DestroyStepAdvances ==
  ASSUME ShapeInv, ShapeInv', WorkFact, WorkFact', DestroyStep
  PROVE  Work' < Work
<1>1. pc = "destroy" /\ ListTypeOK /\ ListTypeOK' /\ Listed(next, L, live) /\ UNCHANGED next
  BY DEF DestroyStep, ShapeInv, ClosedInv
<1>2. PICK x \in Nat : x = Cardinality(live) /\ Long(next, L, x) /\ IsFiniteSet(live)
  <2>1. Long(next, L, Cardinality(live)) /\ IsFiniteSet(live)
    BY <1>1, LongListed
  <2> QED
    BY <2>1, LongBound
<1>3. Work = x + 1
  BY <1>1, <1>2 DEF WorkFact, ListTypeOK
<1>4. CASE L = Null
  <2>1. pc' = "done"
    BY <1>4 DEF DestroyStep
  <2>2. Work' = 0
    BY <1>1, <2>1 DEF WorkFact, ListTypeOK
  <2> QED
    BY <1>3, <2>2
<1>5. CASE L # Null
  <2>1. pc' = pc /\ L' = next[L]
    BY <1>5 DEF DestroyStep, NextHead
  <2>2. L \in live /\ Listed(next, next[L], live \ {L})
    BY <1>1, <1>5, ListedTail
  <2>3. Long(next, next[L], Cardinality(live \ {L}))
    BY <2>2, LongListed
  <2>4. Cardinality(live \ {L}) = x - 1
    BY <1>2, <2>2, FS_RemoveElement
  <2>5. PICK y \in Nat : y = x - 1 /\ Long(next', L', y)
    BY <1>1, <2>1, <2>3, <2>4, LongBound
  <2>6. Work' = y + 1
    BY <1>1, <2>1, <2>5 DEF WorkFact, ListTypeOK
  <2> QED
    BY <1>3, <2>5, <2>6
<1> QED
  BY <1>4, <1>5

\* Every iteration of a loop leaves less to do: on every list the loops end.
THEOREM LoopsEnd == Spec => LoopsAdvance
<1>1. ShapeInv /\ ShapeInv' /\ WorkFact /\ WorkFact' /\ [Next]_vars => [Loops => Work' < Work]_vars
  <2> SUFFICES ASSUME ShapeInv, ShapeInv', WorkFact, WorkFact', Loops
               PROVE  Work' < Work
    OBVIOUS
  <2> QED
    BY PurOuterAdvances, PurInnerAdvances, ReversStepAdvances, DestroyStepAdvances DEF Loops
<1> QED
  BY <1>1, ShapeInvariant, WorkAlways, PTL DEF Spec, LoopsAdvance
=============================================================================
