-------------------------- MODULE LinkedListProofs --------------------------
(***************************************************************************)
(* What push_list_item and remove_list_item do to the sequence of nodes    *)
(* that a walk visits, and to the set of them, for a list of any length.   *)
(***************************************************************************)
EXTENDS LinkedList, FiniteSetTheorems, TLAPS

\* s without its k-th node
Without(s, k) == [i \in 1 .. Len(s) - 1 |-> IF i < k THEN s[i] ELSE s[i + 1]]

\* The first k nodes of s, and then n
CutAndAppend(s, k, n) == [i \in 1 .. k + 1 |-> IF i <= k THEN s[i] ELSE n]

Injective(s) == \A i, j \in 1 .. Len(s) : s[i] = s[j] => i = j

\* remove_list_item at the k-th node
RemoveAt(l, s, k) == Unlink(l, IF k = 1 THEN NULL ELSE s[k - 1], s[k])

LEMMA Intervals ==
  ASSUME NEW m \in Nat, m # 0
  PROVE  /\ 1 \in 1 .. m /\ m \in 1 .. m
         /\ m # 1 => 1 \in 1 .. m - 1 /\ m - 1 \in 1 .. m - 1 /\ m - 1 \in 1 .. m
  OBVIOUS

LEMMA WithoutLen ==
  ASSUME NEW s \in Seq(Nodes), NEW k \in 1 .. Len(s)
  PROVE  /\ Without(s, k) \in Seq(Nodes)
         /\ Len(Without(s, k)) = Len(s) - 1
         /\ DOMAIN Without(s, k) = 1 .. Len(s) - 1
         /\ Without(s, k) = <<>> <=> Len(s) = 1
         /\ \A i \in 1 .. Len(s) - 1 : Without(s, k)[i] = IF i < k THEN s[i] ELSE s[i + 1]
<1>1. Len(s) - 1 \in Nat /\ Without(s, k) \in [1 .. Len(s) - 1 -> Nodes]
  BY DEF Without
<1>2. /\ Without(s, k) \in Seq(Nodes)
      /\ Len(Without(s, k)) = Len(s) - 1
      /\ DOMAIN Without(s, k) = 1 .. Len(s) - 1
  BY <1>1
<1>3. Without(s, k) = <<>> <=> Len(Without(s, k)) = 0
  BY <1>2
<1>4. Len(s) \in Nat /\ (Len(s) - 1 = 0 <=> Len(s) = 1)
  OBVIOUS
<1>5. Without(s, k) = <<>> <=> Len(s) = 1
  BY <1>2, <1>3, <1>4
<1> QED BY <1>2, <1>5 DEF Without

LEMMA CutLen ==
  ASSUME NEW s \in Seq(Nodes), NEW k \in 0 .. Len(s), NEW n \in Nodes
  PROVE  /\ CutAndAppend(s, k, n) \in Seq(Nodes)
         /\ Len(CutAndAppend(s, k, n)) = k + 1
         /\ DOMAIN CutAndAppend(s, k, n) = 1 .. k + 1
         /\ CutAndAppend(s, k, n) # <<>>
         /\ \A i \in 1 .. k : CutAndAppend(s, k, n)[i] = s[i]
         /\ CutAndAppend(s, k, n)[k + 1] = n
<1>1. k + 1 \in Nat /\ CutAndAppend(s, k, n) \in [1 .. k + 1 -> Nodes]
  BY DEF CutAndAppend
<1> QED BY <1>1 DEF CutAndAppend

\* push_list_item on a list whose tail is its k-th node cuts the list there: the
\* nodes behind are lost.  (After a removal that is not of the last node, tail
\* is such a node.)
THEOREM PushCutsAtTail ==
  ASSUME NEW l \in List, NEW s \in Seq(Nodes), Visits(l, s), Injective(s),
         NEW k \in 1 .. Len(s), l.tail = s[k],
         NEW n \in Nodes, \A i \in 1 .. Len(s) : s[i] # n
  PROVE  /\ Visits(push_list_item(l, n), CutAndAppend(s, k, n))
         /\ TailIsLast(push_list_item(l, n), CutAndAppend(s, k, n))
<1> DEFINE c == CutAndAppend(s, k, n)
           r == push_list_item(l, n)
<1>0. /\ Len(s) \in Nat /\ Len(s) # 0 /\ k \in Nat /\ k \in 0 .. Len(s) /\ k + 1 # 1
      /\ k + 1 \in 1 .. k + 1
  OBVIOUS
<1>1. /\ Len(c) = k + 1 /\ DOMAIN c = 1 .. k + 1 /\ c # <<>>
      /\ \A i \in 1 .. k : c[i] = s[i]
      /\ c[k + 1] = n
  BY <1>0, CutLen
<1>2. /\ DOMAIN s = 1 .. Len(s) /\ s # <<>> /\ s[1] \in Nodes /\ s[k] \in Nodes
      /\ l.head = s[1] /\ l.head # NULL
  BY ListAssumption DEF Visits
<1>3. /\ r.head = l.head /\ r.tail = n
      /\ r.next = [l.next EXCEPT ![n] = NULL, ![s[k]] = n]
  BY <1>2 DEF push_list_item
<1>4. l.next \in [Nodes -> Pointer]
  BY DEF List
<1>5. ASSUME NEW i \in 1 .. k + 1
      PROVE  r.next[c[i]] = IF i = k + 1 THEN NULL ELSE c[i + 1]
  <2>1. CASE i = k + 1
    BY <1>1, <1>2, <1>3, <1>4, <2>1
  <2>2. CASE i = k
    BY <1>1, <1>2, <1>3, <1>4, <2>2
  <2>3. CASE i < k
    <3>1. /\ i \in 1 .. Len(s) /\ i # Len(s) /\ i + 1 \in 1 .. k
          /\ c[i] = s[i] /\ c[i + 1] = s[i + 1] /\ s[i] \in Nodes
      BY <1>1, <2>3
    <3>2. s[i] # n /\ s[i] # s[k]
      BY <2>3, <3>1 DEF Injective
    <3>3. l.next[s[i]] = s[i + 1]
      BY <1>2, <3>1 DEF Visits
    <3> QED BY <1>3, <1>4, <2>3, <3>1, <3>2, <3>3
  <2> QED BY <2>1, <2>2, <2>3
<1> HIDE DEF c, r
<1>6. r.head = c[1]
  BY <1>0, <1>1, <1>2, <1>3
<1>7. Visits(r, c)
  BY <1>1, <1>5, <1>6 DEF Visits
<1>8. TailIsLast(r, c)
  BY <1>1, <1>3 DEF TailIsLast
<1> QED BY <1>7, <1>8 DEF c, r

\* push_list_item appends to a list whose tail is its last node, and leaves tail
\* at the new one: what connect_shm needs to track an address, and create_entry a
\* task.
THEOREM PushAppends ==
  ASSUME NEW l \in List, NEW s \in Seq(Nodes), Visits(l, s), TailIsLast(l, s), Injective(s),
         NEW n \in Nodes, \A i \in 1 .. Len(s) : s[i] # n
  PROVE  /\ Visits(push_list_item(l, n), Append(s, n))
         /\ TailIsLast(push_list_item(l, n), Append(s, n))
<1>1. CASE s = <<>>
  <2>1. l.head = NULL /\ l.next \in [Nodes -> Pointer]
    BY <1>1 DEF Visits, List
  <2>2. /\ Append(s, n) # <<>> /\ Len(Append(s, n)) = 1 /\ DOMAIN Append(s, n) = 1 .. 1
        /\ Append(s, n)[1] = n
    BY <1>1
  <2> QED BY <2>1, <2>2 DEF push_list_item, Visits, TailIsLast
<1>2. CASE s # <<>>
  <2>1. Len(s) \in 1 .. Len(s) /\ l.tail = s[Len(s)]
    BY <1>2 DEF TailIsLast
  <2>2. CutAndAppend(s, Len(s), n) = Append(s, n)
    <3>1. /\ CutAndAppend(s, Len(s), n) \in Seq(Nodes)
          /\ Len(CutAndAppend(s, Len(s), n)) = Len(s) + 1
          /\ \A i \in 1 .. Len(s) : CutAndAppend(s, Len(s), n)[i] = s[i]
          /\ CutAndAppend(s, Len(s), n)[Len(s) + 1] = n
      BY CutLen
    <3> QED BY <3>1
  <2> QED BY <2>1, <2>2, PushCutsAtTail
<1> QED BY <1>1, <1>2

\* remove_list_item at any node takes that node, and no other, out of the list.
THEOREM RemoveUnlinks ==
  ASSUME NEW l \in List, NEW s \in Seq(Nodes), Visits(l, s), Injective(s),
         NEW k \in 1 .. Len(s)
  PROVE  Visits(RemoveAt(l, s, k), Without(s, k))
<1> DEFINE r == RemoveAt(l, s, k)
           t == Without(s, k)
<1>0. Len(s) \in Nat /\ Len(s) # 0 /\ k \in Nat
  OBVIOUS
<1>1. /\ Len(t) = Len(s) - 1 /\ DOMAIN t = 1 .. Len(s) - 1
      /\ \A i \in 1 .. Len(s) - 1 : t[i] = IF i < k THEN s[i] ELSE s[i + 1]
      /\ t = <<>> <=> Len(s) = 1
  BY WithoutLen
<1>2. /\ DOMAIN s = 1 .. Len(s) /\ s # <<>> /\ l.head = s[1]
      /\ \A i \in 1 .. Len(s) : s[i] \in Nodes /\ s[i] # NULL
      /\ \A i \in 1 .. Len(s) : l.next[s[i]] = IF i = Len(s) THEN NULL ELSE s[i + 1]
  BY ListAssumption DEF Visits
<1>3. l.next \in [Nodes -> Pointer]
  BY DEF List
<1>4. k = 1 => r.head = l.next[s[1]] /\ r.next = l.next
  BY DEF RemoveAt, Unlink
<1>5. k # 1 => /\ k - 1 \in 1 .. Len(s)
               /\ r.head = l.head /\ r.next = [l.next EXCEPT ![s[k - 1]] = l.next[s[k]]]
  <2>1. k # 1 => k - 1 \in 1 .. Len(s)
    BY <1>0
  <2> QED BY <1>2, <2>1 DEF RemoveAt, Unlink
<1> HIDE DEF r, t
<1>6. r.head = IF t = <<>> THEN NULL ELSE t[1]
  <2>1. 1 \in 1 .. Len(s) /\ (Len(s) # 1 => 1 \in 1 .. Len(s) - 1)
    BY <1>0, Intervals
  <2>2. CASE k = 1
    BY <1>0, <1>1, <1>2, <1>4, <2>1, <2>2
  <2>3. CASE k # 1
    BY <1>0, <1>1, <1>2, <1>5, <2>1, <2>3
  <2> QED BY <2>2, <2>3
<1>7. ASSUME NEW i \in 1 .. Len(s) - 1
      PROVE  r.next[t[i]] = IF i = Len(s) - 1 THEN NULL ELSE t[i + 1]
  <2>0. /\ i \in 1 .. Len(s) /\ i + 1 \in 1 .. Len(s) /\ i \in Nat /\ i # Len(s)
        /\ i # Len(s) - 1 <=> i + 1 # Len(s)
        /\ i # Len(s) - 1 => i + 1 \in 1 .. Len(s) - 1 /\ i + 1 + 1 \in 1 .. Len(s)
    BY <1>0
  <2>1. CASE i < k
    <3>1. t[i] = s[i] /\ k # 1 /\ k - 1 \in 1 .. Len(s)
      BY <1>0, <1>1, <1>5, <2>0, <2>1
    <3>2. CASE i = k - 1
      <4>1. r.next[t[i]] = l.next[s[k]]
        BY <1>2, <1>3, <1>5, <3>1, <3>2
      <4>2. k = i + 1 /\ ~(i + 1 < k)
        BY <1>0, <2>0, <3>2
      <4>3. i # Len(s) - 1 => t[i + 1] = s[i + 1 + 1]
        BY <1>1, <2>0, <4>2
      <4> QED BY <1>2, <2>0, <4>1, <4>2, <4>3
    <3>3. CASE i # k - 1
      <4>1. i + 1 < k
        BY <1>0, <2>0, <2>1, <3>3
      <4>2. s[i] # s[k - 1]
        BY <2>0, <3>1, <3>3 DEF Injective
      <4>3. r.next[t[i]] = l.next[s[i]]
        BY <1>2, <1>3, <1>5, <2>0, <3>1, <4>2
      <4>4. i # Len(s) - 1 /\ t[i + 1] = s[i + 1]
        BY <1>0, <1>1, <2>0, <4>1
      <4> QED BY <1>2, <2>0, <4>3, <4>4
    <3> QED BY <3>2, <3>3
  <2>2. CASE ~(i < k)
    <3>1. t[i] = s[i + 1] /\ ~(i + 1 < k) /\ i + 1 # k - 1
      BY <1>0, <1>1, <2>0, <2>2
    <3>2. k # 1 => s[i + 1] # s[k - 1]
      BY <1>5, <2>0, <3>1 DEF Injective
    <3>3. r.next[t[i]] = l.next[s[i + 1]]
      BY <1>2, <1>3, <1>4, <1>5, <2>0, <3>1, <3>2
    <3>4. i # Len(s) - 1 => t[i + 1] = s[i + 1 + 1]
      BY <1>1, <2>0, <3>1
    <3> QED BY <1>2, <2>0, <3>3, <3>4
  <2> QED BY <2>1, <2>2
<1>8. Visits(r, t)
  BY <1>1, <1>6, <1>7 DEF Visits
<1> QED BY <1>8 DEF r, t

\* remove_list_item leaves tail at the last node only if it removed the last one:
\* after any other removal, in which detach_shm of the latest address is the only
\* exception, the next push cuts the list (PushCutsAtTail) or has no tail at all.
THEOREM TailAfterRemove ==
  ASSUME NEW l \in List, NEW s \in Seq(Nodes), Visits(l, s), Injective(s),
         NEW k \in 1 .. Len(s)
  PROVE  TailIsLast(RemoveAt(l, s, k), Without(s, k)) <=> k = Len(s)
<1> DEFINE t == Without(s, k)
           r == RemoveAt(l, s, k)
<1>0. Len(s) \in Nat /\ Len(s) # 0 /\ k \in Nat
  OBVIOUS
<1>1. /\ Len(t) = Len(s) - 1
      /\ \A i \in 1 .. Len(s) - 1 : t[i] = IF i < k THEN s[i] ELSE s[i + 1]
      /\ t = <<>> <=> Len(s) = 1
  BY WithoutLen
<1>2. \A i \in 1 .. Len(s) : s[i] \in Nodes /\ s[i] # NULL
  BY ListAssumption
<1>3. r.tail = IF k = 1 THEN NULL ELSE s[k - 1]
  BY DEF RemoveAt, Unlink
<1> HIDE DEF r, t
<1>4. k # 1 => k - 1 \in 1 .. Len(s) /\ k - 1 # Len(s)
  BY <1>0
<1>5. CASE Len(s) = 1
  BY <1>0, <1>1, <1>3, <1>5 DEF TailIsLast, r, t
<1>6. CASE Len(s) # 1
  <2>1. Len(s) - 1 \in 1 .. Len(s) - 1 /\ Len(s) - 1 \in 1 .. Len(s) /\ Len(s) \in 1 .. Len(s)
    BY <1>0, <1>6, Intervals
  <2>2. CASE k = Len(s)
    <3>1. t[Len(t)] = s[k - 1]
      BY <1>0, <1>1, <2>1, <2>2
    <3> QED BY <1>1, <1>3, <1>6, <2>2, <3>1 DEF TailIsLast, r, t
  <2>3. CASE k # Len(s)
    <3>1. t[Len(t)] = s[Len(s)]
      BY <1>0, <1>1, <2>1, <2>3
    <3>2. k # 1 => s[k - 1] # s[Len(s)]
      BY <1>4, <2>1 DEF Injective
    <3>3. r.tail # s[Len(s)]
      BY <1>2, <1>3, <2>1, <3>2
    <3> QED BY <1>1, <1>6, <2>3, <3>1, <3>3 DEF TailIsLast, r, t
  <2> QED BY <2>2, <2>3
<1> QED BY <1>5, <1>6

----------------------------------------------------------------------------
(* A list has one walk, and it meets no node twice                          *)

\* Induction over the natural numbers, for a set.  If S missed n, the numbers up
\* to n that it misses would fit, each mapped to its predecessor, into one fewer.
LEMMA SetInduction ==
  ASSUME NEW S, 0 \in S, \A n \in Nat : n \in S => n + 1 \in S
  PROVE  Nat \subseteq S
<1> SUFFICES ASSUME NEW n \in Nat, n \notin S PROVE FALSE
  OBVIOUS
<1> DEFINE T == (0 .. n) \ S
           f == [x \in T |-> x - 1]
<1>1. IsFiniteSet(T)
  <2>1. IsFiniteSet(0 .. n)
    BY FS_Interval
  <2> QED BY <2>1, FS_Subset
<1>2. n \in T
  OBVIOUS
<1>3. /\ IsFiniteSet(T \ {n}) /\ Cardinality(T \ {n}) = Cardinality(T) - 1
      /\ Cardinality(T) \in Nat
  BY <1>1, <1>2, FS_RemoveElement, FS_CardinalityType
<1>4. f \in [T -> T \ {n}]
  <2> SUFFICES ASSUME NEW x \in T PROVE x - 1 \in T \ {n}
    OBVIOUS
  <2>1. x \in 0 .. n /\ x # 0 /\ x \notin S
    OBVIOUS
  <2>2. x - 1 \in Nat /\ x = (x - 1) + 1
    BY <2>1
  <2>3. x - 1 \notin S
    BY <2>1, <2>2
  <2>4. x - 1 \in 0 .. n /\ x - 1 # n
    BY <2>1
  <2> QED BY <2>3, <2>4
<1>5. \A x, y \in T : f[x] = f[y] => x = y
  OBVIOUS
<1>6. Cardinality(T \ {n}) < Cardinality(T)
  BY <1>3
<1> HIDE DEF T, f
<1> QED BY <1>1, <1>3, <1>4, <1>5, <1>6, FS_PigeonHole

\* Two walks agree as far as the first goes.
LEMMA WalksAgree ==
  ASSUME NEW l, NEW s \in Seq(Nodes), NEW t \in Seq(Nodes), Visits(l, s), Visits(l, t)
  PROVE  \A i \in 1 .. Len(s) : i \in 1 .. Len(t) /\ s[i] = t[i]
<1> DEFINE S == {i \in Nat : i + 1 \in 1 .. Len(s) =>
                               i + 1 \in 1 .. Len(t) /\ s[i + 1] = t[i + 1]}
<1>0. /\ Len(s) \in Nat /\ Len(t) \in Nat
      /\ \A i \in 1 .. Len(s) : s[i] \in Nodes /\ s[i] # NULL
      /\ \A i \in 1 .. Len(t) : t[i] \in Nodes /\ t[i] # NULL
      /\ s = <<>> <=> Len(s) = 0
      /\ t = <<>> <=> Len(t) = 0
      /\ DOMAIN s = 1 .. Len(s) /\ DOMAIN t = 1 .. Len(t)
  BY ListAssumption
<1>1. 0 \in S
  <2> SUFFICES ASSUME 1 \in 1 .. Len(s) PROVE 1 \in 1 .. Len(t) /\ s[1] = t[1]
    OBVIOUS
  <2>1. l.head = s[1] /\ l.head # NULL
    BY <1>0 DEF Visits
  <2>2. t # <<>> /\ l.head = t[1]
    BY <2>1 DEF Visits
  <2> QED BY <1>0, <2>1, <2>2
<1>2. ASSUME NEW i \in Nat, i \in S PROVE i + 1 \in S
  <2> SUFFICES ASSUME i + 1 + 1 \in 1 .. Len(s)
               PROVE  i + 1 + 1 \in 1 .. Len(t) /\ s[i + 1 + 1] = t[i + 1 + 1]
    OBVIOUS
  <2>1. i + 1 \in 1 .. Len(s) /\ i + 1 # Len(s)
    OBVIOUS
  <2>2. i + 1 \in 1 .. Len(t) /\ s[i + 1] = t[i + 1]
    BY <1>2, <2>1
  <2>3. l.next[s[i + 1]] = s[i + 1 + 1] /\ l.next[s[i + 1]] # NULL
    BY <1>0, <2>1 DEF Visits
  <2>4. i + 1 # Len(t) /\ l.next[t[i + 1]] = t[i + 1 + 1]
    BY <1>0, <2>2, <2>3 DEF Visits
  <2>5. i + 1 + 1 \in 1 .. Len(t)
    <3>1. Len(t) \in Nat
      OBVIOUS
    <3> QED BY ONLY <2>2, <2>4, <3>1, i \in Nat
  <2> QED BY <2>2, <2>3, <2>4, <2>5
<1>3. Nat \subseteq S
  <2> HIDE DEF S
  <2> QED BY <1>1, <1>2, SetInduction
<1> SUFFICES ASSUME NEW i \in 1 .. Len(s) PROVE i \in 1 .. Len(t) /\ s[i] = t[i]
  OBVIOUS
<1>4. i - 1 \in Nat /\ i = (i - 1) + 1
  <2>1. Len(s) \in Nat
    OBVIOUS
  <2> QED BY ONLY <2>1, i \in 1 .. Len(s)
<1>5. i - 1 \in S
  BY <1>3, <1>4
<1> QED BY <1>4, <1>5

\* The walk is unique.
LEMMA OneWalk ==
  ASSUME NEW l, NEW s \in Seq(Nodes), NEW t \in Seq(Nodes), Visits(l, s), Visits(l, t)
  PROVE  s = t
<1>1. /\ \A i \in 1 .. Len(s) : i \in 1 .. Len(t) /\ s[i] = t[i]
      /\ \A i \in 1 .. Len(t) : i \in 1 .. Len(s)
  BY WalksAgree
<1>2. Len(s) \in Nat /\ Len(t) \in Nat
  OBVIOUS
<1>3. Len(s) = Len(t)
  <2>1. Len(s) # 0 => Len(s) \in 1 .. Len(t)
    BY <1>1, <1>2
  <2>2. Len(t) # 0 => Len(t) \in 1 .. Len(s)
    BY <1>1, <1>2
  <2> QED BY <1>2, <2>1, <2>2
<1> QED BY <1>1, <1>3

\* A walk that met a node twice would go round for ever, and not reach NULL.
LEMMA WalkInjective ==
  ASSUME NEW l, NEW s \in Seq(Nodes), Visits(l, s)
  PROVE  Injective(s)
<1>0. /\ Len(s) \in Nat /\ DOMAIN s = 1 .. Len(s)
      /\ \A k \in 1 .. Len(s) : s[k] \in Nodes /\ s[k] # NULL
      /\ \A k \in 1 .. Len(s) : l.next[s[k]] = IF k = Len(s) THEN NULL ELSE s[k + 1]
  BY ListAssumption DEF Visits
<1>a. \A i \in 1 .. Len(s) : i \in Nat /\ i >= 1 /\ i <= Len(s)
  <2>1. Len(s) \in Nat
    OBVIOUS
  <2> QED BY ONLY <2>1
<1>1. ASSUME NEW i \in 1 .. Len(s), NEW j \in 1 .. Len(s), i < j, s[i] = s[j] PROVE FALSE
  <2>0. i \in Nat /\ j \in Nat /\ i >= 1 /\ j <= Len(s) /\ Len(s) \in Nat
    BY <1>0, <1>a
  <2> DEFINE S == {k \in Nat : j + k \in 1 .. Len(s) => s[i + k] = s[j + k]}
  <2>1. 0 \in S
    BY <1>1, <2>0
  <2>2. ASSUME NEW k \in Nat, k \in S PROVE k + 1 \in S
    <3> SUFFICES ASSUME j + (k + 1) \in 1 .. Len(s) PROVE s[i + (k + 1)] = s[j + (k + 1)]
      OBVIOUS
    <3>1. /\ j + k \in 1 .. Len(s) /\ j + k # Len(s) /\ j + k + 1 = j + (k + 1)
          /\ i + k \in 1 .. Len(s) /\ i + k # Len(s) /\ i + k + 1 = i + (k + 1)
      BY ONLY <1>1, <2>0, k \in Nat, j + (k + 1) \in 1 .. Len(s)
    <3>2. s[i + k] = s[j + k]
      BY <2>2, <3>1
    <3>3. l.next[s[j + k]] = s[j + k + 1] /\ l.next[s[i + k]] = s[i + k + 1]
      BY <1>0, <3>1
    <3> QED BY <3>1, <3>2, <3>3
  <2>3. Nat \subseteq S
    <3> HIDE DEF S
    <3> QED BY <2>1, <2>2, SetInduction
  <2> DEFINE m == i + (Len(s) - j)
  <2>4. /\ Len(s) - j \in Nat /\ j + (Len(s) - j) = Len(s) /\ Len(s) \in 1 .. Len(s)
        /\ m \in 1 .. Len(s) /\ m # Len(s) /\ m + 1 \in 1 .. Len(s)
    BY ONLY <1>1, <2>0
  <2>5. s[m] = s[Len(s)]
    <3>1. Len(s) - j \in S
      BY <2>3, <2>4
    <3> QED BY <2>4, <3>1
  <2> HIDE DEF m
  <2>6. l.next[s[m]] = s[m + 1] /\ l.next[s[Len(s)]] = NULL /\ s[m + 1] # NULL
    BY <1>0, <2>4
  <2> QED BY <2>5, <2>6
<1> SUFFICES ASSUME NEW i \in 1 .. Len(s), NEW j \in 1 .. Len(s), s[i] = s[j] PROVE i = j
  BY DEF Injective
<1>2. ~(i < j) /\ ~(j < i)
  BY <1>1
<1> QED BY <1>a, <1>2

LEMMA PathsAreSequences == Paths \subseteq Seq(Nodes)
<1> SUFFICES ASSUME NEW s \in Paths PROVE s \in Seq(Nodes)
  OBVIOUS
<1>1. PICK n \in 0 .. Cardinality(Nodes) : s \in [1 .. n -> Nodes]
  BY DEF Paths
<1>2. n \in Nat
  OBVIOUS
<1> QED BY <1>1, <1>2

\* A walk is no longer than there are nodes ...
LEMMA WalkBounded ==
  ASSUME NEW l, NEW s \in Seq(Nodes), Visits(l, s)
  PROVE  s \in Paths
<1>1. Injective(s)
  BY WalkInjective
<1>2. Len(s) \in Nat /\ s \in [1 .. Len(s) -> Nodes]
  OBVIOUS
<1>3. s \in Injection(1 .. Len(s), Nodes)
  <2>1. \A i, j \in 1 .. Len(s) : s[i] = s[j] => i = j
    BY <1>1 DEF Injective
  <2> QED BY ONLY <1>2, <2>1 DEF Injection, IsInjective
<1>4. IsFiniteSet(Nodes) /\ Cardinality(Nodes) \in Nat
  BY ListAssumption, FS_CardinalityType
<1>5. Cardinality(1 .. Len(s)) <= Cardinality(Nodes)
  BY <1>3, <1>4, FS_Injection
<1>6. Cardinality(1 .. Len(s)) = Len(s)
  BY <1>2, FS_Interval
<1> QED BY <1>2, <1>4, <1>5, <1>6 DEF Paths

\* ... so that Walk finds it: the one sequence that a walk visits.
THEOREM WalkIs ==
  ASSUME NEW l, NEW s \in Seq(Nodes), Visits(l, s)
  PROVE  Walk(l) = s /\ Injective(s)
<1>1. s \in Paths
  BY WalkBounded
<1>2. Walk(l) \in Paths /\ Visits(l, Walk(l))
  BY <1>1 DEF Walk
<1>3. Walk(l) \in Seq(Nodes)
  BY <1>2, PathsAreSequences
<1>4. Walk(l) = s
  BY <1>2, <1>3, OneWalk
<1> QED BY <1>4, WalkInjective

----------------------------------------------------------------------------
(* The set of nodes of a list                                               *)

\* l is a list: following next from its head one comes to NULL.
IsList(l) == l \in List /\ \E s \in Paths : Visits(l, s)

LEMMA ListFrom ==
  ASSUME NEW l \in List, NEW s \in Seq(Nodes), Visits(l, s)
  PROVE  IsList(l) /\ Walk(l) = s /\ Elements(l) = {s[i] : i \in 1 .. Len(s)}
<1>1. Walk(l) = s /\ s \in Paths
  BY WalkIs, WalkBounded
<1> QED BY <1>1 DEF IsList, Elements

LEMMA ListWalk ==
  ASSUME NEW l, IsList(l)
  PROVE  /\ l \in List /\ Walk(l) \in Seq(Nodes) /\ Visits(l, Walk(l)) /\ Injective(Walk(l))
         /\ Elements(l) = {Walk(l)[i] : i \in 1 .. Len(Walk(l))} /\ Elements(l) \subseteq Nodes
<1>1. PICK s \in Paths : Visits(l, s)
  BY DEF IsList
<1>2. s \in Seq(Nodes)
  BY PathsAreSequences
<1>3. Walk(l) = s /\ Injective(s) /\ l \in List
  BY <1>1, <1>2, WalkIs DEF IsList
<1>4. Elements(l) = {s[i] : i \in 1 .. Len(s)}
  BY <1>1, <1>2, <1>3, ListFrom
<1> QED BY <1>1, <1>2, <1>3, <1>4

\* A list has no node exactly if its head is NULL; else the head is one.
LEMMA HeadOfList ==
  ASSUME NEW l, IsList(l)
  PROVE  /\ l.head = NULL => Elements(l) = {}
         /\ l.head # NULL => l.head \in Elements(l)
<1> DEFINE s == Walk(l)
<1>1. s \in Seq(Nodes) /\ Visits(l, s) /\ Elements(l) = {s[i] : i \in 1 .. Len(s)}
  BY ListWalk
<1> HIDE DEF s
<1>2. CASE s = <<>>
  BY <1>1, <1>2 DEF Visits
<1>3. CASE s # <<>>
  <2>1. 1 \in 1 .. Len(s) /\ s[1] \in Nodes
    BY <1>1, <1>3
  <2> QED BY <1>1, <1>3, <2>1, ListAssumption DEF Visits
<1> QED BY <1>2, <1>3

\* new_list: a list of no nodes, whose tail is right.
LEMMA NewListEmpty ==
  IsList(new_list) /\ Elements(new_list) = {} /\ TailIsLast(new_list, Walk(new_list))
<1>1. new_list \in List
  BY DEF new_list, List, Pointer
<1>2. <<>> \in Seq(Nodes) /\ Visits(new_list, <<>>)
  BY DEF new_list, Visits
<1>3. IsList(new_list) /\ Walk(new_list) = <<>> /\ Elements(new_list) = {<<>>[i] : i \in 1 .. Len(<<>>)}
  BY <1>1, <1>2, ListFrom
<1>4. {<<>>[i] : i \in 1 .. Len(<<>>)} = {}
  OBVIOUS
<1> QED BY <1>3, <1>4 DEF TailIsLast, new_list

\* push_list_item adds its node to the list, when tail is right.
THEOREM PushElements ==
  ASSUME NEW l, IsList(l), TailIsLast(l, Walk(l)), NEW n \in Nodes, n \notin Elements(l)
  PROVE  /\ IsList(push_list_item(l, n)) /\ Elements(push_list_item(l, n)) = Elements(l) \cup {n}
         /\ TailIsLast(push_list_item(l, n), Walk(push_list_item(l, n)))
<1> DEFINE s == Walk(l)
           r == push_list_item(l, n)
<1>1. /\ l \in List /\ s \in Seq(Nodes) /\ Visits(l, s) /\ Injective(s)
      /\ Elements(l) = {s[i] : i \in 1 .. Len(s)}
  BY ListWalk
<1>2. \A i \in 1 .. Len(s) : s[i] # n
  BY <1>1
<1>3. Visits(r, Append(s, n)) /\ TailIsLast(r, Append(s, n))
  BY <1>1, <1>2, PushAppends
<1>4. r \in List
  BY <1>1 DEF push_list_item, List, Pointer
<1> HIDE DEF s, r
<1>5. Append(s, n) \in Seq(Nodes)
  BY <1>1
<1>6. /\ IsList(r) /\ Walk(r) = Append(s, n)
      /\ Elements(r) = {Append(s, n)[i] : i \in 1 .. Len(Append(s, n))}
  BY <1>3, <1>4, <1>5, ListFrom
<1>7. {Append(s, n)[i] : i \in 1 .. Len(Append(s, n))} = Elements(l) \cup {n}
  <2>1. /\ Len(s) \in Nat /\ Len(Append(s, n)) = Len(s) + 1
        /\ \A i \in 1 .. Len(s) : Append(s, n)[i] = s[i]
        /\ Append(s, n)[Len(s) + 1] = n
    BY <1>1
  <2>2. \A i : i \in 1 .. Len(s) + 1 <=> i \in 1 .. Len(s) \/ i = Len(s) + 1
    BY <2>1
  <2> QED BY <1>1, <2>1, <2>2
<1> QED BY <1>3, <1>6, <1>7 DEF r

\* remove_list_item takes its node out of the list; if it is the head, the head
\* is then the next node.
THEOREM RemoveElements ==
  ASSUME NEW l, IsList(l), NEW n \in Elements(l)
  PROVE  /\ IsList(remove_list_item(l, n)) /\ Elements(remove_list_item(l, n)) = Elements(l) \ {n}
         /\ n = l.head => remove_list_item(l, n).head = l.next[n]
<1> DEFINE s == Walk(l)
           k == CHOOSE j \in DOMAIN s : s[j] = n
           r == remove_list_item(l, n)
<1>1. /\ l \in List /\ s \in Seq(Nodes) /\ Visits(l, s) /\ Injective(s)
      /\ Elements(l) = {s[i] : i \in 1 .. Len(s)} /\ n \in Nodes
  BY ListWalk
<1>2. k \in 1 .. Len(s) /\ s[k] = n
  <2>1. DOMAIN s = 1 .. Len(s) /\ \E j \in 1 .. Len(s) : s[j] = n
    BY <1>1
  <2> HIDE DEF s
  <2> QED BY <2>1
<1>3. r = RemoveAt(l, s, k)
  BY <1>2 DEF remove_list_item, RemoveAt
<1> HIDE DEF s, k, r
<1>4. Visits(r, Without(s, k))
  BY <1>1, <1>2, <1>3, RemoveUnlinks
<1>5. k - 1 \in 1 .. Len(s) \/ k = 1
  BY <1>1, <1>2
<1>6. r \in List
  BY <1>1, <1>2, <1>3, <1>5 DEF RemoveAt, Unlink, List, Pointer
<1>7. /\ Without(s, k) \in Seq(Nodes) /\ Len(Without(s, k)) = Len(s) - 1
      /\ \A i \in 1 .. Len(s) - 1 : Without(s, k)[i] = IF i < k THEN s[i] ELSE s[i + 1]
  BY <1>1, <1>2, WithoutLen
<1>8. IsList(r) /\ Elements(r) = {Without(s, k)[i] : i \in 1 .. Len(s) - 1}
  BY <1>4, <1>6, <1>7, ListFrom
<1>9. Elements(r) = Elements(l) \ {n}
  <2>0. Len(s) \in Nat /\ k \in Nat /\ 1 <= k /\ k <= Len(s)
    BY <1>1, <1>2
  <2>1. ASSUME NEW x \in Elements(r) PROVE x \in Elements(l) /\ x # n
    <3>1. PICK i \in 1 .. Len(s) - 1 : x = IF i < k THEN s[i] ELSE s[i + 1]
      BY <1>7, <1>8
    <3>2. PICK j \in 1 .. Len(s) : x = s[j] /\ j # k
      <4>1. i \in 1 .. Len(s) /\ i + 1 \in 1 .. Len(s) /\ (i < k => i # k) /\ (~(i < k) => i + 1 # k)
        BY ONLY <2>0, i \in 1 .. Len(s) - 1
      <4> QED BY <3>1, <4>1
    <3> QED BY <1>1, <1>2, <3>2 DEF Injective
  <2>2. ASSUME NEW x \in Elements(l), x # n PROVE x \in Elements(r)
    <3>1. PICK j \in 1 .. Len(s) : x = s[j] /\ j # k
      BY <1>1, <1>2, <2>2
    <3>2. CASE j < k
      <4>1. j \in 1 .. Len(s) - 1
        BY ONLY <2>0, <3>2, j \in 1 .. Len(s)
      <4> QED BY <1>7, <1>8, <3>1, <3>2, <4>1
    <3>3. CASE ~(j < k)
      <4>1. j - 1 \in 1 .. Len(s) - 1 /\ ~(j - 1 < k) /\ j - 1 + 1 = j
        BY ONLY <2>0, <3>1, <3>3, j \in 1 .. Len(s)
      <4> QED BY <1>7, <1>8, <3>1, <4>1
    <3> QED BY <3>2, <3>3
  <2> QED BY <2>1, <2>2
<1>10. n = l.head => r.head = l.next[n]
  <2> SUFFICES ASSUME n = l.head PROVE r.head = l.next[n]
    OBVIOUS
  <2>1. s # <<>> /\ 1 \in 1 .. Len(s)
    BY <1>1, <1>2
  <2>2. s[1] = n
    BY <1>1, <2>1 DEF Visits
  <2>3. k = 1
    BY <1>1, <1>2, <2>1, <2>2 DEF Injective
  <2> QED BY <1>2, <1>3, <2>3 DEF RemoveAt, Unlink
<1> QED BY <1>8, <1>9, <1>10 DEF r
=============================================================================
