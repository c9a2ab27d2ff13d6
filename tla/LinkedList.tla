----------------------------- MODULE LinkedList -----------------------------
(***************************************************************************)
(* The singly linked list of src/src/lib/store/list.c, as operators on its *)
(* head, tail and next pointers.  A node is identified with the value it   *)
(* holds, and a value is pushed only while it is not in the list (the      *)
(* addresses of a segment, the tasks of a file).                           *)
(***************************************************************************)
EXTENDS Integers, Sequences, FiniteSets

CONSTANTS Nodes, NULL

ASSUME ListAssumption == NULL \notin Nodes /\ IsFiniteSet(Nodes)

Pointer == Nodes \cup {NULL}

List == [head : Pointer, tail : Pointer, next : [Nodes -> Pointer]]

new_list == [head |-> NULL, tail |-> NULL, next |-> [n \in Nodes |-> NULL]]

\* s is what the walk from head to NULL visits, which iterate_list and
\* remove_list_item make.
Visits(l, s) ==
  /\ l.head = IF s = <<>> THEN NULL ELSE s[1]
  /\ \A i \in DOMAIN s : l.next[s[i]] = IF i = Len(s) THEN NULL ELSE s[i + 1]

\* It meets no node twice, or it would not end.
Paths == UNION {[1 .. n -> Nodes] : n \in 0 .. Cardinality(Nodes)}

Walk(l) == CHOOSE s \in Paths : Visits(l, s)

Elements(l) == {Walk(l)[i] : i \in DOMAIN Walk(l)}

\* tail is the last of those nodes.
TailIsLast(l, s) == l.tail = IF s = <<>> THEN NULL ELSE s[Len(s)]

\* push_list_item.  A list with a head and no tail makes it write through NULL.
push_list_item(l, n) ==
  IF l.head = NULL THEN [head |-> n, tail |-> n, next |-> [l.next EXCEPT ![n] = NULL]]
  ELSE [head |-> l.head, tail |-> n, next |-> [l.next EXCEPT ![n] = NULL, ![l.tail] = n]]

\* What remove_list_item does at node n, which follows prev or, if that is
\* NULL, is the head.  tail becomes prev wherever n is.
Unlink(l, prev, n) ==
  [head |-> IF prev = NULL THEN l.next[n] ELSE l.head,
   tail |-> prev,
   next |-> IF prev = NULL THEN l.next ELSE [l.next EXCEPT ![prev] = l.next[n]]]

\* remove_list_item(l, n), for an n that is in the list
remove_list_item(l, n) ==
  LET s == Walk(l)
      i == CHOOSE j \in DOMAIN s : s[j] = n
  IN  Unlink(l, IF i = 1 THEN NULL ELSE s[i - 1], n)
=============================================================================
