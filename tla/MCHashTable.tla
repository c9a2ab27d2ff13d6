---------------------------- MODULE MCHashTable ----------------------------
(* A small instance of HashTable for TLC. *)
EXTENDS HashTable

CONSTANTS r1, v1, v2

\* In four slots: 3 and -1 (as an unsigned int of 4 bits it is 15) have the last
\* slot as their home, 4 has the first.
SomeKeys == {-1, 3, 4}

\* -1 is inserted with one value, and overwritten with another.
SomeItems == {<<-1, v1>>, <<-1, v2>>, <<3, v1>>, <<4, v1>>}
=============================================================================
