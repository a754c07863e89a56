---------------------------- MODULE Allocator ----------------------------
(***************************************************************************)
(* What a heap promises its clients: the pieces of memory they own lie     *)
(* inside the heap and never overlap.  EquivMalloc implements this.        *)
(***************************************************************************)
EXTENDS Integers

CONSTANT HeapWords

VARIABLE owned      \* the pieces [at, len] handed out and not yet freed

Pieces == {p \in [at : 1..HeapWords, len : 1..HeapWords] : p.at + p.len <= HeapWords + 1}

Disjoint(p, r) == p.at + p.len <= r.at \/ r.at + r.len <= p.at

Init == owned = {}

Give == \E p \in Pieces :
  /\ \A r \in owned : Disjoint(p, r)
  /\ owned' = owned \cup {p}

Take == \E p \in owned : owned' = owned \ {p}

\* In place, without touching the others.
Resize == \E p \in owned, n \in 1..HeapWords :
  LET r == [p EXCEPT !.len = n] IN
  /\ r \in Pieces /\ \A s \in owned \ {p} : Disjoint(r, s)
  /\ owned' = (owned \ {p}) \cup {r}

Spec == Init /\ [][Give \/ Take \/ Resize]_owned
=============================================================================
