---------------------------- MODULE SetStore ----------------------------
(***************************************************************************)
(* What set.h promises: sets of values, behind handles.                    *)
(***************************************************************************)
CONSTANTS
  Handles, Values,
  NoSet           \* what a handle without a set stands for

VARIABLES
  sets,           \* the set behind each handle
  last            \* the last call and its answer; only an insertion has one

vars == <<sets, last>>

Init == sets = [h \in Handles |-> NoSet] /\ last = [call |-> "none", answer |-> FALSE]

Live == {h \in Handles : sets[h] # NoSet}
Becomes(h, s, call, answer) ==
  last' = [call |-> call, answer |-> answer] /\ sets' = [sets EXCEPT ![h] = s]

New  == \E h \in Handles \ Live : Becomes(h, {}, "alloc", FALSE)
Free == \E h \in Live : Becomes(h, NoSet, "free", FALSE)

\* The answer is the one a caller goes by (interleaver.c:178): was v there?
Insert ==
  \E h \in Live, v \in Values : Becomes(h, sets[h] \cup {v}, "insert", v \in sets[h])

\* Into a fresh set z, a copy being the union of a set with itself; and in place.
Union         == \E z, x, y \in Live : Becomes(z, sets[x] \cup sets[y], "union", FALSE)
UnionInto     == \E y, x \in Live : Becomes(y, sets[y] \cup sets[x], "union into", FALSE)
Intersect     == \E z, x, y \in Live : Becomes(z, sets[x] \cap sets[y], "intersect", FALSE)
IntersectInto == \E y, x \in Live : Becomes(y, sets[y] \cap sets[x], "intersect into", FALSE)

Next ==
  \/ New \/ Free \/ Insert
  \/ Union \/ UnionInto \/ Intersect \/ IntersectInto

Spec == Init /\ [][Next]_vars
=============================================================================
