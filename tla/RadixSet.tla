---------------------------- MODULE RadixSet ----------------------------
(***************************************************************************)
(* set.c: sets of 32-bit values as radix trees of 32-way nodes on the      *)
(* checker's heap, five bits a level.  Nodes are explicit, so that a node  *)
(* that is shared, freed twice or lost shows.                              *)
(***************************************************************************)
EXTENDS SequencesExt, FiniteSets, Integers

CONSTANTS
  Base,           \* children of a node: 32
  MAX_OFFSET,     \* levels below the root: 30 bits, that is 6
  Values,         \* the values that are inserted
  MaxNodes,       \* bound: nodes on the heap
  MaxLost,        \* bound: nodes on the heap that no set leads to
  Handles,        \* the variables of type set_t* of the clients: numbers
  NoSet           \* see SetStore

ASSUME RadixAssumption ==
  /\ Base \in Nat \ {0, 1} /\ MAX_OFFSET \in Nat
  /\ {MaxNodes, MaxLost} \subseteq Nat /\ Handles \subseteq Nat
  /\ Values \subseteq 0..(Base ^ (MAX_OFFSET + 1) - 1)

VARIABLES
  heap,           \* heap[n]: the node at address n; the domain is what is allocated
  root,           \* root[a]: the set behind handle a, or NULL
  last,           \* history: the last call and the answer, see SetStore
  contents        \* history: the set behind each handle, as set_lookup tells it

setVars == <<heap, root, last, contents>>

Digits == 0..(Base - 1)
Digit(v, offset) == (v \div Base ^ offset) % Base

\* for(int i = 0; i < 32; i++): Do(x, i) for each digit in turn.
ForDigits(Do(_, _), x) == FoldLeft(Do, x, [i \in 1..Base |-> i - 1])

\* Which address the allocator finds for a node does not matter.  The model
\* names a node after the place it is made for, the i-th child of s, and a
\* number that tells it from other nodes made for that place.
NULL == <<>>
New(h, s, i) ==
  LET taken == {g \in 1..MaxNodes : s \o <<i, g>> \in DOMAIN h}
  IN  s \o <<i, CHOOSE g \in 1..(MaxNodes + 1) : g \notin taken /\ 1..(g - 1) \subseteq taken>>

\* set_mk
Empty(offset) == [mask |-> {}, offset |-> offset, children |-> [i \in Digits |-> NULL]]

\* s->children[i] = set_alloc_offset(s->offset - 5)
WithChild(h, s, i) ==
  (New(h, s, i) :> Empty(h[s].offset - 1)) @@ [h EXCEPT ![s].children[i] = New(h, s, i)]

Child(h, s, i) == h[s].children[i]
Leaf(h, s)     == h[s].offset = 0

-----------------------------------------------------------------------------
\* Mutant of Inserted: the answer of the recursive call is dropped.
RECURSIVE InsertedOuterBit(_, _, _)
InsertedOuterBit(h, s, v) ==
  LET i       == Digit(v, h[s].offset)
      present == i \in h[s].mask
      marked  == [h EXCEPT ![s].mask = @ \cup {i}]
      below   == IF present THEN marked ELSE WithChild(marked, s, i)
  IN  IF Leaf(h, s) THEN [heap |-> marked, present |-> present]
      ELSE [InsertedOuterBit(below, Child(below, s, i), v) EXCEPT !.present = present]

\* set_insert: the heap it leaves, and the bit it found in the leaf.
RECURSIVE Inserted(_, _, _)
Inserted(h, s, v) ==
  LET i       == Digit(v, h[s].offset)
      present == i \in h[s].mask
      marked  == [h EXCEPT ![s].mask = @ \cup {i}]
      below   == IF present THEN marked ELSE WithChild(marked, s, i)
  IN  IF Leaf(h, s) THEN [heap |-> marked, present |-> present]
      ELSE Inserted(below, Child(below, s, i), v)

RECURSIVE Lookup(_, _, _)
Lookup(h, s, v) ==
  LET i == Digit(v, h[s].offset)
  IN  i \in h[s].mask /\ (Leaf(h, s) \/ Lookup(h, Child(h, s, i), v))

\* Mutant of Foreach: the digits of a value are put together in the wrong order.
RECURSIVE ForeachLowFirst(_, _, _)
ForeachLowFirst(h, s, prefix) ==
  LET Visit(seq, i) ==
        IF i \notin h[s].mask THEN seq
        ELSE IF Leaf(h, s) THEN Append(seq, prefix + i)
        ELSE seq \o ForeachLowFirst(h, Child(h, s, i), prefix + i)
  IN  ForDigits(Visit, <<>>)

\* set_foreach: the values in the order in which the handler gets them.
RECURSIVE Foreach(_, _, _)
Foreach(h, s, prefix) ==
  LET Visit(seq, i) ==
        IF i \notin h[s].mask THEN seq
        ELSE IF Leaf(h, s) THEN Append(seq, prefix * Base + i)
        ELSE seq \o Foreach(h, Child(h, s, i), prefix * Base + i)
  IN  ForDigits(Visit, <<>>)

\* set_free follows the pointers, whatever the mask says.
RECURSIVE Freed(_, _)
Freed(h, s) ==
  LET Visit(g, i) == IF Child(h, s, i) = NULL THEN g ELSE Freed(g, Child(h, s, i))
  IN  Restrict(ForDigits(Visit, h), DOMAIN ForDigits(Visit, h) \ {s})

\* set_copy
RECURSIVE Copied(_, _, _)
Copied(h, dst, src) ==
  LET Visit(g, i) ==
        LET g1 == WithChild(g, dst, i)
        IN  IF i \in h[src].mask THEN Copied(g1, Child(g1, dst, i), Child(h, src, i)) ELSE g
      top == [h EXCEPT ![dst].offset = h[src].offset, ![dst].mask = h[src].mask]
  IN  IF Leaf(h, src) THEN top ELSE ForDigits(Visit, top)

\* Mutant of CopiedUnder: the child is shared, not copied.
SharedUnder(h, s, i, src) == [h EXCEPT ![s].children[i] = src]

\* s->children[i] becomes a copy of src.
CopiedUnder(h, s, i, src) ==
  LET h1 == WithChild(h, s, i) IN Copied(h1, Child(h1, s, i), src)

\* set_union
RECURSIVE United(_, _, _, _)
United(h, z, x, y) ==
  LET both == h[x].mask \cap h[y].mask
      Visit(g, i) ==
        LET g1 == WithChild(g, z, i)
        IN  IF i \in both THEN United(g1, Child(g1, z, i), Child(h, x, i), Child(h, y, i))
            ELSE IF i \in h[x].mask THEN CopiedUnder(g, z, i, Child(h, x, i))
            ELSE IF i \in h[y].mask THEN CopiedUnder(g, z, i, Child(h, y, i))
            ELSE g
      top == [h EXCEPT ![z].mask = h[x].mask \cup h[y].mask]
  IN  IF Leaf(h, z) THEN top ELSE ForDigits(Visit, top)

\* set_union_inplace(y, x)
RECURSIVE UnitedInplace(_, _, _)
UnitedInplace(h, y, x) ==
  LET both == h[x].mask \cap h[y].mask
      Visit(g, i) ==
        IF i \in both THEN UnitedInplace(g, Child(h, y, i), Child(h, x, i))
        ELSE IF i \in h[x].mask THEN CopiedUnder(g, y, i, Child(h, x, i))
        ELSE g
      top == [h EXCEPT ![y].mask = @ \cup h[x].mask]
  IN  IF Leaf(h, y) THEN top ELSE ForDigits(Visit, top)

\* set_intersection
RECURSIVE Intersected(_, _, _, _)
Intersected(h, z, x, y) ==
  LET both == h[x].mask \cap h[y].mask
      Visit(g, i) ==
        LET g1 == WithChild(g, z, i)
        IN  IF i \in both THEN Intersected(g1, Child(g1, z, i), Child(h, x, i), Child(h, y, i))
            ELSE g
      top == [h EXCEPT ![z].mask = both]
  IN  IF Leaf(h, z) THEN top ELSE ForDigits(Visit, top)

\* Mutant of IntersectedInplace: children that only y has are dropped, not freed.
RECURSIVE IntersectedDrops(_, _, _)
IntersectedDrops(h, y, x) ==
  LET both == h[x].mask \cap h[y].mask
      Visit(g, i) ==
        IF i \in both THEN IntersectedDrops(g, Child(h, y, i), Child(h, x, i))
        ELSE IF i \in h[y].mask THEN [g EXCEPT ![y].children[i] = NULL] ELSE g
      top == [h EXCEPT ![y].mask = both]
  IN  IF Leaf(h, y) THEN top ELSE ForDigits(Visit, top)

\* Mutant of IntersectedInplace: the mask keeps what only x has, whose copies
\* would then be members.
RECURSIVE IntersectedKeeps(_, _, _)
IntersectedKeeps(h, y, x) ==
  LET both == h[x].mask \cap h[y].mask
      Visit(g, i) ==
        IF i \in both THEN IntersectedKeeps(g, Child(h, y, i), Child(h, x, i))
        ELSE IF i \in h[y].mask
             THEN [Freed(g, Child(h, y, i)) EXCEPT ![y].children[i] = NULL]
        ELSE IF i \in h[x].mask THEN CopiedUnder(g, y, i, Child(h, x, i))
        ELSE g
  IN  IF Leaf(h, y) THEN [h EXCEPT ![y].mask = both]
      ELSE ForDigits(Visit, [h EXCEPT ![y].mask = h[x].mask])

\* set_intersection_inplace(y, x): it also copies the children only x has,
\* under a bit of the mask that is clear.
RECURSIVE IntersectedInplace(_, _, _)
IntersectedInplace(h, y, x) ==
  LET both == h[x].mask \cap h[y].mask
      Visit(g, i) ==
        IF i \in both THEN IntersectedInplace(g, Child(h, y, i), Child(h, x, i))
        ELSE IF i \in h[y].mask
             THEN [Freed(g, Child(h, y, i)) EXCEPT ![y].children[i] = NULL]
        ELSE IF i \in h[x].mask THEN CopiedUnder(g, y, i, Child(h, x, i))
        ELSE g
      top == [h EXCEPT ![y].mask = both]
  IN  IF Leaf(h, y) THEN top ELSE ForDigits(Visit, top)

-----------------------------------------------------------------------------
\* The clients.  Like the callers in the checker, they give set_copy,
\* set_union and set_intersection a fresh destination, and no set twice to
\* an operation that writes it.
Live     == {a \in Handles : root[a] # NULL}
Fresh(a) == heap[root[a]] = Empty(MAX_OFFSET)

\* The nodes that pointers lead to, and those that masks lead to.
RECURSIVE Below(_, _, _)
Below(h, s, ByMask) ==
  {s} \cup UNION {Below(h, Child(h, s, i), ByMask) :
                  i \in {j \in Digits : Child(h, s, j) # NULL /\ (ByMask => j \in h[s].mask)}}

InReach(ByMask) == UNION {Below(heap, root[a], ByMask) : a \in Live}
Lost == DOMAIN heap \ InReach(FALSE)

\* Bound: set_alloc does not fail (it would panic).
Room == Cardinality(DOMAIN heap') <= MaxNodes /\ Cardinality(Lost') <= MaxLost

Members(a) == {v \in Values : Lookup(heap, root[a], v)}
Contents == [a \in Handles |-> IF root[a] = NULL THEN NoSet ELSE Members(a)]

\* A call without an answer.
Silent(call) == [call |-> call, answer |-> FALSE]

SetInit ==
  /\ heap = <<>>
  /\ root = [a \in Handles |-> NULL]
  /\ last = Silent("none")
  /\ contents = Contents

SetAlloc(a) ==
  /\ a \notin Live
  /\ root' = [root EXCEPT ![a] = New(heap, NULL, a)]
  /\ heap' = (New(heap, NULL, a) :> Empty(MAX_OFFSET)) @@ heap
  /\ last' = Silent("alloc")

SetFree(a) ==
  /\ a \in Live
  /\ heap' = Freed(heap, root[a])
  /\ root' = [root EXCEPT ![a] = NULL]
  /\ last' = Silent("free")

SetInsert(a, v) ==
  LET r == Inserted(heap, root[a], v) IN
  /\ a \in Live
  /\ heap' = r.heap
  /\ last' = [call |-> "insert", answer |-> r.present]
  /\ UNCHANGED root

SetCopy(d, s) ==
  /\ {d, s} \subseteq Live /\ d # s /\ Fresh(d)
  /\ heap' = Copied(heap, root[d], root[s])
  /\ last' = Silent("union")
  /\ UNCHANGED root

SetUnion(z, x, y) ==
  /\ {z, x, y} \subseteq Live /\ z \notin {x, y} /\ Fresh(z)
  /\ heap' = United(heap, root[z], root[x], root[y])
  /\ last' = Silent("union")
  /\ UNCHANGED root

SetUnionInplace(y, x) ==
  /\ {y, x} \subseteq Live /\ y # x
  /\ heap' = UnitedInplace(heap, root[y], root[x])
  /\ last' = Silent("union into")
  /\ UNCHANGED root

SetIntersection(z, x, y) ==
  /\ {z, x, y} \subseteq Live /\ z \notin {x, y} /\ Fresh(z)
  /\ heap' = Intersected(heap, root[z], root[x], root[y])
  /\ last' = Silent("intersect")
  /\ UNCHANGED root

SetIntersectionInplace(y, x) ==
  /\ {y, x} \subseteq Live /\ y # x
  /\ heap' = IntersectedInplace(heap, root[y], root[x])
  /\ last' = Silent("intersect into")
  /\ UNCHANGED root

SetOperation ==
  \/ \E a \in Handles : SetAlloc(a) \/ SetFree(a) \/ \E v \in Values : SetInsert(a, v)
  \/ \E y, x \in Handles :
       SetCopy(y, x) \/ SetUnionInplace(y, x) \/ SetIntersectionInplace(y, x)
  \/ \E z, x, y \in Handles : SetUnion(z, x, y) \/ SetIntersection(z, x, y)

SetNext == SetOperation /\ Room /\ contents' = Contents'

SetSpec == SetInit /\ [][SetNext]_setVars

-----------------------------------------------------------------------------
\* Through set_lookup, clients see the sets that set.h promises, and set_insert
\* tells them whether the value was there: the walk down the tree must find the
\* bit of the leaf as it was, also behind ghosts and after unions.
Store == INSTANCE SetStore WITH sets <- contents
ImplementsSetStore == Store!Spec

\* set.h:70: "Returns 1 if set did not previously have value, otherwise
\* returns 0."  It does the opposite, and find_good_hashes relies on that.
InsertTellsNew ==
  [][last'.call = "insert" => (last'.answer <=> contents' # contents)]_setVars

\* set.h:36: the handler gets the values of the set in ascending order, none
\* left out and none twice, whatever empty nodes the operations left.
ForeachAscends ==
  \A a \in Live :
    LET seq == Foreach(heap, root[a], 0)
    IN  /\ ToSet(seq) = contents[a]
        /\ \A k \in 1..(Len(seq) - 1) : seq[k] < seq[k+1]

\* The trees are trees: no node has two owners, none that is pointed to is
\* free.  Otherwise set_free would free a node twice or under another set.
Owners(n) ==
  {o \in (DOMAIN heap) \X Digits : Child(heap, o[1], o[2]) = n} \cup {<<a>> : a \in {b \in Handles : root[b] = n}}

TreesAreOwned ==
  /\ \A n \in DOMAIN heap : Cardinality(Owners(n)) <= 1
  /\ \A m \in DOMAIN heap, i \in Digits : Child(heap, m, i) \in DOMAIN heap \cup {NULL}
  /\ \A m \in DOMAIN heap : ~ Leaf(heap, m) => \A i \in heap[m].mask : Child(heap, m, i) # NULL

\* Nodes are lost (allocated, out of reach) only if they were the copies that
\* set_intersection_inplace puts under a cleared bit, overwritten by the next
\* operation that sets the bit.
OnlyGhostsAreLost == [][(Lost' \ Lost) \cap InReach(TRUE) = {}]_setVars
=============================================================================
