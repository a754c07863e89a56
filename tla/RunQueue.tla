---------------------------- MODULE RunQueue ----------------------------
(***************************************************************************)
(* The run queue equiv_runq of equiv-threads.c:13-20: an intrusive,        *)
(* singly linked list of threads.  A thread has ONE next field, so the     *)
(* queue is well formed only while no thread is on it twice; the           *)
(* operators below do what the generated eq_push, eq_append and eq_pop do  *)
(* whether or not that holds.  A thread is identified by its tid; tids     *)
(* start at 1 (equiv-threads.c:318) and 0 stands for the null pointer.     *)
(***************************************************************************)
EXTENDS Naturals, Sequences, Functions

CONSTANT NumFuncs          \* how many functions, hence threads, are run

ASSUME NumFuncsAssumption == NumFuncs \in Nat \ {0}

Tids == 1..NumFuncs
NULL == 0
Links == Tids \cup {NULL}

RunQueues == [head : Links, tail : Links, next : [Tids -> Links]]

EmptyQueue == [head |-> NULL, tail |-> NULL, next |-> [t \in Tids |-> NULL]]

\* eq_push: the element becomes the head.
Pushed(q, t) ==
  [head |-> t,
   tail |-> IF q.tail = NULL THEN t ELSE q.tail,
   next |-> [q.next EXCEPT ![t] = q.head]]

\* Mutant of Appended: the element keeps its link.
AppendedKeepsLink(q, t) ==
  IF q.tail = NULL THEN [q EXCEPT !.head = t, !.tail = t]
  ELSE [q EXCEPT !.tail = t, !.next[q.tail] = t]

\* eq_append: the element's own link is cleared before the old tail is
\* made to point to it, so appending the tail to itself makes a self-loop.
Appended(q, t) ==
  LET cleared == [q.next EXCEPT ![t] = NULL]
  IN  IF q.tail = NULL
      THEN [head |-> t, tail |-> t, next |-> cleared]
      ELSE [head |-> q.head, tail |-> t, next |-> [cleared EXCEPT ![q.tail] = t]]

\* Mutant of Popped: the tail stays when the queue becomes empty.
PoppedKeepsTail(q) ==
  IF q.head = NULL THEN q ELSE [q EXCEPT !.head = q.next[q.head]]

\* eq_pop returns q.head (NULL when empty) and leaves this queue.  The
\* popped element keeps its link.
Popped(q) ==
  IF q.head = NULL THEN q
  ELSE LET rest == q.next[q.head]
       IN  [head |-> rest, tail |-> IF rest = NULL THEN NULL ELSE q.tail, next |-> q.next]

\* Following the links from the head meets the threads of s, each once, and
\* ends at the tail: the queue is a list, and s is its content.
IsList(q, s) ==
  /\ IsInjective(s)
  /\ s = <<>> => q.head = NULL /\ q.tail = NULL
  /\ s # <<>> => q.head = s[1] /\ q.tail = s[Len(s)] /\ q.next[q.tail] = NULL
  /\ \A i \in 1..(Len(s) - 1) : q.next[s[i]] = s[i+1]

Lists == {s \in UNION {[1..n -> Tids] : n \in 0..NumFuncs} : IsInjective(s)}

\* The queue holds the given threads.
Holds(q, threads) == \E s \in Lists : IsList(q, s) /\ Range(s) = threads

\* eq_push of thread 1, then of thread 2, ..., then of thread NumFuncs: each
\* links to the one before, the first to the old head.
PushedAll(q0) ==
  [head |-> NumFuncs,
   tail |-> IF q0.tail = NULL THEN 1 ELSE q0.tail,
   next |-> [t \in Tids |-> IF t = 1 THEN q0.head ELSE t - 1]]
=============================================================================
