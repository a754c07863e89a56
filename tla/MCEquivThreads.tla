------------------------- MODULE MCEquivThreads -------------------------
(* Instances of EquivThreads for TLC: the functions the threads run and    *)
(* the schedules they are run under.                                       *)
EXTENDS EquivThreads

CONSTANTS x, y, lock

I(o, v) == [op |-> o, a |-> v]

Increment  == <<I("ld", x), I("add", 1), I("st", x)>>
StoreLoad  == <<I("st", x), I("ld", y)>>
CopyBack   == <<I("ld", y), I("st", x), I("st", y)>>
\* the loop of secure_vibes: yield while the lock is taken, then take it and
\* release it
Locked     == <<I("ld", lock), I("bz", 5), I("yield", 0), I("b", 1), I("mov", 1),
                I("st", lock), I("st", x), I("mov", 0), I("st", lock)>>
Quick      == <<I("add", 1)>>
Printing   == <<I("st", x), I("putc", 0), I("ld", x)>>

AllOf(functions) == [Tids -> functions]
ScheduledFunctions == {Increment, StoreLoad, CopyBack, Locked, Quick}

\* Every schedule of at most n switches and at most k accesses a segment.
SchedulesUpTo(n, k) ==
  UNION {{s \in [tids : [1..(m+1) -> Tids], instr_counts : [1..m -> 1..k]] : Adjacent(s.tids)}
         : m \in 1..n}

TwoThreadPrograms   == AllOf(ScheduledFunctions)
TwoThreadSchedules  == SchedulesUpTo(3, 2)
\* Three threads, with a schedule or, as find_rw_set calls equiv_run, none.
ThreeThreadPrograms  == {p \in AllOf({Increment, Locked, Quick, Printing}) : p[1] # Quick}
ThreeThreadSchedules == {NoSchedule} \cup SchedulesUpTo(2, 2)
PrintingPrograms    == AllOf({Increment, Printing})

\* The closed form of PushedAll is what pushing one after the other gives,
\* on an empty queue and on one that already holds the threads.
PushedOneByOne(q0) ==
  LET p[i \in 0..NumFuncs] == IF i = 0 THEN q0 ELSE Pushed(p[i-1], i)
  IN  p[NumFuncs]

ASSUME PushedAllAssumption ==
  LET once == PushedAll(EmptyQueue) IN
  once = PushedOneByOne(EmptyQueue) /\ PushedAll(once) = PushedOneByOne(once)
=============================================================================
