----------------------- MODULE InterleaverProofs -----------------------
(***************************************************************************)
(* Theorems about Interleaver and EquivChecker, for every number of        *)
(* functions and of context switches and whatever the functions do: the    *)
(* calls of equiv_run do not disturb each other, and no schedule is run    *)
(* twice.                                                                  *)
(*                                                                         *)
(* The first part is about one call of equiv_run, which starts on a        *)
(* machine and a queue that are not those of Init; the second about the    *)
(* order of the schedules; the third and fourth put them together, for     *)
(* run_interleavings and for equiv_checker_run.                            *)
(***************************************************************************)
EXTENDS EquivChecker, InterleaverReference, EquivThreadsProofs, WellFoundedInduction

\* A set of numbers that is not empty has a least element: the intervals up to
\* its elements are well founded under inclusion.
LEMMA NatHasLeast ==
  ASSUME NEW T, T \subseteq Nat, T # {}
  PROVE  \E x \in T : \A y \in T : x <= y
<1>. DEFINE Upto(n) == 1..n
            D == {Upto(n) : n \in T}
            R == StrictSubsetOrdering(Nat)
<1>1. \A n \in Nat : Upto(n) \in FiniteSubsetsOf(Nat)
  <2>. SUFFICES ASSUME NEW n \in Nat PROVE Upto(n) \in FiniteSubsetsOf(Nat)
    OBVIOUS
  <2>1. IsFiniteSet(1..n)
    BY FS_Interval
  <2>. QED
    BY <2>1 DEF FiniteSubsetsOf
<1>2. IsWellFoundedOn(R, FiniteSubsetsOf(Nat))
  BY FS_StrictSubsetOrderingWellFounded
<1>3. D \subseteq FiniteSubsetsOf(Nat) /\ D # {}
  BY <1>1
<1>4. PICK d \in D : \A e \in D : <<e, d>> \notin R
  <2>. HIDE DEF D, R
  <2>. QED
    BY <1>2, <1>3, WFMin
<1>5. PICK x \in T : d = Upto(x)
  OBVIOUS
<1>6. ASSUME NEW y \in T, ~ (x <= y) PROVE FALSE
  <2>1. x \in Nat /\ y \in Nat /\ y < x
    BY <1>6
  <2>2. Upto(y) \subseteq Upto(x) /\ x \in Upto(x) /\ x \notin Upto(y)
    BY <2>1
  <2>3. <<Upto(y), Upto(x)>> \in R
    BY <2>1, <2>2 DEF StrictSubsetOrdering
  <2>. QED
    BY <1>4, <1>5, <2>3
<1>. QED
  BY <1>6

-----------------------------------------------------------------------------
(***************************************************************************)
(* One call of equiv_run.                                                  *)
(***************************************************************************)
\* What every call of equiv_run finds and leaves, whatever ran before.
MachineOK ==
  /\ text \in [Tids -> Functions]
  /\ q \in RunQueues
  /\ q.tail # NULL => q.head # NULL
  /\ cur_thread \in Links
  /\ regs \in [Tids -> Regs]
  /\ cpu \in Regs
  /\ bvr \in Nat
  /\ armed \in BOOLEAN
  /\ tracker \in [read : SUBSET Addrs, write : SUBSET Addrs]
  /\ loop \in [th : Links, first : Links, tid : Links, then : {"none", "enter", "switch"}]

\* The run of plan (NoSchedule: of one function): the schedule is plan until
\* it is dropped, no more switches are made than it has, and the run ends
\* with nobody on the queue.
RunOK(plan) ==
  /\ ThreadsInv
  /\ schedule \in {plan, NoSchedule}
  /\ ctx_switch_status.ctx_switch <= Len(plan.instr_counts)
  /\ kpc = "stopped" => q.head = NULL

\* init_threads leaves a queue that is not empty.
LEMMA PushedAllFacts ==
  ASSUME NEW r \in RunQueues
  PROVE  PushedAll(r) \in RunQueues /\ PushedAll(r).head # NULL
<1>1. /\ 1 \in Tids /\ NumFuncs \in Tids /\ NULL \notin Tids /\ Tids \subseteq Links
      /\ \A t \in Tids : t = 1 \/ t - 1 \in Tids
  BY NumFuncsAssumption DEF Tids, NULL, Links
<1>2. r.head \in Links /\ r.tail \in Links
  BY DEF RunQueues
<1>. QED
  BY <1>1, <1>2 DEF PushedAll, RunQueues

\* The empty queue is a queue.
LEMMA EmptyQueueFacts ==
  EmptyQueue \in RunQueues /\ EmptyQueue.head = NULL /\ EmptyQueue.tail = NULL
BY DEF EmptyQueue, RunQueues, Links

\* equiv_refresh gives registers with which any function can start.
LEMMA InitRegsFacts ==
  InitRegs \in Regs /\ \A f \in Functions : InitRegs.pc \in Pcs(f)
BY WordLimitAssumption DEF InitRegs, Regs, Words, Functions, Pcs, Runtime

\* The caller prepares the run: the invariant of equiv_run holds, although
\* neither the queue nor the processor need be as in Init.
LEMMA RunStarts ==
  ASSUME NEW plan, plan = NoSchedule \/ IsSchedule(plan),
         MachineOK',
         mem' \in [Addrs -> Words], shared_memory' \in SUBSET Addrs,
         \A t \in Tids : regs'[t].pc \in Pcs(text'[t]),
         schedule' = plan, ctx_switch_status' = ResetStatus,
         rw_tracker_enabled' = TRUE, kpc' = "start",
         schedule' # NoSchedule => DOMAIN report' = Cells(schedule')
  PROVE  RunOK(plan)'
<1>1. TypeOK'
  BY DEF TypeOK, MachineOK, ResetStatus, Statuses
<1>2. ControlInv'
  BY DEF ControlInv, MachineOK, ResetStatus
<1>3. TrackerInv'
  BY DEF TrackerInv, InstructionStart
<1>4. CountPendingOnlyWhenActive'
  BY DEF CountPendingOnlyWhenActive, ResetStatus
<1>5. Len(plan.instr_counts) \in Nat /\ Len(NoSchedule.instr_counts) = 0
  BY DEF NoSchedule, IsSchedule, ScheduleShape
<1>6. ReportInBounds'
  <2>. SUFFICES ASSUME Active' PROVE <<0, 0>> \in Cells(plan)
    BY DEF ReportInBounds, ResetStatus, Active
  <2>1. IsSchedule(plan) /\ 0 < Len(plan.instr_counts)
    BY DEF Active, n_ctx_switches, ResetStatus
  <2>2. plan.instr_counts \in Seq(Nat \ {0})
    BY <2>1 DEF IsSchedule, ScheduleShape
  <2>3. plan.instr_counts[0 + 1] \in Nat \ {0}
    BY <2>1, <2>2
  <2>4. 0 \in Nat /\ 0 < plan.instr_counts[0 + 1]
    BY <2>3
  <2>. QED
    BY <2>1, <2>4, CellFacts
<1>. QED
  BY <1>1, <1>2, <1>3, <1>4, <1>5, <1>6 DEF RunOK, ThreadsInv, ResetStatus

\* The actions that end the run or make a context switch, and those that
\* change the schedule.
LEMMA RunStep ==
  ASSUME ThreadsInv, Next
  PROVE  /\ schedule' \in {schedule, NoSchedule}
         /\ kpc # "stopped"
         /\ kpc' = "stopped" => q'.head = NULL
         /\ \/ ctx_switch_status'.ctx_switch = ctx_switch_status.ctx_switch
            \/ /\ Active
               /\ ctx_switch_status'.ctx_switch = ctx_switch_status.ctx_switch + 1
<1>1. CASE EquivRun
  BY <1>1 DEF EquivRun, Retrieve, schedVars
<1>2. CASE Rotate
  BY <1>2 DEF Rotate, schedVars
<1>3. CASE EnterFirst
  BY <1>3 DEF EnterFirst, schedVars
<1>4. CASE SwitchTo
  BY <1>4 DEF SwitchTo, RunThread, schedVars
<1>5. CASE StepOnly
  BY <1>5 DEF StepOnly, MismatchFault
<1>6. CASE StepCount
  BY <1>6 DEF StepCount, MismatchFault, Settled
<1>7. CASE StepSwitch
  <2>1. Active
    BY <1>7 DEF StepSwitch, ThreadsInv, CountPendingOnlyWhenActive
  <2>. QED
    BY <1>7, <2>1 DEF StepSwitch, MismatchFault, Retrieve, Settled
<1>8. CASE DataAbort
  <2>1. ctx_switch_status \in Statuses
    BY DEF ThreadsInv, TypeOK
  <2>2. ctx_switch_status'.ctx_switch = ctx_switch_status.ctx_switch
    BY <1>8, <2>1 DEF DataAbort, Statuses
  <2>. QED
    BY <1>8, <2>2 DEF DataAbort
<1>9. CASE Commit
  BY <1>9 DEF Commit, schedVars
<1>10. CASE SysPutc
  BY <1>10 DEF SysPutc, Swi, RunThread
<1>11. CASE SysYield
  BY <1>11 DEF SysYield, Swi, RunThread, ThreadsInv, TypeOK
<1>12. CASE SysExit
  BY <1>12 DEF SysExit, Swi, RunThread, Popped
<1>. QED
  BY <1>1, <1>2, <1>3, <1>4, <1>5, <1>6, <1>7, <1>8, <1>9, <1>10, <1>11, <1>12
  DEF Next, KernelStep, UserStep, Syscall

\* Every step of equiv_run keeps what the caller relies on.
LEMMA RunGoes ==
  ASSUME NEW plan, RunOK(plan), [Next]_vars
  PROVE  RunOK(plan)'
<1>1. ThreadsInv'
  BY NextInv DEF RunOK
<1>2. CASE Next
  <2>1. /\ schedule' \in {schedule, NoSchedule}
        /\ kpc' = "stopped" => q'.head = NULL
        /\ \/ ctx_switch_status'.ctx_switch = ctx_switch_status.ctx_switch
           \/ /\ Active
              /\ ctx_switch_status'.ctx_switch = ctx_switch_status.ctx_switch + 1
    BY <1>2, RunStep DEF RunOK
  <2>2. Active => schedule = plan
    BY DEF RunOK, Active
  <2>3. Active => ctx_switch_status.ctx_switch + 1 <= Len(plan.instr_counts)
    BY <2>2, ScheduleFacts DEF RunOK, ThreadsInv, IsSchedule, ScheduleShape
  <2>. QED
    BY <1>1, <2>1, <2>3 DEF RunOK
<1>3. CASE UNCHANGED vars
  BY <1>1, <1>3 DEF vars, threadVars, schedVars, RunOK
<1>. QED
  BY <1>2, <1>3

-----------------------------------------------------------------------------
(***************************************************************************)
(* The order of the schedules.                                             *)
(***************************************************************************)
\* As ExploredInOrder has it: by tids, then by counts.
Before(e, f) ==
  TidsBefore(e.tids, f.tids) \/ (e.tids = f.tids /\ CountsBefore(e.instr_counts, f.instr_counts))

\* A function on 1..n is a sequence of n elements.
LEMMA FunctionIsSeq ==
  ASSUME NEW n \in Nat, NEW S, NEW f \in [1..n -> S]
  PROVE  f \in Seq(S) /\ Len(f) = n /\ DOMAIN f = 1..n
OBVIOUS

\* TidsBefore compares from the last tid on, and is irreflexive.
LEMMA TidsBeforeFacts ==
  ASSUME NEW n \in Nat, NEW s \in [1..n -> Tids], NEW t \in [1..n -> Tids]
  PROVE  /\ ~ TidsBefore(s, s)
         /\ TidsBefore(s, t) <=>
              \E i \in 1..n : s[i] < t[i] /\ \A j \in 1..n : i < j => s[j] = t[j]
<1>1. DOMAIN s = 1..n /\ Len(s) = n
  BY FunctionIsSeq
<1>2. \A i \in 1..n : s[i] \in Nat
  BY DEF Tids
<1>3. \A i, j \in 1..n : i < j <=> j \in (i+1)..n
  OBVIOUS
<1>4. \A i \in 1..n : (i+1)..n \subseteq 1..n
  OBVIOUS
<1>. QED
  BY <1>1, <1>2, <1>3, <1>4 DEF TidsBefore

\* Tids are before others if they are less at the last place where they differ.
LEMMA TidsBeforeAt ==
  ASSUME NEW n \in Nat, NEW s \in [1..n -> Tids], NEW t \in [1..n -> Tids],
         NEW i \in 1..n, s[i] < t[i], \A j \in 1..n : i < j => s[j] = t[j]
  PROVE  TidsBefore(s, t)
BY TidsBeforeFacts

\* The order in which next_tid visits the tids is transitive.
LEMMA TidsBeforeTransitive ==
  ASSUME NEW n \in Nat, NEW s \in [1..n -> Tids], NEW t \in [1..n -> Tids],
         NEW u \in [1..n -> Tids], TidsBefore(s, t), TidsBefore(t, u)
  PROVE  TidsBefore(s, u)
<1>0. TidsBefore(s, u) <=> \E j \in 1..n : s[j] < u[j] /\ \A l \in 1..n : j < l => s[l] = u[l]
  BY TidsBeforeFacts
<1>1. PICK i \in 1..n : s[i] < t[i] /\ \A j \in 1..n : i < j => s[j] = t[j]
  BY TidsBeforeFacts
<1>2. PICK k \in 1..n : t[k] < u[k] /\ \A j \in 1..n : k < j => t[j] = u[j]
  BY TidsBeforeFacts
<1>3. \A j \in 1..n : s[j] \in Nat /\ t[j] \in Nat /\ u[j] \in Nat
  BY DEF Tids
<1>4. CASE i <= k
  <2>1. s[k] < u[k] /\ \A j \in 1..n : k < j => s[j] = u[j]
    BY <1>1, <1>2, <1>3, <1>4
  <2>. QED
    BY <1>0, <2>1
<1>5. CASE k < i
  <2>1. s[i] < u[i] /\ \A j \in 1..n : i < j => s[j] = u[j]
    BY <1>1, <1>2, <1>3, <1>5
  <2>. QED
    BY <1>0, <2>1
<1>. QED
  BY <1>4, <1>5

\* The order in which the counts are visited is irreflexive ...
LEMMA CountsBeforeIrreflexive ==
  ASSUME NEW n \in Nat, NEW c \in [1..n -> Nat \ {0}]
  PROVE  ~ CountsBefore(c, c)
<1>1. \A i \in 1..n : c[i] \in Nat /\ ~ (c[i] < c[i])
  OBVIOUS
<1>. QED
  BY <1>1 DEF CountsBefore

\* ... and transitive.
LEMMA CountsBeforeTransitive ==
  ASSUME NEW n \in Nat, NEW c \in [1..n -> Nat], NEW d \in [1..n -> Nat],
         NEW e \in [1..n -> Nat], CountsBefore(c, d), CountsBefore(d, e)
  PROVE  CountsBefore(c, e)
<1>1. PICK i \in 1..n : c[i] < d[i] /\ \A j \in 1..(i-1) : c[j] = d[j]
  BY DEF CountsBefore
<1>2. PICK k \in 1..n : d[k] < e[k] /\ \A j \in 1..(k-1) : d[j] = e[j]
  BY DEF CountsBefore
<1>3. \A j \in 1..n : c[j] \in Nat /\ d[j] \in Nat /\ e[j] \in Nat
  OBVIOUS
<1>4. CASE i <= k
  <2>1. d[i] <= e[i]
    <3>1. i = k \/ i \in 1..(k-1)
      BY <1>4
    <3>. QED
      BY <1>2, <1>3, <3>1
  <2>2. c[i] < e[i]
    BY <1>1, <1>3, <2>1
  <2>3. \A j \in 1..(i-1) : c[j] = e[j]
    <3>. SUFFICES ASSUME NEW j \in 1..(i-1) PROVE c[j] = e[j]
      OBVIOUS
    <3>1. j \in 1..(k-1)
      BY <1>4
    <3>. QED
      BY <1>1, <1>2, <3>1
  <2>. QED
    BY <2>2, <2>3 DEF CountsBefore
<1>5. CASE k < i
  <2>1. c[k] < e[k] /\ \A j \in 1..(k-1) : c[j] = e[j]
    BY <1>1, <1>2, <1>3, <1>5
  <2>. QED
    BY <2>1 DEF CountsBefore
<1>. QED
  BY <1>4, <1>5

\* next_tid goes on to later tids, until it overflows.
LEMMA BumpedFacts ==
  ASSUME NEW n \in Nat, NEW ts \in [1..n -> Tids]
  PROVE  /\ Bumped(ts) \in [1..n -> Tids]
         /\ ~ Overflows(ts) => TidsBefore(ts, Bumped(ts))
<1>1. NumFuncs \in Nat /\ 1 \in Tids /\ \A t \in Tids : t \in Nat /\ (t # NumFuncs => t + 1 \in Tids)
  BY NumFuncsAssumption DEF Tids
<1>2. Bumped(ts) \in [1..n -> Tids]
  BY <1>1 DEF Bumped
<1>3. ASSUME ~ Overflows(ts) PROVE TidsBefore(ts, Bumped(ts))
  <2>. DEFINE T == {i \in 1..n : ts[i] # NumFuncs}
  <2>1. T \subseteq Nat /\ T # {}
    BY <1>3 DEF Overflows
  <2>2. PICK i \in T : \A j \in T : i <= j
    <3>. HIDE DEF T
    <3>. QED
      BY <2>1, NatHasLeast
  <2>3. i \in 1..n /\ ts[i] # NumFuncs /\ \A j \in 1..(i-1) : ts[j] = NumFuncs
    BY <2>2
  <2>4. Bumped(ts)[i] = ts[i] + 1
    BY <2>3 DEF Bumped
  <2>5. \A j \in 1..n : i < j => Bumped(ts)[j] = ts[j]
    BY <2>3 DEF Bumped
  <2>6. ts[i] < Bumped(ts)[i]
    BY <1>1, <2>3, <2>4
  <2>. QED
    BY <1>2, <2>3, <2>5, <2>6, TidsBeforeFacts
<1>. QED
  BY <1>2, <1>3

\* The counts of the next schedule come later, unless no switch was made.
LEMMA AdvancedFacts ==
  ASSUME NEW n \in Nat, NEW c \in [1..n -> Nat \ {0}], NEW made \in 0..n
  PROVE  /\ AdvancedCounts(c, made) \in [1..n -> Nat \ {0}]
         /\ made > 0 => CountsBefore(c, AdvancedCounts(c, made))
<1>1. AdvancedCounts(c, made) \in [1..n -> Nat \ {0}]
  BY DEF AdvancedCounts
<1>2. ASSUME made > 0 PROVE CountsBefore(c, AdvancedCounts(c, made))
  <2>1. made \in 1..n /\ c[made] < AdvancedCounts(c, made)[made]
    BY <1>2 DEF AdvancedCounts
  <2>2. \A j \in 1..(made - 1) : c[j] = AdvancedCounts(c, made)[j]
    BY <2>1 DEF AdvancedCounts
  <2>. QED
    BY <2>1, <2>2 DEF CountsBefore
<1>. QED
  BY <1>1, <1>2

-----------------------------------------------------------------------------
(***************************************************************************)
(* run_interleavings.                                                      *)
(***************************************************************************)
PlanNow == [tids |-> tids, instr_counts |-> instr_nums]

Explorations(n) ==
  [tids : [1..(n + 1) -> Tids], instr_counts : [1..n -> Nat \ {0}], made : 0..n]

\* Between two runs the tracker is off, no schedule is left, and the queue is
\* empty; it is filled only before the first run.
ILInv ==
  /\ MachineOK
  /\ ncs \in 1..MaxSwitches
  /\ shared \in SUBSET Addrs
  /\ ipc \in {"call", "first_tid", "next_tid", "loop", "running", "returned"}
  /\ ipc \in {"first_tid", "next_tid", "loop", "running"} =>
       tids \in [1..(ncs + 1) -> Tids] /\ instr_nums \in [1..ncs -> Nat \ {0}]
  /\ ipc = "running" => RunOK(PlanNow)
  /\ ipc # "running" => ~ armed /\ ~ rw_tracker_enabled /\ schedule = NoSchedule
  /\ ipc \in {"first_tid", "next_tid", "loop"} => ctx_switch_status = ResetStatus
  /\ ipc \in {"call", "next_tid", "returned"} => q.head = NULL

\* The schedules run so far are in order, and before the current one.
OrderInv ==
  /\ explored \in Seq(Explorations(ncs))
  /\ \A i, j \in DOMAIN explored : i < j => Before(explored[i], explored[j])
  /\ ipc \in {"call", "first_tid"} => explored = <<>>
  /\ ipc \in {"loop", "running"} => \A i \in DOMAIN explored : Before(explored[i], PlanNow)
  /\ ipc = "next_tid" =>
       \A i \in DOMAIN explored : explored[i].tids = tids \/ TidsBefore(explored[i].tids, tids)

\* The number of switches is a positive number.
LEMMA SwitchesFacts == ASSUME ncs \in 1..MaxSwitches PROVE ncs \in Nat \ {0} /\ ncs + 1 \in Nat
BY MaxSwitchesAssumption

\* The order of the schedules is transitive.
LEMMA BeforeTransitive ==
  ASSUME NEW n \in Nat, NEW e, NEW f, NEW g,
         e.tids \in [1..(n + 1) -> Tids], e.instr_counts \in [1..n -> Nat \ {0}],
         f.tids \in [1..(n + 1) -> Tids], f.instr_counts \in [1..n -> Nat \ {0}],
         g.tids \in [1..(n + 1) -> Tids], g.instr_counts \in [1..n -> Nat \ {0}],
         Before(e, f), Before(f, g)
  PROVE  Before(e, g)
<1>1. n + 1 \in Nat
  OBVIOUS
<1>2. TidsBefore(e.tids, f.tids) /\ TidsBefore(f.tids, g.tids) => TidsBefore(e.tids, g.tids)
  BY <1>1, TidsBeforeTransitive
<1>3. /\ e.instr_counts \in [1..n -> Nat] /\ f.instr_counts \in [1..n -> Nat]
      /\ g.instr_counts \in [1..n -> Nat]
  OBVIOUS
<1>4. CountsBefore(e.instr_counts, f.instr_counts) /\ CountsBefore(f.instr_counts, g.instr_counts)
        => CountsBefore(e.instr_counts, g.instr_counts)
  BY <1>3, CountsBeforeTransitive
<1>. QED
  BY <1>2, <1>4 DEF Before

\* run_interleavings up to its loop keeps the invariant.
LEMMA CallKeeps == ASSUME ILInv, OrderInv, Call PROVE ILInv' /\ OrderInv'
<1>. USE DEF Call
<1>1. ipc' = "first_tid"
  BY DEF ILInv
<1>2. q' \in RunQueues /\ q'.head # NULL
  BY EmptyQueueFacts, PushedAllFacts
<1>3. MachineOK'
  BY <1>2, InitRegsFacts DEF ILInv, MachineOK, trackVars
<1>4. tids' \in [1..(ncs + 1) -> Tids] /\ instr_nums' \in [1..ncs -> Nat \ {0}]
  BY NumFuncsAssumption DEF Tids
<1>5. ILInv'
  BY <1>1, <1>3, <1>4 DEF ILInv, trackVars
<1>6. OrderInv'
  BY <1>1 DEF OrderInv
<1>. QED
  BY <1>5, <1>6

\* One iteration of next_tid keeps the invariant.
LEMMA NextTidKeeps == ASSUME ILInv, OrderInv, NextTid PROVE ILInv' /\ OrderInv'
<1>. USE DEF NextTid
<1>1. ncs + 1 \in Nat /\ ncs \in Nat /\ tids \in [1..(ncs + 1) -> Tids]
  BY SwitchesFacts DEF ILInv
<1>2. /\ tids' \in [1..(ncs + 1) -> Tids]
      /\ ~ Overflows(tids) => TidsBefore(tids, tids')
  BY <1>1, BumpedFacts
<1>3. /\ ipc = "first_tid" => ipc' \in {"first_tid", "loop"}
      /\ ipc = "next_tid" => ipc' \in {"next_tid", "loop", "returned"}
      /\ ipc = "next_tid" /\ Overflows(tids) => ipc' = "returned"
  BY Zenon
<1>4. MachineOK'
  BY DEF ILInv, MachineOK, vars, threadVars, trackVars
<1>5. ILInv'
  BY <1>2, <1>3, <1>4 DEF ILInv, vars, threadVars, trackVars, schedVars
<1>6. OrderInv'
  <2>1. CASE ipc = "first_tid"
    BY <1>3, <2>1 DEF OrderInv
  <2>2. CASE ipc = "next_tid" /\ Overflows(tids)
    BY <1>3, <2>2 DEF OrderInv
  <2>3. CASE ipc = "next_tid" /\ ~ Overflows(tids)
    <3>1. ASSUME NEW i \in DOMAIN explored PROVE TidsBefore(explored[i].tids, tids')
      <4>1. explored[i].tids \in [1..(ncs + 1) -> Tids]
        <5>1. explored[i] \in Explorations(ncs)
          BY DEF OrderInv
        <5>. QED
          BY <5>1 DEF Explorations
      <4>2. explored[i].tids = tids \/ TidsBefore(explored[i].tids, tids)
        BY <2>3 DEF OrderInv
      <4>. QED
        BY <1>1, <1>2, <2>3, <4>1, <4>2, TidsBeforeTransitive
    <3>. QED
      BY <1>3, <2>3, <3>1 DEF OrderInv, Before, PlanNow
  <2>. QED
    BY <2>1, <2>2, <2>3
<1>. QED
  BY <1>5, <1>6

\* The lines before equiv_run keep the invariant: what runs next comes after
\* all that ran.
LEMMA StartRunKeeps == ASSUME ILInv, OrderInv, StartRun PROVE ILInv' /\ OrderInv'
<1>. USE DEF StartRun
<1>1. /\ tids \in [1..(ncs + 1) -> Tids] /\ instr_nums \in [1..ncs -> Nat \ {0}]
      /\ ncs \in Nat \ {0} /\ ncs + 1 \in Nat
  BY SwitchesFacts DEF ILInv
<1>2. IsSchedule(schedule') /\ schedule' = PlanNow'
  <2>1. tids \in Seq(Tids) /\ Len(tids) = ncs + 1
    BY <1>1, FunctionIsSeq
  <2>2. instr_nums \in Seq(Nat \ {0}) /\ Len(instr_nums) = ncs
    BY <1>1, FunctionIsSeq
  <2>. QED
    BY <1>1, <2>1, <2>2 DEF IsSchedule, ScheduleShape, PlanNow
<1>3. q' \in RunQueues /\ q'.head # NULL
  BY PushedAllFacts DEF ILInv, MachineOK
<1>4. MachineOK'
  BY <1>3, InitRegsFacts DEF ILInv, MachineOK
<1>5. mem' \in [Addrs -> Words] /\ shared_memory' \in SUBSET Addrs
  BY WordLimitAssumption DEF InitMem, Words, ILInv
<1>6. \A t \in Tids : regs'[t].pc \in Pcs(text'[t])
  BY InitRegsFacts DEF ILInv, MachineOK
<1>7. RunOK(PlanNow)'
  BY <1>2, <1>4, <1>5, <1>6, RunStarts DEF EmptyReport
<1>8. ILInv'
  BY <1>1, <1>4, <1>7 DEF ILInv
<1>9. OrderInv'
  BY DEF OrderInv, PlanNow
<1>. QED
  BY <1>8, <1>9

\* equiv_run keeps the invariant.
LEMMA RunKeeps == ASSUME ILInv, OrderInv, Run PROVE ILInv' /\ OrderInv'
<1>. USE DEF Run
<1>1. RunOK(PlanNow)'
  <2>1. RunOK(PlanNow) /\ PlanNow' = PlanNow
    BY DEF ILInv, PlanNow, ileavVars
  <2>2. ASSUME NEW plan, RunOK(plan) PROVE RunOK(plan)'
    BY <2>2, RunGoes
  <2>. QED
    BY <2>1, <2>2 DEF RunOK
<1>2. MachineOK'
  BY <1>1 DEF RunOK, ThreadsInv, TypeOK, ControlInv, MachineOK
<1>3. ILInv'
  BY <1>1, <1>2 DEF ILInv, ileavVars
<1>4. OrderInv'
  BY DEF OrderInv, ileavVars, PlanNow
<1>. QED
  BY <1>3, <1>4

\* The lines after equiv_run keep the invariant: the next schedule is after
\* the one that ran, whichever way the counts advance.
LEMMA FinishRunKeeps == ASSUME ILInv, OrderInv, FinishRun PROVE ILInv' /\ OrderInv'
<1>. USE DEF FinishRun
<1>. DEFINE made == ctx_switch_status.ctx_switch
            e == [tids |-> tids, instr_counts |-> instr_nums, made |-> made]
<1>1. /\ tids \in [1..(ncs + 1) -> Tids] /\ instr_nums \in [1..ncs -> Nat \ {0}]
      /\ ncs \in Nat \ {0} /\ ncs + 1 \in Nat
  BY SwitchesFacts DEF ILInv
<1>2. made \in 0..ncs /\ q.head = NULL
  <2>1. RunOK(PlanNow) /\ Len(instr_nums) = ncs
    BY <1>1, FunctionIsSeq DEF ILInv
  <2>2. made \in Nat
    BY <2>1 DEF RunOK, ThreadsInv, TypeOK, Statuses
  <2>3. made <= ncs /\ q.head = NULL
    BY <2>1 DEF RunOK, PlanNow
  <2>. QED
    BY <1>1, <2>2, <2>3
<1>3. /\ instr_nums' \in [1..ncs -> Nat \ {0}]
      /\ made > 0 => CountsBefore(instr_nums, instr_nums')
  BY <1>1, <1>2, AdvancedFacts
<1>4. MachineOK'
  BY DEF ILInv, MachineOK, threadVars
<1>5. ILInv'
  BY <1>1, <1>2, <1>3, <1>4 DEF ILInv, threadVars
<1>6. OrderInv'
  <2>. HIDE DEF made
  <2>1. /\ explored \in Seq(Explorations(ncs)) /\ Len(explored) \in Nat
        /\ DOMAIN explored = 1..Len(explored)
        /\ \A i \in DOMAIN explored : explored[i] \in Explorations(ncs)
    BY DEF OrderInv
  <2>2. e \in Explorations(ncs)
    BY <1>1, <1>2 DEF Explorations
  <2>3. /\ explored' = Append(explored, e) /\ explored' \in Seq(Explorations(ncs))
        /\ DOMAIN explored' = 1..(Len(explored) + 1)
        /\ explored'[Len(explored) + 1] = e
        /\ \A i \in 1..Len(explored) : explored'[i] = explored[i]
    BY <2>1, <2>2 DEF made
  <2>. HIDE DEF e
  <2>4. e.tids = tids /\ e.instr_counts = instr_nums
    BY DEF e
  <2>5. \A i \in DOMAIN explored : Before(explored[i], e)
    BY <2>4 DEF OrderInv, Before, PlanNow
  <2>6. \A i, j \in DOMAIN explored' : i < j => Before(explored'[i], explored'[j])
    <3>1. ASSUME NEW i \in DOMAIN explored', NEW j \in DOMAIN explored', i < j
          PROVE  Before(explored'[i], explored'[j])
      <4>1. i \in DOMAIN explored
        BY <2>1, <2>3, <3>1
      <4>2. CASE j \in DOMAIN explored
        BY <2>1, <2>3, <3>1, <4>1, <4>2 DEF OrderInv
      <4>3. CASE j = Len(explored) + 1
        BY <2>1, <2>3, <2>5, <4>1, <4>3
      <4>. QED
        BY <2>1, <2>3, <4>2, <4>3
    <3>. QED
      BY <3>1
  <2>7. CASE made > 0
    <3>1. ipc' = "loop" /\ tids' = tids
      BY <2>7 DEF made
    <3>2. Before(e, PlanNow')
      BY <1>3, <2>4, <2>7, <3>1 DEF Before, PlanNow
    <3>3. ASSUME NEW i \in DOMAIN explored' PROVE Before(explored'[i], PlanNow')
      <4>1. CASE i = Len(explored) + 1
        BY <2>3, <3>2, <4>1
      <4>2. CASE i \in DOMAIN explored
        <5>1. explored'[i] = explored[i] /\ Before(explored[i], e)
          BY <2>1, <2>3, <2>5, <4>2
        <5>2. /\ explored[i].tids \in [1..(ncs + 1) -> Tids]
              /\ explored[i].instr_counts \in [1..ncs -> Nat \ {0}]
          BY <2>1, <4>2 DEF Explorations
        <5>3. PlanNow'.tids = tids /\ PlanNow'.instr_counts = instr_nums'
          BY <3>1 DEF PlanNow
        <5>. QED
          BY <1>1, <1>3, <2>4, <3>2, <5>1, <5>2, <5>3, BeforeTransitive
      <4>. QED
        BY <2>1, <2>3, <4>1, <4>2
    <3>. QED
      BY <2>3, <2>6, <3>1, <3>3 DEF OrderInv
  <2>8. CASE ~ (made > 0)
    <3>1. ipc' = "next_tid" /\ tids' = tids
      BY <2>8 DEF made
    <3>2. ASSUME NEW i \in DOMAIN explored'
          PROVE  explored'[i].tids = tids \/ TidsBefore(explored'[i].tids, tids)
      BY <2>1, <2>3, <2>4, <2>5 DEF Before
    <3>. QED
      BY <2>3, <2>6, <3>1, <3>2 DEF OrderInv
  <2>. QED
    BY <2>7, <2>8
<1>. QED
  BY <1>5, <1>6

\* A stuttering step keeps the invariant.
LEMMA ILStutter == ASSUME ILInv, OrderInv, UNCHANGED allVars PROVE ILInv' /\ OrderInv'
BY DEF allVars, ileavVars, vars, threadVars, trackVars, schedVars, ILInv, OrderInv, MachineOK,
   PlanNow, RunOK, ThreadsInv, TypeOK, ControlInv, TrackerInv, InstructionStart,
   TrackedBeforeCommit, Here, CountPendingOnlyWhenActive, ReportInBounds, Active, n_ctx_switches

\* Every step of run_interleavings keeps the invariant.
LEMMA ILSteps == ASSUME ILInv, OrderInv, [ILNext]_allVars PROVE ILInv' /\ OrderInv'
BY CallKeeps, NextTidKeeps, StartRunKeeps, RunKeeps, FinishRunKeeps, ILStutter DEF ILNext

\* The accesses of the functions are to the tracked addresses.
LEMMA SharedFromFacts ==
  ASSUME NEW r \in [Tids -> SUBSET Addrs], NEW w \in [Tids -> SUBSET Addrs]
  PROVE  SharedFrom(r, w) \in SUBSET Addrs
BY DEF SharedFrom

\* Shared memory consists of addresses.
LEMMA SharedMemoryFacts ==
  ASSUME NEW code \in [Tids -> Functions]
  PROVE  SharedMemory(code) \in SUBSET Addrs
<1>1. ASSUME NEW f \in Functions PROVE ReadSet(f) \subseteq Addrs /\ WriteSet(f) \subseteq Addrs
  <2>1. \A i \in DOMAIN f : f[i] \in Instructions
    BY DEF Functions
  <2>2. \A i \in DOMAIN f : f[i].op \in {"ld", "st"} => f[i].a \in Addrs
    BY <2>1 DEF Instructions
  <2>. QED
    BY <2>2 DEF ReadSet, WriteSet
<1>2. /\ [t \in Tids |-> ReadSet(code[t])] \in [Tids -> SUBSET Addrs]
      /\ [t \in Tids |-> WriteSet(code[t])] \in [Tids -> SUBSET Addrs]
  BY <1>1
<1>. QED
  BY <1>2, SharedFromFacts DEF SharedMemory

\* Before the first run the machine is as run_interleavings needs it.
LEMMA FreshFacts ==
  ASSUME Fresh, q = EmptyQueue
  PROVE  MachineOK /\ ~ armed
BY ProgramsAssumption, EmptyQueueFacts, InitRegsFacts DEF Fresh, MachineOK, Links, Idle

\* The invariant holds at the start of a single call.
LEMMA ILStarts == ASSUME ILInit PROVE ILInv /\ OrderInv
<1>. USE DEF ILInit
<1>1. MachineOK /\ ~ armed
  BY FreshFacts
<1>2. shared \in SUBSET Addrs
  BY <1>1, SharedMemoryFacts DEF MachineOK
<1>3. ILInv
  BY <1>1, <1>2, EmptyQueueFacts DEF ILInv
<1>4. OrderInv
  BY DEF OrderInv
<1>. QED
  BY <1>3, <1>4

\* Each run of run_interleavings drains the queue, so that the assertion of
\* reset_ntids never fails.
THEOREM QueueIsDrained == ILSpec => []QueueDrained
<1>1. ILInit => ILInv /\ OrderInv
  BY ILStarts
<1>2. ILInv /\ OrderInv /\ [ILNext]_allVars => (ILInv /\ OrderInv)'
  BY ILSteps
<1>3. ILInv /\ OrderInv => QueueDrained
  BY DEF ILInv, RunOK, QueueDrained
<1>. QED
  BY <1>1, <1>2, <1>3, PTL DEF ILSpec

-----------------------------------------------------------------------------
(***************************************************************************)
(* equiv_checker_run.                                                      *)
(***************************************************************************)
\* The runs of find_rw_set, before the first call of run_interleavings.
FindInv ==
  /\ MachineOK
  /\ ipc = "call" /\ explored = <<>>
  /\ cpc \in {"find", "running"} => fidx \in Tids /\ mem \in [Addrs -> Words]
  /\ cpc = "find" => \A t \in Tids : regs[t].pc \in Pcs(text[t])
  /\ cpc = "running" => RunOK(NoSchedule)
  /\ cpc # "running" => ~ armed /\ ~ rw_tracker_enabled /\ schedule = NoSchedule /\ q.head = NULL

CheckerInv ==
  /\ executables \in [Tids -> Functions]
  /\ additional_shared_memory \in SUBSET Addrs
  /\ read_sets \in [Tids -> SUBSET Addrs] /\ write_sets \in [Tids -> SUBSET Addrs]
  /\ shared \in SUBSET Addrs
  /\ cpc \in {"find", "running", "found", "serial", "kernel", "calls", "done"}
  /\ cpc \notin {"calls", "done"} => FindInv
  /\ cpc \in {"calls", "done"} => ILInv /\ OrderInv

\* The invariant holds when equiv_checker_run is called.
LEMMA CheckerStarts == ASSUME CheckerInit PROVE CheckerInv
<1>. USE DEF CheckerInit
<1>1. MachineOK /\ ~ armed
  BY FreshFacts
<1>2. mem \in [Addrs -> Words] /\ 1 \in Tids
  BY WordLimitAssumption, NumFuncsAssumption DEF Fresh, Words, Tids
<1>3. \A t \in Tids : regs[t].pc \in Pcs(text[t])
  BY <1>1, InitRegsFacts DEF Fresh, MachineOK
<1>4. FindInv
  BY <1>1, <1>2, <1>3, EmptyQueueFacts DEF FindInv
<1>. QED
  BY <1>1, <1>4 DEF CheckerInv, MachineOK

\* find_rw_set up to its equiv_run keeps the invariant.
LEMMA FindRwSetKeeps == ASSUME CheckerInv, FindRwSet PROVE CheckerInv'
<1>. USE DEF FindRwSet
<1>1. FindInv /\ fidx \in Tids /\ 1 \in Tids
  BY NumFuncsAssumption DEF CheckerInv, FindInv, Tids
<1>2. q' \in RunQueues /\ q'.head # NULL
  BY <1>1, QueueFacts DEF FindInv, MachineOK
<1>3. /\ text' \in [Tids -> Functions] /\ regs' \in [Tids -> Regs]
      /\ \A t \in Tids : regs'[t].pc \in Pcs(text'[t])
  <2>1. text \in [Tids -> Functions] /\ regs \in [Tids -> Regs] /\ executables[fidx] \in Functions
    BY <1>1 DEF FindInv, MachineOK, CheckerInv
  <2>2. ASSUME NEW t \in Tids PROVE regs'[t].pc \in Pcs(text'[t])
    BY <1>1, <2>1, InitRegsFacts DEF FindInv
  <2>. QED
    BY <1>1, <2>1, <2>2, InitRegsFacts
<1>4. MachineOK'
  BY <1>1, <1>2, <1>3 DEF FindInv, MachineOK
<1>5. RunOK(NoSchedule)'
  <2>1. mem' \in [Addrs -> Words]
    BY <1>1 DEF FindInv
  <2>. QED
    BY <1>3, <1>4, <2>1, RunStarts
<1>6. FindInv'
  BY <1>1, <1>4, <1>5 DEF FindInv, ileavVars, findVars
<1>. QED
  BY <1>6 DEF CheckerInv, ileavVars, givenVars, findVars

\* The equiv_run of find_rw_set keeps the invariant.
LEMMA RunFunctionKeeps == ASSUME CheckerInv, RunFunction PROVE CheckerInv'
<1>. USE DEF RunFunction
<1>1. FindInv /\ RunOK(NoSchedule)
  BY DEF CheckerInv, FindInv
<1>2. RunOK(NoSchedule)'
  BY <1>1, RunGoes
<1>3. MachineOK' /\ mem' \in [Addrs -> Words]
  BY <1>2 DEF RunOK, ThreadsInv, TypeOK, ControlInv, MachineOK
<1>4. FindInv'
  BY <1>1, <1>2, <1>3 DEF FindInv, ileavVars, checkerVars, findVars
<1>. QED
  BY <1>4 DEF CheckerInv, ileavVars, checkerVars, givenVars, findVars

\* find_rw_set after its equiv_run keeps the invariant.
LEMMA FoundRwSetKeeps == ASSUME CheckerInv, FoundRwSet PROVE CheckerInv'
<1>. USE DEF FoundRwSet
<1>1. FindInv /\ RunOK(NoSchedule) /\ fidx \in Tids /\ mem \in [Addrs -> Words]
  BY DEF CheckerInv, FindInv
<1>2. MachineOK'
  BY <1>1 DEF FindInv, MachineOK, threadVars
<1>3. /\ schedule' = NoSchedule /\ q'.head = NULL
      /\ \A t \in Tids : regs'[t].pc \in Pcs(text'[t])
  BY <1>1 DEF RunOK, ThreadsInv, ControlInv, threadVars, schedVars
<1>4. tracker.read \in SUBSET Addrs /\ tracker.write \in SUBSET Addrs
  BY <1>1 DEF FindInv, MachineOK
<1>5. cpc' = "find" => fidx' \in Tids
  BY <1>1, NumFuncsAssumption DEF Tids
<1>6. FindInv'
  BY <1>1, <1>2, <1>3, <1>5 DEF FindInv, ileavVars
<1>. QED
  BY <1>4, <1>6 DEF CheckerInv, ileavVars, givenVars

\* The end of find_shared_memory keeps the invariant: what is shared was
\* touched, or is the caller's hint.
LEMMA FindSharedMemoryKeeps == ASSUME CheckerInv, FindSharedMemory PROVE CheckerInv'
<1>. USE DEF FindSharedMemory
<1>1. shared' \in SUBSET Addrs
  BY SharedFromFacts DEF CheckerInv
<1>2. FindInv'
  BY DEF CheckerInv, FindInv, MachineOK, vars, threadVars, trackVars, schedVars, findVars
<1>. QED
  BY <1>1, <1>2 DEF CheckerInv, givenVars, findVars

\* The serial calls of find_good_hashes run in the kernel and leave the
\* threads and the tracker alone.
LEMMA SerialKeeps ==
  ASSUME CheckerInv, SerialCall \/ SerialStep \/ SerialReturn
  PROVE  CheckerInv'
<1>1. /\ cpc \in {"serial", "kernel"} /\ cpc' \in {"serial", "kernel"}
      /\ UNCHANGED <<text, threadVars, trackVars, schedVars, loop, ipc, explored, shared>>
      /\ UNCHANGED <<givenVars, findVars>>
  BY DEF SerialCall, SerialStep, SerialReturn, vars, ileavVars
<1>2. FindInv'
  BY <1>1 DEF CheckerInv, FindInv, MachineOK, threadVars, trackVars, schedVars
<1>. QED
  BY <1>1, <1>2 DEF CheckerInv, givenVars, findVars

\* The first call of run_interleavings finds the machine as it needs it.
LEMMA FirstCallKeeps == ASSUME CheckerInv, FirstCall PROVE CheckerInv'
<1>. USE DEF FirstCall
<1>1. FindInv
  BY DEF CheckerInv
<1>2. MachineOK'
  BY <1>1 DEF FindInv, MachineOK, CheckerInv, threadVars, trackVars
<1>3. ncs' \in 1..MaxSwitches
  BY MaxSwitchesAssumption
<1>4. ILInv'
  BY <1>1, <1>2, <1>3 DEF ILInv, FindInv, CheckerInv, threadVars, trackVars, schedVars
<1>5. OrderInv'
  BY <1>1 DEF OrderInv, FindInv
<1>. QED
  BY <1>4, <1>5 DEF CheckerInv, givenVars, findVars

\* The calls of run_interleavings keep the invariant.
LEMMA InterleavingsKeeps == ASSUME CheckerInv, Interleavings PROVE CheckerInv'
<1>. USE DEF Interleavings
<1>1. ILInv' /\ OrderInv'
  BY ILSteps DEF CheckerInv
<1>. QED
  BY <1>1 DEF CheckerInv, ILInv, checkerVars, givenVars, findVars

\* The call for one more switch keeps the invariant.
LEMMA NextCallKeeps == ASSUME CheckerInv, NextCall PROVE CheckerInv'
<1>. USE DEF NextCall
<1>1. ILInv /\ OrderInv
  BY DEF CheckerInv
<1>2. MachineOK'
  BY <1>1 DEF ILInv, MachineOK, vars, threadVars, trackVars
<1>3. ncs' \in 1..MaxSwitches
  BY <1>1, MaxSwitchesAssumption DEF ILInv
<1>4. ILInv'
  BY <1>1, <1>2, <1>3 DEF ILInv, vars, threadVars, trackVars, schedVars
<1>5. OrderInv'
  <2>1. CASE ncs < MaxSwitches
    <3>1. explored' = <<>> /\ ipc' = "call"
      BY <2>1
    <3>. QED
      BY <3>1 DEF OrderInv
  <2>2. CASE ~ (ncs < MaxSwitches)
    <3>1. UNCHANGED <<ncs, ipc, explored>>
      BY <2>2
    <3>. QED
      BY <1>1, <3>1 DEF OrderInv
  <2>. QED
    BY <2>1, <2>2
<1>. QED
  BY <1>4, <1>5 DEF CheckerInv, givenVars, findVars

\* A stuttering step keeps the invariant.
LEMMA CheckerStutter == ASSUME CheckerInv, UNCHANGED everyVar PROVE CheckerInv'
<1>. USE DEF everyVar, checkerVars, givenVars, findVars, serialVars
<1>1. UNCHANGED allVars /\ UNCHANGED vars
  BY DEF allVars
<1>2. ILInv /\ OrderInv => ILInv' /\ OrderInv'
  BY <1>1, ILStutter
<1>3. RunOK(NoSchedule) => RunOK(NoSchedule)'
  BY <1>1, RunGoes
<1>4. FindInv => FindInv'
  BY <1>3 DEF FindInv, MachineOK, allVars, ileavVars, vars, threadVars, trackVars, schedVars
<1>. QED
  BY <1>2, <1>4 DEF CheckerInv, allVars, ileavVars

\* Every step of equiv_checker_run keeps the invariant.
LEMMA CheckerSteps == ASSUME CheckerInv, [CheckerNext]_everyVar PROVE CheckerInv'
BY FindRwSetKeeps, RunFunctionKeeps, FoundRwSetKeeps, FindSharedMemoryKeeps, SerialKeeps,
   FirstCallKeeps, InterleavingsKeeps, NextCallKeeps, CheckerStutter DEF CheckerNext

\* The inductive invariant of the whole checker: in every call of equiv_run,
\* by find_rw_set or by run_interleavings, the invariant of the trap handlers
\* holds, and between calls the tracker, the schedule and the queue are idle.
THEOREM CheckerInvariant == CheckerSpec => []CheckerInv
<1>1. CheckerInit => CheckerInv
  BY CheckerStarts
<1>2. CheckerInv /\ [CheckerNext]_everyVar => CheckerInv'
  BY CheckerSteps
<1>. QED
  BY <1>1, <1>2, PTL DEF CheckerSpec

\* No run sees what an earlier one left behind: neither a schedule or a
\* status, nor an armed tracker, nor a thread on the queue.
THEOREM RunsStartClean == CheckerSpec => []CleanBetweenRuns
<1>1. CheckerInv => CleanBetweenRuns
  BY DEF CheckerInv, FindInv, ILInv, CleanBetweenRuns
<1>. QED
  BY <1>1, CheckerInvariant, PTL

\* run_interleavings goes through the schedules in ascending order.
THEOREM SchedulesAscend == CheckerSpec => []ExploredInOrder
<1>1. CheckerInv => ExploredInOrder
  <2>. SUFFICES ASSUME CheckerInv, NEW i \in 1..(Len(explored) - 1)
                PROVE  Before(explored[i], explored[i+1])
    BY DEF ExploredInOrder, Before
  <2>1. Len(explored) \in Nat /\ DOMAIN explored = 1..Len(explored)
    BY DEF CheckerInv, FindInv, OrderInv
  <2>2. i \in DOMAIN explored /\ i + 1 \in DOMAIN explored /\ i < i + 1
    BY <2>1
  <2>3. CASE cpc \in {"calls", "done"}
    BY <2>2, <2>3 DEF CheckerInv, OrderInv
  <2>4. CASE cpc \notin {"calls", "done"}
    BY <2>2, <2>4 DEF CheckerInv, FindInv
  <2>. QED
    BY <2>3, <2>4
<1>. QED
  BY <1>1, CheckerInvariant, PTL

\* ... and therefore none is run twice, however far the runs before it got.
THEOREM NoScheduleIsRunTwice ==
  CheckerSpec => [](\A i, j \in DOMAIN explored :
                      i < j => \/ explored[i].tids # explored[j].tids
                               \/ explored[i].instr_counts # explored[j].instr_counts)
<1>1. CheckerInv => (\A i, j \in DOMAIN explored :
                       i < j => \/ explored[i].tids # explored[j].tids
                                \/ explored[i].instr_counts # explored[j].instr_counts)
  <2>. SUFFICES ASSUME CheckerInv, NEW i \in DOMAIN explored, NEW j \in DOMAIN explored, i < j,
                       explored[i].tids = explored[j].tids,
                       explored[i].instr_counts = explored[j].instr_counts
                PROVE  FALSE
    OBVIOUS
  <2>1. cpc \in {"calls", "done"}
    BY DEF CheckerInv, FindInv
  <2>2. /\ ncs \in Nat /\ ncs + 1 \in Nat
        /\ explored[i] \in Explorations(ncs)
        /\ Before(explored[i], explored[j])
    BY <2>1, SwitchesFacts DEF CheckerInv, ILInv, OrderInv
  <2>3. /\ explored[i].tids \in [1..(ncs + 1) -> Tids]
        /\ explored[i].instr_counts \in [1..ncs -> Nat \ {0}]
    BY <2>2 DEF Explorations
  <2>4. ~ TidsBefore(explored[i].tids, explored[i].tids)
    BY <2>2, <2>3, TidsBeforeFacts
  <2>5. CountsBefore(explored[i].instr_counts, explored[i].instr_counts)
    BY <2>2, <2>4 DEF Before
  <2>. QED
    BY <2>2, <2>3, <2>5, CountsBeforeIrreflexive
<1>. QED
  BY <1>1, CheckerInvariant, PTL

\* What EquivThreads promises of the shared accesses holds of every equiv_run
\* that the checker makes, on whatever queue, memory and registers it starts.
AccessesSeen ==
  /\ CommitsAreCounted /\ TrackedBeforeCommit
  /\ CountPendingOnlyWhenActive /\ ReportInBounds

\* In every run of equiv_checker_run, those of find_rw_set included, each
\* access is tracked and counted, and nothing is written outside the report.
THEOREM EveryRunSeesTheAccesses ==
  CheckerSpec => [](cpc = "running" \/ (cpc = "calls" /\ ipc = "running") => AccessesSeen)
<1>1. CheckerInv => (cpc = "running" \/ (cpc = "calls" /\ ipc = "running") => ThreadsInv)
  BY DEF CheckerInv, FindInv, ILInv, RunOK
<1>2. ThreadsInv => AccessesSeen
  <2>. SUFFICES ASSUME ThreadsInv PROVE AccessesSeen
    OBVIOUS
  <2>1. CommitsAreCounted
    BY CountedCommits
  <2>2. TrackedBeforeCommit
    BY DEF ThreadsInv, TrackerInv, InstructionStart, TrackedBeforeCommit
  <2>. QED
    BY <2>1, <2>2 DEF AccessesSeen, ThreadsInv
<1>. QED
  BY <1>1, <1>2, CheckerInvariant, PTL

-----------------------------------------------------------------------------
(***************************************************************************)
(* The runs after the first.  Of two functions or more, the schedules that *)
(* run_interleavings generates are those that EquivThreads supposes, and   *)
(* from the second run on the queue is filled once, so that all that is    *)
(* proved of the queue holds.                                              *)
(***************************************************************************)
\* The first tids, of n, in which nobody follows itself: 1, 2, 1, ... from the
\* last on.
Alternating(n) == [i \in 1..n |-> IF (n - i) % 2 = 0 THEN 1 ELSE 2]

\* They are legal tids.
LEMMA AlternatingFacts ==
  ASSUME NumFuncs > 1, NEW n \in Nat, n > 1
  PROVE  /\ Alternating(n) \in [1..n -> Tids]
         /\ Adjacent(Alternating(n))
         /\ Alternating(n)[n] = 1 /\ Alternating(n)[n - 1] = 2
<1>1. 1 \in Tids /\ 2 \in Tids
  BY NumFuncsAssumption DEF Tids
<1>2. Alternating(n) \in [1..n -> Tids]
  BY <1>1 DEF Alternating
<1>3. Len(Alternating(n)) = n
  BY <1>2, FunctionIsSeq
<1>4. ASSUME NEW i \in 1..(n - 1) PROVE Alternating(n)[i] # Alternating(n)[i+1]
  <2>1. i \in 1..n /\ i + 1 \in 1..n /\ n - i \in Nat /\ n - (i+1) \in Nat /\ n - i = (n - (i+1)) + 1
    OBVIOUS
  <2>2. \A k \in Nat : (k % 2 = 0) # ((k + 1) % 2 = 0)
    OBVIOUS
  <2>3. ((n - (i+1)) % 2 = 0) # ((n - i) % 2 = 0)
    BY <2>1, <2>2
  <2>. QED
    BY <2>1, <2>3 DEF Alternating
<1>5. Alternating(n)[n] = 1 /\ Alternating(n)[n - 1] = 2
  BY DEF Alternating
<1>. QED
  BY <1>2, <1>3, <1>4, <1>5 DEF Adjacent

\* The odometer steps over no tids.
LEMMA BumpedIsNext ==
  ASSUME NEW n \in Nat, NEW ts \in [1..n -> Tids], NEW us \in [1..n -> Tids],
         TidsBefore(ts, us)
  PROVE  Bumped(ts) = us \/ TidsBefore(Bumped(ts), us)
<1>1. PICK i \in 1..n : ts[i] < us[i] /\ \A j \in 1..n : i < j => ts[j] = us[j]
  BY TidsBeforeFacts
<1>2. \A j \in 1..n : ts[j] \in 1..NumFuncs /\ us[j] \in 1..NumFuncs
  BY DEF Tids
<1>3. Bumped(ts) \in [1..n -> Tids]
  BY BumpedFacts
<1>4. ts[i] # NumFuncs /\ NumFuncs \in Nat
  BY <1>1, <1>2, NumFuncsAssumption
<1>5. \A j \in 1..n : i < j => Bumped(ts)[j] = ts[j]
  BY <1>4 DEF Bumped
<1>6. CASE \E k \in 1..(i-1) : ts[k] # NumFuncs
  <2>1. Bumped(ts)[i] = ts[i]
    BY <1>6 DEF Bumped
  <2>. QED
    BY <1>1, <1>3, <1>5, <2>1, TidsBeforeFacts
<1>7. CASE \A k \in 1..(i-1) : ts[k] = NumFuncs
  <2>1. Bumped(ts)[i] = ts[i] + 1
    BY <1>4, <1>7 DEF Bumped
  <2>2. \A j \in 1..(i-1) : Bumped(ts)[j] = 1
    BY <1>7 DEF Bumped
  <2>3. CASE ts[i] + 1 < us[i]
    BY <1>1, <1>3, <1>5, <2>1, <2>3, TidsBeforeFacts
  <2>4. CASE ts[i] + 1 = us[i] /\ \A j \in 1..(i-1) : us[j] = 1
    <3>1. \A j \in 1..n : Bumped(ts)[j] = us[j]
      <4>. SUFFICES ASSUME NEW j \in 1..n PROVE Bumped(ts)[j] = us[j]
        OBVIOUS
      <4>1. j \in 1..(i-1) \/ j = i \/ i < j
        OBVIOUS
      <4>. QED
        BY <1>1, <1>5, <2>1, <2>2, <2>4, <4>1
    <3>. QED
      BY <1>3, <3>1
  <2>5. CASE ts[i] + 1 = us[i] /\ \E j \in 1..(i-1) : us[j] # 1
    <3>. DEFINE T == {d \in 1..(i-1) : us[i - d] # 1}
    <3>1. T # {} /\ T \subseteq Nat
      <4>1. PICK j \in 1..(i-1) : us[j] # 1
        BY <2>5
      <4>2. i - j \in 1..(i-1) /\ i - (i - j) = j
        BY <4>1
      <4>3. us[i - (i - j)] # 1
        BY <4>1, <4>2
      <4>4. i - j \in T
        BY <4>2, <4>3
      <4>5. T \subseteq Nat
        OBVIOUS
      <4>. HIDE DEF T
      <4>. QED
        BY <4>4, <4>5
    <3>2. PICK d \in T : \A y \in T : d <= y
      <4>. HIDE DEF T
      <4>. QED
        BY <3>1, NatHasLeast
    <3>. DEFINE k == i - d
    <3>3. d \in 1..(i-1) /\ us[i - d] # 1
      BY <3>2
    <3>4. k \in 1..(i-1) /\ us[k] # 1
      BY <3>3
    <3>5. \A j \in 1..(i-1) : k < j => us[j] = 1
      <4>. SUFFICES ASSUME NEW j \in 1..(i-1), k < j, us[j] # 1 PROVE FALSE
        OBVIOUS
      <4>1. i - j \in 1..(i-1) /\ i - (i - j) = j /\ i - j < d
        BY <3>3
      <4>2. us[i - (i - j)] # 1
        BY <4>1
      <4>3. i - j \in T
        BY <4>1, <4>2
      <4>4. d <= i - j
        <5>. HIDE DEF T
        <5>. QED
          BY <3>2, <4>3
      <4>. QED
        BY <3>3, <4>1, <4>4
    <3>6. Bumped(ts)[k] < us[k]
      BY <1>2, <2>2, <3>4
    <3>7. \A j \in 1..n : k < j => Bumped(ts)[j] = us[j]
      <4>. SUFFICES ASSUME NEW j \in 1..n, k < j PROVE Bumped(ts)[j] = us[j]
        OBVIOUS
      <4>1. j \in 1..(i-1) \/ j = i \/ i < j
        OBVIOUS
      <4>. QED
        BY <1>1, <1>5, <2>1, <2>2, <2>5, <3>5, <4>1
    <3>. QED
      BY <1>3, <3>4, <3>6, <3>7, TidsBeforeAt
  <2>. QED
    BY <1>1, <1>2, <2>3, <2>4, <2>5
<1>. QED
  BY <1>6, <1>7

PlansInv ==
  /\ ipc = "first_tid" => TidsBefore(tids, Alternating(ncs + 1))
  /\ ipc \in {"loop", "running"} => Adjacent(tids)
  /\ ipc = "loop" /\ explored # <<>> => q.head = NULL
  /\ ipc = "running" /\ explored # <<>> => RunInv

\* A call begins with tids that are before the first legal ones.
LEMMA CallPlans == ASSUME NumFuncs > 1, ILInv, Call PROVE PlansInv'
<1>. DEFINE n == ncs + 1
            ones == [i \in 1..n |-> 1]
<1>1. n \in Nat /\ n > 1 /\ ipc' = "first_tid" /\ tids' = ones /\ ncs' = ncs
  BY SwitchesFacts DEF ILInv, Call
<1>2. TidsBefore(ones, Alternating(n))
  <2>1. ones \in [1..n -> Tids] /\ Alternating(n) \in [1..n -> Tids]
    BY <1>1, AlternatingFacts, NumFuncsAssumption DEF Tids
  <2>2. n - 1 \in 1..n /\ \A j \in 1..n : n - 1 < j => j = n
    BY <1>1
  <2>3. ones[n - 1] < Alternating(n)[n - 1] /\ ones[n] = Alternating(n)[n]
    BY <1>1, <2>2, AlternatingFacts
  <2>. QED
    BY <1>1, <2>1, <2>2, <2>3, TidsBeforeAt
<1>. QED
  BY <1>1, <1>2 DEF PlansInv

\* The first next_tid does not overflow: it finds Alternating on its way.
LEMMA NextTidPlans ==
  ASSUME NumFuncs > 1, ILInv, OrderInv, PlansInv, NextTid PROVE PlansInv'
<1>. DEFINE n == ncs + 1
            alt == Alternating(n)
<1>1. n \in Nat /\ n > 1 /\ tids \in [1..n -> Tids] /\ tids' = Bumped(tids)
      /\ UNCHANGED <<ncs, explored, vars>>
  BY SwitchesFacts DEF ILInv, NextTid
<1>2. alt \in [1..n -> Tids] /\ Adjacent(alt)
  BY <1>1, AlternatingFacts
<1>. HIDE DEF n, alt
<1>3. CASE ipc = "first_tid"
  <2>1. TidsBefore(tids, alt) /\ explored = <<>>
    BY <1>3 DEF PlansInv, OrderInv, n, alt
  <2>2. ~ Overflows(tids)
    <3>1. PICK i \in 1..n : tids[i] < alt[i]
      BY <1>1, <1>2, <2>1, TidsBeforeFacts
    <3>2. tids[i] # NumFuncs
      BY <1>1, <1>2, <3>1, NumFuncsAssumption DEF Tids
    <3>. QED
      BY <1>1, <3>2 DEF Overflows
  <2>3. tids' = alt \/ TidsBefore(tids', alt)
    BY <1>1, <1>2, <2>1, BumpedIsNext
  <2>4. CASE Adjacent(tids')
    BY <1>1, <1>3, <2>1, <2>2, <2>4 DEF NextTid, PlansInv
  <2>5. CASE ~ Adjacent(tids')
    BY <1>1, <1>2, <1>3, <2>1, <2>2, <2>3, <2>5 DEF NextTid, PlansInv, n, alt
  <2>. QED
    BY <2>4, <2>5
<1>4. CASE ipc = "next_tid"
  <2>1. q'.head = NULL
    BY <1>1, <1>4 DEF ILInv, vars, threadVars
  <2>2. ipc' = "loop" => Adjacent(tids')
    BY <1>4 DEF NextTid
  <2>3. ipc' \in {"loop", "returned", "next_tid"}
    BY <1>4 DEF NextTid
  <2>. QED
    BY <2>1, <2>2, <2>3 DEF PlansInv
<1>. QED
  BY <1>3, <1>4 DEF NextTid

\* reset_threads after a run fills the queue as equiv_refresh does.
LEMMA StartRunPlans ==
  ASSUME ILInv, PlansInv, StartRun PROVE PlansInv'
<1>. USE DEF StartRun
<1>1. ASSUME explored # <<>> PROVE RunInv'
  <2>1. q.head = NULL /\ q.tail = NULL
    BY <1>1 DEF PlansInv, ILInv, MachineOK
  <2>2. q' = PushedAll(EmptyQueue)
    BY <2>1, EmptyQueueFacts DEF PushedAll
  <2>3. PICK s \in Seq(Tids) : IsList(q', s) /\ Range(s) = Tids
    BY <2>2, PushedAllList
  <2>4. NoneExited'
    BY DEF ILInv, MachineOK, NoneExited, Exited, ExitPc, InitRegs, Functions
  <2>5. QueueInv(s)'
    BY <2>3, <2>4 DEF QueueInv, LoopInv
  <2>6. PlanInv'
    BY <2>4 DEF PlanInv, PlansInv
  <2>. QED
    BY <2>5, <2>6 DEF RunInv, RunnerInv, OnlyPutcPanics
<1>. QED
  BY <1>1 DEF PlansInv

\* equiv_run leaves the tids and the counts alone.
LEMMA RunPlans == ASSUME ILInv, ILInv', PlansInv, Run PROVE PlansInv'
<1>. USE DEF Run, ileavVars
<1>1. ThreadsInv /\ ThreadsInv'
  BY DEF ILInv, RunOK
<1>2. RunInv => RunInv'
  BY <1>1, RunNext
<1>. QED
  BY <1>2 DEF PlansInv

\* After a run legal tids are kept, or given up for next_tid.
LEMMA FinishRunPlans == ASSUME ILInv, PlansInv, FinishRun PROVE PlansInv'
<1>1. q'.head = NULL
  BY DEF FinishRun, ILInv, RunOK, threadVars
<1>2. tids' = tids /\ ipc' \in {"loop", "next_tid"} /\ ipc = "running"
  BY DEF FinishRun
<1>. QED
  BY <1>1, <1>2 DEF PlansInv

\* A stuttering step.
LEMMA PlansStutter == ASSUME PlansInv, UNCHANGED allVars PROVE PlansInv'
<1>1. UNCHANGED vars /\ UNCHANGED ileavVars /\ q' = q
  BY DEF allVars, vars, threadVars
<1>2. RunInv => RunInv'
  BY <1>1, RunStutter
<1>. QED
  BY <1>1, <1>2 DEF PlansInv, ileavVars

\* Every step of run_interleavings keeps the plans legal ...
LEMMA PlansSteps ==
  ASSUME NumFuncs > 1, ILInv, ILInv', OrderInv, PlansInv, [ILNext]_allVars
  PROVE  PlansInv'
BY CallPlans, NextTidPlans, StartRunPlans, RunPlans, FinishRunPlans, PlansStutter DEF ILNext

\* ... and so does every step of equiv_checker_run.
LEMMA CheckerPlans ==
  ASSUME NumFuncs > 1, CheckerInv, CheckerInv', cpc \in {"calls", "done"} => PlansInv,
         [CheckerNext]_everyVar
  PROVE  cpc' \in {"calls", "done"} => PlansInv'
<1>1. CASE Interleavings
  BY <1>1, PlansSteps DEF Interleavings, checkerVars, CheckerInv
<1>2. CASE FirstCall
  BY <1>2 DEF FirstCall, PlansInv
<1>3. CASE NextCall
  <2>1. ipc' \in {"call", "returned"}
    BY <1>3 DEF NextCall
  <2>. QED
    BY <2>1 DEF PlansInv
<1>4. CASE UNCHANGED everyVar
  <2>1. UNCHANGED allVars /\ cpc' = cpc
    BY <1>4 DEF everyVar, checkerVars
  <2>. QED
    BY <2>1, PlansStutter
<1>5. CASE \/ FindRwSet \/ RunFunction \/ FoundRwSet \/ FindSharedMemory
           \/ SerialCall \/ SerialStep \/ SerialReturn
  BY <1>5 DEF FindRwSet, RunFunction, FoundRwSet, FindSharedMemory, SerialCall, SerialStep,
     SerialReturn, checkerVars
<1>. QED
  BY <1>1, <1>2, <1>3, <1>4, <1>5 DEF CheckerNext

\* With more than one function next_tid finds legal tids before it overflows,
\* so that every generated schedule is one that equiv_run can follow.
THEOREM PlansInvariant ==
  ASSUME NumFuncs > 1
  PROVE  CheckerSpec => [](CheckerInv /\ (cpc \in {"calls", "done"} => PlansInv))
<1>1. CheckerInit => (cpc \in {"calls", "done"} => PlansInv)
  BY DEF CheckerInit
<1>2. CheckerInv /\ CheckerInv' /\ (cpc \in {"calls", "done"} => PlansInv) /\ [CheckerNext]_everyVar
        => (cpc \in {"calls", "done"} => PlansInv)'
  BY CheckerPlans
<1>. QED
  BY <1>1, <1>2, CheckerInvariant, PTL DEF CheckerSpec

\* What EquivThreads supposes of the schedules (SchedulesAssumption) holds of
\* those that run_interleavings generates: no thread follows itself.
THEOREM GeneratedSchedules ==
  ASSUME NumFuncs > 1
  PROVE  CheckerSpec =>
           [](cpc = "calls" /\ ipc = "running" => IsSchedule(PlanNow) /\ Adjacent(tids))
<1>1. CheckerInv /\ (cpc \in {"calls", "done"} => PlansInv) =>
        (cpc = "calls" /\ ipc = "running" => IsSchedule(PlanNow) /\ Adjacent(tids))
  <2>. SUFFICES ASSUME CheckerInv, PlansInv, cpc = "calls", ipc = "running"
                PROVE  IsSchedule(PlanNow) /\ Adjacent(tids)
    OBVIOUS
  <2>1. /\ tids \in [1..(ncs + 1) -> Tids] /\ instr_nums \in [1..ncs -> Nat \ {0}]
        /\ ncs \in Nat \ {0} /\ ncs + 1 \in Nat
    BY SwitchesFacts DEF CheckerInv, ILInv
  <2>2. /\ tids \in Seq(Tids) /\ Len(tids) = ncs + 1
        /\ instr_nums \in Seq(Nat \ {0}) /\ Len(instr_nums) = ncs
    BY <2>1, FunctionIsSeq
  <2>. QED
    BY <2>1, <2>2 DEF PlansInv, IsSchedule, ScheduleShape, PlanNow
<1>. QED
  BY <1>1, PlansInvariant, PTL

\* Every run of run_interleavings but its first finds the scheduled thread,
\* loses none and runs none after its exit: what the run zombie shows of the
\* first run happens to no other.
THEOREM LaterRunsAreSound ==
  ASSUME NumFuncs > 1
  PROVE  CheckerSpec =>
           [](cpc = "calls" /\ ipc = "running" /\ explored # <<>> =>
                QueueHoldsTheOthers /\ OnlyPutcPanics /\ ExitedNeverRuns)
<1>1. CheckerInv /\ (cpc \in {"calls", "done"} => PlansInv) =>
        (cpc = "calls" /\ ipc = "running" /\ explored # <<>> =>
           QueueHoldsTheOthers /\ OnlyPutcPanics /\ ExitedNeverRuns)
  BY RunHolds DEF PlansInv
<1>. QED
  BY <1>1, PlansInvariant, PTL

-----------------------------------------------------------------------------
(***************************************************************************)
(* No schedule is skipped.  run_interleavings does not know how many       *)
(* shared accesses a thread makes and derives each schedule from how far   *)
(* its predecessor got.  A run that made fewer switches than it was to     *)
(* make stands for all schedules that agree with it up to the segment it   *)
(* did not complete and ask at least as much of that segment.              *)
(***************************************************************************)
\* The run e tells what the schedule of tids ts and counts d does.
Answers(e, ts, d) ==
  /\ e.tids = ts
  /\ \/ e.instr_counts = d
     \/ /\ e.made < ncs
        /\ \A j \in 1..e.made : e.instr_counts[j] = d[j]
        /\ e.instr_counts[e.made + 1] <= d[e.made + 1]

Answered(ts, d) == \E i \in DOMAIN explored : Answers(explored[i], ts, d)

\* Every legal schedule that comes before the current one is answered.
CoverInv ==
  \A ts \in [1..(ncs + 1) -> Tids], d \in [1..ncs -> Nat \ {0}] :
    Adjacent(ts) =>
      /\ ipc \in {"first_tid", "next_tid"} /\ (ts = tids \/ TidsBefore(ts, tids)) => Answered(ts, d)
      /\ ipc \in {"loop", "running"} /\ TidsBefore(ts, tids) => Answered(ts, d)
      /\ ipc \in {"loop", "running"} /\ ts = tids /\ CountsBefore(d, instr_nums) => Answered(ts, d)
      /\ ipc = "returned" => Answered(ts, d)

\* next_tid is left to start with the least counts.
CountsStartInv ==
  ipc \in {"first_tid", "next_tid"} => instr_nums = [i \in 1..ncs |-> 1]

\* Of two different sequences of tids one is before the other.
LEMMA TidsBeforeTotal ==
  ASSUME NEW n \in Nat, NEW s \in [1..n -> Tids], NEW t \in [1..n -> Tids], s # t
  PROVE  TidsBefore(s, t) \/ TidsBefore(t, s)
<1>. DEFINE T == {d \in 0..n : n - d \in 1..n /\ s[n - d] # t[n - d]}
<1>1. T # {} /\ T \subseteq Nat
  <2>1. PICK j \in 1..n : s[j] # t[j]
    OBVIOUS
  <2>2. n - j \in 0..n /\ n - (n - j) = j
    BY <2>1
  <2>3. n - j \in T
    BY <2>1, <2>2
  <2>4. T \subseteq Nat
    OBVIOUS
  <2>. HIDE DEF T
  <2>. QED
    BY <2>3, <2>4
<1>2. PICK d \in T : \A y \in T : d <= y
  <2>. HIDE DEF T
  <2>. QED
    BY <1>1, NatHasLeast
<1>3. d \in 0..n /\ n - d \in 1..n /\ s[n - d] # t[n - d]
  BY <1>2
<1>4. PICK i \in 1..n : i = n - d
  BY <1>3
<1>5. ASSUME NEW j \in 1..n, i < j PROVE s[j] = t[j]
  <2>. SUFFICES ASSUME s[j] # t[j] PROVE FALSE
    OBVIOUS
  <2>1. n - j \in 0..n /\ n - (n - j) = j /\ n - j < d
    BY <1>3, <1>4, <1>5
  <2>2. n - j \in T
    BY <2>1
  <2>3. d <= n - j
    <3>. HIDE DEF T
    <3>. QED
      BY <1>2, <2>2
  <2>. QED
    BY <1>3, <2>1, <2>3
<1>6. s[i] < t[i] \/ t[i] < s[i]
  BY <1>3, <1>4 DEF Tids
<1>7. CASE s[i] < t[i]
  BY <1>5, <1>7, TidsBeforeAt
<1>8. CASE t[i] < s[i]
  <2>1. \A j \in 1..n : i < j => t[j] = s[j]
    BY <1>5
  <2>. QED
    BY <1>8, <2>1, TidsBeforeAt
<1>. QED
  BY <1>6, <1>7, <1>8

\* No tids come after those at which next_tid overflows.
LEMMA OverflowIsLast ==
  ASSUME NEW n \in Nat, NEW s \in [1..n -> Tids], NEW t \in [1..n -> Tids], Overflows(s)
  PROVE  t = s \/ TidsBefore(t, s)
<1>1. ASSUME TidsBefore(s, t) PROVE FALSE
  <2>1. PICK i \in 1..n : s[i] < t[i]
    BY <1>1, TidsBeforeFacts
  <2>2. s[i] = NumFuncs /\ t[i] \in 1..NumFuncs
    BY <2>1 DEF Overflows, Tids
  <2>. QED
    BY <2>1, <2>2, NumFuncsAssumption
<1>. QED
  BY <1>1, TidsBeforeTotal

\* next_tid steps over no tids.
LEMMA BumpedSkipsNone ==
  ASSUME NEW n \in Nat, NEW s \in [1..n -> Tids], NEW t \in [1..n -> Tids],
         TidsBefore(t, Bumped(s))
  PROVE  t = s \/ TidsBefore(t, s)
<1>1. Bumped(s) \in [1..n -> Tids]
  BY BumpedFacts
<1>2. ~ TidsBefore(t, t)
  BY TidsBeforeFacts
<1>3. ASSUME TidsBefore(s, t) PROVE FALSE
  <2>1. Bumped(s) = t \/ TidsBefore(Bumped(s), t)
    BY <1>3, BumpedIsNext
  <2>2. TidsBefore(t, Bumped(s)) /\ TidsBefore(Bumped(s), t) => TidsBefore(t, t)
    BY <1>1, TidsBeforeTransitive
  <2>. QED
    BY <1>2, <2>1, <2>2
<1>. QED
  BY <1>3, TidsBeforeTotal

\* Where all digits are 1 nothing is before, and no schedule is legal.
LEMMA OnesAreFirst ==
  ASSUME NEW n \in Nat, n > 1, NEW s \in [1..n -> Tids], s = [i \in 1..n |-> 1]
  PROVE  /\ ~ Adjacent(s)
         /\ \A t \in [1..n -> Tids] : ~ TidsBefore(t, s)
<1>1. Len(s) = n
  BY FunctionIsSeq
<1>2. ~ Adjacent(s)
  BY <1>1 DEF Adjacent
<1>3. ASSUME NEW t \in [1..n -> Tids], TidsBefore(t, s) PROVE FALSE
  <2>1. PICK i \in 1..n : t[i] < s[i]
    BY <1>3, TidsBeforeFacts
  <2>2. t[i] \in 1..NumFuncs /\ s[i] = 1
    BY <2>1 DEF Tids
  <2>. QED
    BY <2>1, <2>2, NumFuncsAssumption
<1>. QED
  BY <1>2, <1>3

\* No counts are before those that are all 1.
LEMMA LeastCounts ==
  ASSUME NEW n \in Nat, NEW d \in [1..n -> Nat \ {0}]
  PROVE  ~ CountsBefore(d, [i \in 1..n |-> 1])
<1>1. \A i \in 1..n : d[i] \in Nat \ {0} /\ ~ (d[i] < 1)
  OBVIOUS
<1>. QED
  BY <1>1 DEF CountsBefore

\* The run of c that made its first switches answers all counts before those
\* that are run next, but for those that come before c.
LEMMA BetweenCounts ==
  ASSUME NEW n \in Nat \ {0}, NEW c \in [1..n -> Nat \ {0}], NEW d \in [1..n -> Nat \ {0}],
         NEW made \in 0..n,
         made = 0 \/ CountsBefore(d, AdvancedCounts(c, made))
  PROVE  \/ CountsBefore(d, c)
         \/ c = d
         \/ /\ made < n /\ \A j \in 1..made : c[j] = d[j]
            /\ c[made + 1] <= d[made + 1]
<1>. DEFINE a == AdvancedCounts(c, made)
<1>1. \A j \in 1..n : c[j] \in Nat \ {0} /\ d[j] \in Nat \ {0}
  OBVIOUS
<1>. SUFFICES ASSUME ~ CountsBefore(d, c)
              PROVE  \/ c = d
                     \/ /\ made < n /\ \A j \in 1..made : c[j] = d[j]
                        /\ c[made + 1] <= d[made + 1]
  OBVIOUS
<1>2. \A i \in 1..n : (\A j \in 1..(i-1) : d[j] = c[j]) => ~ (d[i] < c[i])
  BY DEF CountsBefore
<1>3. \A j \in 1..made : c[j] = d[j]
  <2>1. CASE made = 0
    BY <2>1
  <2>2. CASE made # 0
    <3>1. PICK m \in 1..n : d[m] < a[m] /\ \A j \in 1..(m-1) : d[j] = a[j]
      BY <2>2 DEF CountsBefore
    <3>2. made \in 1..n /\ a[made] = c[made] + 1
      BY <2>2 DEF AdvancedCounts
    <3>3. \A j \in 1..n : /\ j < made => a[j] = c[j]
                          /\ made < j => a[j] = 1
      BY DEF AdvancedCounts
    <3>. HIDE DEF a
    <3>4. m <= made
      BY <1>1, <3>1, <3>2, <3>3
    <3>5. \A j \in 1..(m-1) : d[j] = c[j]
      <4>. SUFFICES ASSUME NEW j \in 1..(m-1) PROVE d[j] = c[j]
        OBVIOUS
      <4>1. j \in 1..n /\ j < made
        BY <3>2, <3>4
      <4>. QED
        BY <3>1, <3>3, <4>1
    <3>6. ~ (d[m] < c[m])
      BY <1>2, <3>5
    <3>7. m = made
      BY <1>1, <3>1, <3>2, <3>3, <3>4, <3>6
    <3>8. d[made] = c[made]
      BY <1>1, <3>1, <3>2, <3>6, <3>7
    <3>. SUFFICES ASSUME NEW j \in 1..made PROVE c[j] = d[j]
      OBVIOUS
    <3>9. j = made \/ j \in 1..(m-1)
      BY <3>2, <3>7
    <3>. QED
      BY <3>5, <3>8, <3>9
  <2>. QED
    BY <2>1, <2>2
<1>4. CASE made = n
  BY <1>3, <1>4
<1>5. CASE made < n
  <2>1. made + 1 \in 1..n /\ (made + 1) - 1 = made
    BY <1>5
  <2>2. ~ (d[made + 1] < c[made + 1])
    BY <1>2, <1>3, <2>1
  <2>. QED
    BY <1>1, <1>3, <1>5, <2>1, <2>2
<1>. QED
  BY <1>4, <1>5

\* The first tids of a call are not legal, and nothing is before them.
LEMMA CallCovers == ASSUME ILInv, Call PROVE CoverInv' /\ CountsStartInv'
<1>. DEFINE n == ncs + 1
<1>1. /\ n \in Nat /\ n > 1 /\ ipc' = "first_tid" /\ ncs' = ncs
      /\ tids' = [i \in 1..n |-> 1] /\ instr_nums' = [i \in 1..ncs |-> 1]
  BY SwitchesFacts DEF ILInv, Call
<1>2. tids' \in [1..n -> Tids]
  BY <1>1, NumFuncsAssumption DEF Tids
<1>3. ~ Adjacent(tids') /\ \A ts \in [1..n -> Tids] : ~ TidsBefore(ts, tids')
  BY <1>1, <1>2, OnesAreFirst
<1>. QED
  BY <1>1, <1>3 DEF CoverInv, CountsStartInv

\* next_tid steps over no legal tids, and gives up only after the last.
LEMMA NextTidCovers ==
  ASSUME ILInv, OrderInv, CoverInv, CountsStartInv, NextTid PROVE CoverInv' /\ CountsStartInv'
<1>. DEFINE n == ncs + 1
<1>1. /\ n \in Nat /\ n > 1 /\ tids \in [1..n -> Tids] /\ tids' = Bumped(tids)
      /\ instr_nums = [i \in 1..ncs |-> 1] /\ ncs \in Nat
      /\ UNCHANGED <<ncs, explored, instr_nums>>
      /\ ipc \in {"first_tid", "next_tid"}
  BY SwitchesFacts DEF ILInv, NextTid, CountsStartInv
<1>2. ipc' \in {"first_tid", "next_tid"} => ~ Adjacent(tids')  \/ Overflows(tids)
  BY DEF NextTid
<1>3. /\ Overflows(tids) /\ ipc = "next_tid" => ipc' = "returned"
      /\ Overflows(tids) /\ ipc = "first_tid" => ipc' = "loop"
      /\ ~ Overflows(tids) => ipc' \in {"first_tid", "next_tid", "loop"}
  BY <1>1 DEF NextTid
<1>4. \A ts, d : Answered(ts, d)' = Answered(ts, d)
  BY <1>1 DEF Answered, Answers
<1>5. CountsStartInv'
  BY <1>1 DEF CountsStartInv
<1>6. CoverInv'
  <2>. SUFFICES ASSUME NEW ts \in [1..n -> Tids], NEW d \in [1..ncs -> Nat \ {0}], Adjacent(ts)
                PROVE  /\ ipc' \in {"first_tid", "next_tid"} /\ (ts = tids' \/ TidsBefore(ts, tids'))
                            => Answered(ts, d)
                       /\ ipc' \in {"loop", "running"} /\ TidsBefore(ts, tids') => Answered(ts, d)
                       /\ ipc' \in {"loop", "running"} /\ ts = tids' /\ CountsBefore(d, instr_nums')
                            => Answered(ts, d)
                       /\ ipc' = "returned" => Answered(ts, d)
    BY <1>1, <1>4 DEF CoverInv
  <2>1. ts = tids \/ TidsBefore(ts, tids) => Answered(ts, d)
    BY <1>1 DEF CoverInv
  <2>2. ~ CountsBefore(d, instr_nums')
    BY <1>1, LeastCounts
  <2>3. TidsBefore(ts, tids') => Answered(ts, d)
    BY <1>1, <2>1, BumpedSkipsNone
  <2>4. CASE Overflows(tids)
    <3>1. Answered(ts, d)
      BY <1>1, <2>1, <2>4, OverflowIsLast
    <3>. QED
      BY <3>1
  <2>5. CASE ~ Overflows(tids)
    BY <1>2, <1>3, <2>2, <2>3, <2>5
  <2>. QED
    BY <2>4, <2>5
<1>. QED
  BY <1>5, <1>6

\* Neither the lines before equiv_run nor equiv_run itself change the schedule.
LEMMA RunCovers ==
  ASSUME CoverInv, CountsStartInv, StartRun \/ Run \/ UNCHANGED allVars
  PROVE  CoverInv' /\ CountsStartInv'
<1>1. /\ UNCHANGED <<ncs, tids, instr_nums, explored>>
      /\ ipc' = ipc \/ (ipc = "loop" /\ ipc' = "running")
  BY DEF StartRun, Run, allVars, ileavVars
<1>2. \A ts, d : Answered(ts, d)' = Answered(ts, d)
  BY <1>1 DEF Answered, Answers
<1>3. CountsStartInv'
  BY <1>1 DEF CountsStartInv
<1>4. CoverInv'
  BY <1>1, <1>2 DEF CoverInv
<1>. QED
  BY <1>3, <1>4

\* Between the counts of a run and the next there are only such as the run
\* answers.
LEMMA FinishRunCovers ==
  ASSUME ILInv, OrderInv, CoverInv, FinishRun PROVE CoverInv' /\ CountsStartInv'
<1>. DEFINE made == ctx_switch_status.ctx_switch
            e == [tids |-> tids, instr_counts |-> instr_nums, made |-> made]
<1>1. /\ tids \in [1..(ncs + 1) -> Tids] /\ instr_nums \in [1..ncs -> Nat \ {0}]
      /\ ncs \in Nat \ {0} /\ ncs + 1 \in Nat /\ ipc = "running"
  BY SwitchesFacts DEF ILInv, FinishRun
<1>2. made \in 0..ncs
  <2>1. RunOK(PlanNow) /\ Len(instr_nums) = ncs
    BY <1>1, FunctionIsSeq DEF ILInv
  <2>2. made \in Nat
    BY <2>1 DEF RunOK, ThreadsInv, TypeOK, Statuses
  <2>3. made <= ncs
    BY <2>1 DEF RunOK, PlanNow
  <2>. QED
    BY <1>1, <2>2, <2>3
<1>3. /\ ncs' = ncs /\ tids' = tids /\ instr_nums' = AdvancedCounts(instr_nums, made)
      /\ made > 0 => ipc' = "loop"
      /\ made = 0 => ipc' = "next_tid"
      /\ explored' = Append(explored, e)
  BY <1>2 DEF FinishRun
<1>. HIDE DEF made
<1>4. CountsStartInv'
  <2>1. made = 0 => AdvancedCounts(instr_nums, made) = [i \in 1..ncs |-> 1]
    BY <1>1 DEF AdvancedCounts
  <2>. QED
    BY <1>2, <1>3, <2>1 DEF CountsStartInv
<1>5. \A ts, d : Answered(ts, d) \/ Answers(e, ts, d) => Answered(ts, d)'
  <2>. HIDE DEF e
  <2>1. /\ Len(explored) \in Nat /\ DOMAIN explored = 1..Len(explored)
        /\ DOMAIN explored' = 1..(Len(explored) + 1)
        /\ explored'[Len(explored) + 1] = e
        /\ \A i \in 1..Len(explored) : explored'[i] = explored[i]
    <3>1. explored \in Seq(Explorations(ncs))
      BY DEF OrderInv
    <3>. QED
      BY <1>3, <3>1
  <2>. QED
    BY <1>3, <2>1 DEF Answered, Answers
<1>6. CoverInv'
  <2>. SUFFICES ASSUME NEW ts \in [1..(ncs + 1) -> Tids], NEW d \in [1..ncs -> Nat \ {0}], Adjacent(ts)
                PROVE  /\ TidsBefore(ts, tids) => Answered(ts, d)'
                       /\ made = 0 /\ ts = tids => Answered(ts, d)'
                       /\ ts = tids /\ CountsBefore(d, AdvancedCounts(instr_nums, made))
                            => Answered(ts, d)'
    BY <1>2, <1>3 DEF CoverInv
  <2>1. TidsBefore(ts, tids) => Answered(ts, d)
    BY <1>1 DEF CoverInv
  <2>2. ASSUME ts = tids, made = 0 \/ CountsBefore(d, AdvancedCounts(instr_nums, made))
        PROVE  Answered(ts, d)'
    <3>1. \/ CountsBefore(d, instr_nums)
          \/ instr_nums = d
          \/ /\ made < ncs /\ \A j \in 1..made : instr_nums[j] = d[j]
             /\ instr_nums[made + 1] <= d[made + 1]
      BY <1>1, <1>2, <2>2, BetweenCounts
    <3>2. CountsBefore(d, instr_nums) => Answered(ts, d)
      BY <1>1, <2>2 DEF CoverInv
    <3>3. ~ CountsBefore(d, instr_nums) => Answers(e, ts, d)
      BY <2>2, <3>1 DEF Answers
    <3>. QED
      BY <1>5, <3>2, <3>3
  <2>. QED
    BY <1>5, <2>1, <2>2
<1>. QED
  BY <1>4, <1>6

\* Every step of run_interleavings ...
LEMMA CoverSteps ==
  ASSUME ILInv, OrderInv, CoverInv, CountsStartInv, [ILNext]_allVars
  PROVE  CoverInv' /\ CountsStartInv'
BY CallCovers, NextTidCovers, RunCovers, FinishRunCovers DEF ILNext

CheckerCoverInv == cpc \in {"calls", "done"} => CoverInv /\ CountsStartInv

\* ... and of equiv_checker_run.
LEMMA CheckerCovers ==
  ASSUME CheckerInv, CheckerCoverInv, [CheckerNext]_everyVar PROVE CheckerCoverInv'
<1>. USE DEF CheckerCoverInv
<1>1. CASE Interleavings
  BY <1>1, CoverSteps DEF Interleavings, checkerVars, CheckerInv
<1>2. CASE FirstCall
  BY <1>2 DEF FirstCall, CoverInv, CountsStartInv
<1>3. CASE NextCall
  <2>1. CASE ncs < MaxSwitches
    BY <1>3, <2>1 DEF NextCall, CoverInv, CountsStartInv
  <2>2. CASE ~ (ncs < MaxSwitches)
    <3>1. UNCHANGED <<ncs, ipc, explored, tids, instr_nums>> /\ cpc = "calls"
      BY <1>3, <2>2 DEF NextCall
    <3>2. \A ts, d : Answered(ts, d)' = Answered(ts, d)
      BY <3>1 DEF Answered, Answers
    <3>. QED
      BY <3>1, <3>2 DEF CoverInv, CountsStartInv
  <2>. QED
    BY <2>1, <2>2
<1>4. CASE UNCHANGED everyVar
  <2>1. UNCHANGED allVars /\ cpc' = cpc
    BY <1>4 DEF everyVar, checkerVars
  <2>. QED
    BY <2>1, RunCovers
<1>5. CASE \/ FindRwSet \/ RunFunction \/ FoundRwSet \/ FindSharedMemory
           \/ SerialCall \/ SerialStep \/ SerialReturn
  BY <1>5 DEF FindRwSet, RunFunction, FoundRwSet, FindSharedMemory, SerialCall, SerialStep,
     SerialReturn, checkerVars
<1>. QED
  BY <1>1, <1>2, <1>3, <1>4, <1>5 DEF CheckerNext

\* When a call of run_interleavings returns, every legal schedule of its
\* number of switches, with whatever counts, was run, or a run fell short
\* that agrees with it as far as it got.
THEOREM NothingIsSkipped ==
  CheckerSpec => [](cpc \in {"calls", "done"} /\ ipc = "returned" =>
                      \A ts \in [1..(ncs + 1) -> Tids], d \in [1..ncs -> Nat \ {0}] :
                        Adjacent(ts) => Answered(ts, d))
<1>1. CheckerInit => CheckerCoverInv
  BY DEF CheckerInit, CheckerCoverInv
<1>2. CheckerInv /\ CheckerCoverInv /\ [CheckerNext]_everyVar => CheckerCoverInv'
  BY CheckerCovers
<1>3. CheckerCoverInv => (cpc \in {"calls", "done"} /\ ipc = "returned" =>
                            \A ts \in [1..(ncs + 1) -> Tids], d \in [1..ncs -> Nat \ {0}] :
                              Adjacent(ts) => Answered(ts, d))
  BY DEF CheckerCoverInv, CoverInv
<1>. QED
  BY <1>1, <1>2, <1>3, CheckerInvariant, PTL DEF CheckerSpec

-----------------------------------------------------------------------------
(***************************************************************************)
(* The report of a run.                                                    *)
(***************************************************************************)
\* The accesses of the current segment that are in the report: those counted
\* and the one about to be.
Reported == ctx_switch_status.instr_count + ctx_switch_status.do_instr_count

Filled(plan, i, j) ==
  LET code == text[plan.tids[i + 1]]  cell == report[<<i, j>>] IN
  cell \in Pcs(code) /\ Touched(code, cell) \cap shared_memory # {}

\* While context switches remain, the schedule says who runs; the cells of
\* the segments that are over, and of the current one up to Reported, are
\* filled.
ReportInv(plan) ==
  /\ Active /\ kpc = "user" => cur_thread = plan.tids[ctx_switch_status.ctx_switch + 1]
  /\ schedule # NoSchedule /\ kpc = "retrieve" =>
       loop.tid = plan.tids[ctx_switch_status.ctx_switch + 1]
  /\ kpc = "start" => ctx_switch_status = ResetStatus
  /\ \A i, j \in Nat : i < ctx_switch_status.ctx_switch /\ j < plan.instr_counts[i + 1]
                         => Filled(plan, i, j)
  /\ Active => \A j \in Nat : j < Reported => Filled(plan, ctx_switch_status.ctx_switch, j)

\* A cell of the report belongs to an access of its segment.
LEMMA CellsAre ==
  ASSUME NEW s, IsSchedule(s), NEW i \in Nat, NEW j \in Nat, <<i, j>> \in Cells(s)
  PROVE  i < Len(s.instr_counts) /\ j < s.instr_counts[i + 1]
<1>1. s.instr_counts \in Seq(Nat \ {0})
  BY DEF IsSchedule, ScheduleShape
<1>2. PICK k \in DOMAIN s.instr_counts : <<i, j>> \in {<<k - 1, l - 1>> : l \in 1..s.instr_counts[k]}
  BY DEF Cells
<1>3. PICK l \in 1..s.instr_counts[k] : <<i, j>> = <<k - 1, l - 1>>
  BY <1>2
<1>4. i = k - 1 /\ j = l - 1
  BY <1>3
<1>5. k \in 1..Len(s.instr_counts) /\ s.instr_counts[k] \in Nat
  BY <1>1
<1>. QED
  BY <1>4, <1>5

\* What a step of the run of plan meets.
LEMMA RunFacts ==
  ASSUME NEW plan, IsSchedule(plan), RunOK(plan)
  PROVE  LET k == ctx_switch_status.ctx_switch IN
         /\ k \in Nat /\ k <= Len(plan.instr_counts)
         /\ ctx_switch_status.instr_count \in Nat
         /\ ctx_switch_status.do_instr_count \in {0, 1}
         /\ \A i \in Nat : i < k => plan.instr_counts[i + 1] \in Nat
         /\ Active => /\ schedule = plan /\ DOMAIN report = Cells(plan)
                      /\ k < Len(plan.instr_counts)
                      /\ plan.instr_counts[k + 1] \in Nat
                      /\ ctx_switch_status.instr_count < plan.instr_counts[k + 1]
                      /\ <<k, ctx_switch_status.instr_count>> \in Cells(plan)
<1>. DEFINE k == ctx_switch_status.ctx_switch
<1>1. TypeOK /\ ControlInv /\ ReportInBounds /\ k <= Len(plan.instr_counts)
      /\ schedule \in {plan, NoSchedule}
  BY DEF RunOK, ThreadsInv
<1>2. /\ k \in Nat /\ ctx_switch_status.instr_count \in Nat
      /\ ctx_switch_status.do_instr_count \in {0, 1}
  BY <1>1 DEF TypeOK, Statuses
<1>3. plan.instr_counts \in Seq(Nat \ {0})
  BY DEF IsSchedule, ScheduleShape
<1>4. ASSUME NEW i \in Nat, i < k PROVE plan.instr_counts[i + 1] \in Nat
  <2>1. i + 1 \in 1..Len(plan.instr_counts)
    BY <1>1, <1>2, <1>3, <1>4
  <2>. QED
    BY <1>3, <2>1
<1>5. ASSUME Active
      PROVE  /\ schedule = plan /\ DOMAIN report = Cells(plan)
             /\ k < Len(plan.instr_counts) /\ plan.instr_counts[k + 1] \in Nat
             /\ <<k, ctx_switch_status.instr_count>> \in Cells(plan)
  <2>1. schedule = plan /\ DOMAIN report = Cells(plan)
    BY <1>1, <1>5 DEF Active, ControlInv
  <2>2. k < Len(plan.instr_counts)
    BY <1>5, <2>1 DEF Active, n_ctx_switches
  <2>3. plan.instr_counts[k + 1] \in Nat
    BY <1>2, <1>3, <2>2
  <2>. QED
    BY <1>1, <1>5, <2>1, <2>2, <2>3 DEF ReportInBounds
<1>6. Active => ctx_switch_status.instr_count < plan.instr_counts[k + 1]
  BY <1>2, <1>5, CellsAre
<1>. QED
  BY <1>1, <1>2, <1>4, <1>5, <1>6

\* Cells stay filled while nothing is written and the accesses counted are
\* those that were pending.
LEMMA ReportStays ==
  ASSUME NEW plan, ReportInv(plan), UNCHANGED <<text, report, shared_memory>>,
         ctx_switch_status'.ctx_switch = ctx_switch_status.ctx_switch,
         Active' => Active /\ Reported' = Reported
  PROVE  /\ \A i, j \in Nat : i < ctx_switch_status'.ctx_switch /\ j < plan.instr_counts[i + 1]
                                => Filled(plan, i, j)'
         /\ Active' => \A j \in Nat : j < Reported' =>
                         Filled(plan, ctx_switch_status.ctx_switch, j)'
BY DEF ReportInv, Filled

\* The cells counted stay filled, with accesses of the scheduled thread, in
\* every step of equiv_run.
LEMMA ReportStep ==
  ASSUME NEW plan, IsSchedule(plan), RunOK(plan), RunOK(plan)', ReportInv(plan), Next
  PROVE  ReportInv(plan)'
<1>. DEFINE k == ctx_switch_status.ctx_switch
            n == ctx_switch_status.instr_count
<1>1. /\ k \in Nat /\ k <= Len(plan.instr_counts) /\ n \in Nat
      /\ ctx_switch_status.do_instr_count \in {0, 1}
      /\ \A i \in Nat : i < k => plan.instr_counts[i + 1] \in Nat
      /\ Active => /\ schedule = plan /\ DOMAIN report = Cells(plan)
                   /\ k < Len(plan.instr_counts) /\ plan.instr_counts[k + 1] \in Nat
                   /\ n < plan.instr_counts[k + 1]
                   /\ <<k, n>> \in Cells(plan)
  BY RunFacts
<1>2. schedule \in {plan, NoSchedule}
  BY DEF RunOK
<1>3. CASE EquivRun
  <2>1. ctx_switch_status = ResetStatus
    BY <1>3 DEF EquivRun, ReportInv
  <2>2. UNCHANGED <<text, report, shared_memory, schedule, ctx_switch_status>>
    BY <1>3 DEF EquivRun, schedVars
  <2>3. schedule # NoSchedule => kpc' # "user" /\ loop'.tid = plan.tids[1]
    BY <1>2, <1>3 DEF EquivRun, Retrieve
  <2>4. Active' => Active /\ Reported' = Reported
    BY <2>2 DEF Active, n_ctx_switches, Reported
  <2>5. kpc' # "start"
    BY <1>3 DEF EquivRun, Retrieve
  <2>. QED
    BY <2>1, <2>2, <2>3, <2>4, <2>5, ReportStays DEF ReportInv, Active, ResetStatus
<1>4. CASE Rotate \/ EnterFirst \/ SwitchTo
  <2>1. UNCHANGED <<text, report, shared_memory, schedule, ctx_switch_status>>
    BY <1>4 DEF Rotate, EnterFirst, SwitchTo, schedVars
  <2>2. Active' => Active /\ Reported' = Reported
    BY <2>1 DEF Active, n_ctx_switches, Reported
  <2>3. kpc = "retrieve" /\ kpc' # "start"
    BY <1>4 DEF Rotate, EnterFirst, SwitchTo, RunThread
  <2>4. schedule # NoSchedule => loop.tid = plan.tids[k + 1]
    BY <2>3 DEF ReportInv
  <2>5. kpc' = "user" => cur_thread' = loop.tid
    BY <1>4 DEF Rotate, EnterFirst, SwitchTo, RunThread
  <2>6. kpc' = "retrieve" => loop'.tid = loop.tid
    <3>1. loop \in [th : Links, first : Links, tid : Links, then : {"none", "enter", "switch"}]
      BY DEF RunOK, ThreadsInv, TypeOK
    <3>. QED
      BY <1>4, <3>1 DEF Rotate, EnterFirst, SwitchTo, RunThread
  <2>. QED
    BY <2>1, <2>2, <2>3, <2>4, <2>5, <2>6, ReportStays DEF ReportInv, Active
<1>5. CASE StepOnly \/ StepCount \/ Commit
  <2>1. UNCHANGED <<text, report, shared_memory, schedule, cur_thread>> /\ kpc = "user" /\ kpc' = "user"
    BY <1>5 DEF StepOnly, StepCount, MismatchFault, Commit, schedVars
  <2>2. ctx_switch_status'.ctx_switch = k /\ Reported' = Reported
    BY <1>1, <1>5 DEF StepOnly, StepCount, Commit, schedVars, Settled, Counted, Reported
  <2>3. Active' => Active
    BY <2>1, <2>2 DEF Active, n_ctx_switches
  <2>. QED
    BY <2>1, <2>2, <2>3, ReportStays DEF ReportInv
<1>6. CASE StepSwitch
  <2>1. /\ UNCHANGED <<text, report, shared_memory, schedule>>
        /\ ctx_switch_status' = Settled(k + 1, 0)
        /\ ctx_switch_status.do_instr_count = 1
        /\ n + 1 >= SegmentLength
        /\ loop'.tid = schedule.tids[k + 2] /\ kpc' \in {"null", "retrieve"}
    BY <1>6 DEF StepSwitch, MismatchFault, Retrieve, Counted
  <2>2. Active
    BY <2>1 DEF RunOK, ThreadsInv, CountPendingOnlyWhenActive
  <2>3. ctx_switch_status'.ctx_switch = k + 1 /\ Reported' = 0
    BY <2>1 DEF Settled, Reported
  <2>4. \A j \in Nat : j < plan.instr_counts[k + 1] => Filled(plan, k, j)
    BY <1>1, <2>1, <2>2 DEF ReportInv, Reported, SegmentLength
  <2>5. \A i, j \in Nat : Filled(plan, i, j) => Filled(plan, i, j)'
    BY <2>1 DEF Filled
  <2>6. \A i, j \in Nat : i < k + 1 /\ j < plan.instr_counts[i + 1] => Filled(plan, i, j)'
    <3>. SUFFICES ASSUME NEW i \in Nat, NEW j \in Nat, i < k + 1, j < plan.instr_counts[i + 1]
                  PROVE  Filled(plan, i, j)
      BY <2>5
    <3>1. i = k \/ i < k
      BY <1>1
    <3>. QED
      BY <2>4, <3>1 DEF ReportInv
  <2>7. plan.tids[(k + 1) + 1] = plan.tids[k + 2]
    BY <1>1
  <2>. QED
    BY <1>1, <2>1, <2>2, <2>3, <2>6, <2>7 DEF ReportInv
<1>7. CASE DataAbort
  <2>1. UNCHANGED <<text, shared_memory, schedule, cur_thread, kpc>> /\ kpc = "user" /\ armed
    BY <1>7 DEF DataAbort, threadVars
  <2>2. CASE ~ CountsHere
    <3>1. UNCHANGED <<ctx_switch_status, report>>
      BY <1>7, <2>2 DEF DataAbort
    <3>2. Active' => Active /\ Reported' = Reported
      BY <2>1, <3>1 DEF Active, n_ctx_switches, Reported
    <3>. QED
      BY <2>1, <3>1, <3>2, ReportStays DEF ReportInv
  <2>3. CASE CountsHere
    <3>1. /\ Active /\ Here \cap shared_memory # {}
          /\ ctx_switch_status' = [ctx_switch_status EXCEPT !.do_instr_count = 1]
          /\ report' = [report EXCEPT ![<<k, n>>] = cpu.pc]
      BY <1>7, <2>3 DEF DataAbort, CountsHere
    <3>2. ctx_switch_status.do_instr_count = 0
      BY <1>1, <1>7, <2>1 DEF DataAbort, RunOK, ThreadsInv, TrackerInv, InstructionStart
    <3>3. /\ ctx_switch_status'.ctx_switch = k /\ ctx_switch_status'.instr_count = n
          /\ Reported' = n + 1 /\ Reported = n
      <4>1. ctx_switch_status \in Statuses
        BY DEF RunOK, ThreadsInv, TypeOK
      <4>. QED
        BY <1>1, <3>1, <3>2, <4>1 DEF Reported, Statuses
    <3>4. cur_thread = plan.tids[k + 1] /\ cpu.pc \in Pcs(text[cur_thread])
      BY <2>1, <3>1 DEF ReportInv, RunOK, ThreadsInv, ControlInv
    <3>5. \A i, j \in Nat : <<i, j>> \in Cells(plan) /\ <<i, j>> # <<k, n>>
                              => report'[<<i, j>>] = report[<<i, j>>]
      BY <1>1, <3>1
    <3>6. report'[<<k, n>>] = cpu.pc
      BY <1>1, <3>1
    <3>7. Filled(plan, k, n)'
      BY <2>1, <3>1, <3>4, <3>6 DEF Filled, Here
    <3>8. ASSUME NEW i \in Nat, NEW j \in Nat, i < Len(plan.instr_counts),
                 j < plan.instr_counts[i + 1], Filled(plan, i, j)
          PROVE  Filled(plan, i, j)'
      <4>1. CASE i = k /\ j = n
        BY <3>3, <3>7, <4>1
      <4>2. CASE ~ (i = k /\ j = n)
        <5>1. <<i, j>> \in Cells(plan) /\ <<i, j>> # <<k, n>>
          BY <3>8, <4>2, CellFacts
        <5>2. report'[<<i, j>>] = report[<<i, j>>]
          BY <3>5, <5>1
        <5>. QED
          BY <2>1, <3>8, <5>2 DEF Filled
      <4>. QED
        BY <4>1, <4>2
    <3>9. \A i, j \in Nat : i < k /\ j < plan.instr_counts[i + 1] => Filled(plan, i, j)'
      <4>. SUFFICES ASSUME NEW i \in Nat, NEW j \in Nat, i < k, j < plan.instr_counts[i + 1]
                    PROVE  Filled(plan, i, j)'
        OBVIOUS
      <4>1. Filled(plan, i, j)
        BY DEF ReportInv
      <4>2. i < Len(plan.instr_counts)
        <5>1. Len(plan.instr_counts) \in Nat
          BY DEF IsSchedule, ScheduleShape
        <5>. QED
          BY <1>1, <5>1
      <4>. QED
        BY <3>8, <4>1, <4>2
    <3>10. \A j \in Nat : j < n + 1 => Filled(plan, k, j)'
      <4>. SUFFICES ASSUME NEW j \in Nat, j < n + 1 PROVE Filled(plan, k, j)'
        OBVIOUS
      <4>1. CASE j = n
        BY <3>3, <3>7, <4>1
      <4>2. CASE j < n
        <5>1. Filled(plan, k, j)
          BY <3>1, <3>3, <4>2 DEF ReportInv
        <5>. QED
          BY <1>1, <3>1, <3>3, <3>8, <4>2, <5>1
      <4>. QED
        BY <1>1, <4>1, <4>2
    <3>11. Active' => Active
      BY <3>1
    <3>. QED
      BY <2>1, <3>3, <3>4, <3>9, <3>10 DEF ReportInv
  <2>. QED
    BY <2>2, <2>3
<1>8. CASE SysPutc \/ SysYield \/ SysExit
  <2>1. /\ UNCHANGED <<text, report, shared_memory>>
        /\ ctx_switch_status'.ctx_switch = k
        /\ kpc' \in {"user", "stopped", "panic"} /\ kpc = "user"
    <3>1. ctx_switch_status \in Statuses
      BY DEF RunOK, ThreadsInv, TypeOK
    <3>. QED
      BY <1>8, <3>1 DEF SysPutc, SysYield, SysExit, Swi, RunThread, Statuses
  <2>2. Active' => Active /\ kpc' = "panic" /\ Reported' = Reported
    BY <1>8 DEF SysPutc, SysYield, SysExit, Swi, Active, n_ctx_switches, Reported
  <2>. QED
    BY <2>1, <2>2, ReportStays DEF ReportInv
<1>. QED
  BY <1>3, <1>4, <1>5, <1>6, <1>7, <1>8 DEF Next, KernelStep, UserStep, Syscall

\* Functions without loops.
Forward(f) == \A i \in DOMAIN f : f[i].op \in {"b", "bz"} => f[i].a > i

\* In such functions the cells of a segment ascend; the last one is before
\* the next instruction, or of it.
AscInv(plan) ==
  LET k == ctx_switch_status.ctx_switch  last == report[<<k, Reported - 1>>] IN
  /\ \A t \in Tids : Forward(text[t])
  /\ \A i, j \in Nat : i < k /\ 0 < j /\ j < plan.instr_counts[i + 1]
                         => report[<<i, j - 1>>] < report[<<i, j>>]
  /\ Active => \A j \in Nat : 0 < j /\ j < Reported => report[<<k, j - 1>>] < report[<<k, j>>]
  /\ Active /\ kpc \in {"start", "retrieve"} => Reported = 0
  /\ Active /\ kpc = "user" /\ 0 < Reported =>
       IF ctx_switch_status.do_instr_count = 1 /\ cpu.pc = bvr THEN last = cpu.pc ELSE last < cpu.pc

\* The code behind a function accesses nothing.
LEMMA OnlyRuntimeBehind ==
  ASSUME NEW f \in Functions, NEW pc \in Pcs(f), Instr(f, pc).op \in {"ld", "st"}
  PROVE  pc <= Len(f)
<1>1. Instr(f, pc).op \notin Syscalls /\ Instr(f, pc).op # "bx_lr"
  BY DEF Syscalls
<1>. QED
  BY <1>1, InstrFacts

\* An instruction of such a function is followed by a later one; only the
\* end of sys_equiv_putc goes back, to sys_equiv_exit.
LEMMA ForwardFacts ==
  ASSUME NEW f \in Functions, Forward(f), NEW r \in Regs, r.pc \in Pcs(f), NEW m,
         Instr(f, r.pc).op \notin Syscalls,
         NEW last \in Pcs(f), Touched(f, last) # {}, last <= r.pc
  PROVE  last < NextRegs(f, r, m).pc
<1>. DEFINE i == Instr(f, r.pc)
<1>1. f \in Seq(Instructions) /\ Len(f) \in Nat /\ Pcs(f) = 1..(Len(f) + 4) /\ DOMAIN f = 1..Len(f)
  BY DEF Functions, Pcs, Runtime
<1>2. Instr(f, last).op \in {"ld", "st"}
  BY DEF Touched
<1>3. last \in 1..Len(f)
  BY <1>1, <1>2, OnlyRuntimeBehind
<1>4. CASE i.op = "bx_lr"
  <2>1. NextRegs(f, r, m).pc = Len(f) + 1
    BY <1>4 DEF NextRegs, NextPc, ExitPc
  <2>. QED
    BY <1>1, <1>3, <2>1
<1>5. CASE i.op # "bx_lr"
  <2>1. r.pc \in 1..Len(f) /\ i = f[r.pc]
    BY <1>1, <1>5, InstrFacts DEF Instr
  <2>2. CASE Taken(i, r)
    <3>1. NextRegs(f, r, m).pc = i.a
      BY <1>5, <2>2 DEF NextRegs, NextPc
    <3>2. i.a > r.pc /\ i.a \in Nat
      <4>1. i.op \in {"b", "bz"}
        BY <2>2 DEF Taken
      <4>2. i.a \in (1..(Len(f)+1)) \ {r.pc}
        BY <4>1, InstrFacts
      <4>. QED
        BY <1>1, <2>1, <4>1, <4>2 DEF Forward
    <3>. QED
      BY <1>1, <1>3, <2>1, <3>1, <3>2
  <2>3. CASE ~ Taken(i, r)
    <3>1. NextRegs(f, r, m).pc = r.pc + 1
      BY <1>5, <2>3 DEF NextRegs, NextPc
    <3>. QED
      BY <1>1, <1>3, <2>1, <3>1
  <2>. QED
    BY <2>2, <2>3
<1>. QED
  BY <1>4, <1>5

\* In code without loops the cells of a segment are filled from lower to
\* higher addresses.
LEMMA AscStep ==
  ASSUME NEW plan, IsSchedule(plan), RunOK(plan), ReportInv(plan), AscInv(plan), Next
  PROVE  AscInv(plan)'
<1>. DEFINE k == ctx_switch_status.ctx_switch
            n == ctx_switch_status.instr_count
            do == ctx_switch_status.do_instr_count
<1>1. /\ k \in Nat /\ n \in Nat /\ do \in {0, 1} /\ Reported = n + do
      /\ \A i \in Nat : i < k => plan.instr_counts[i + 1] \in Nat
      /\ Active => /\ schedule = plan /\ DOMAIN report = Cells(plan)
                   /\ k < Len(plan.instr_counts) /\ plan.instr_counts[k + 1] \in Nat
                   /\ n < plan.instr_counts[k + 1]
                   /\ <<k, n>> \in Cells(plan)
  BY RunFacts DEF Reported
<1>2. /\ ctx_switch_status \in Statuses /\ schedule \in {plan, NoSchedule}
      /\ CountPendingOnlyWhenActive /\ cpu \in Regs /\ k <= Len(plan.instr_counts)
      /\ Len(plan.instr_counts) \in Nat
  BY DEF RunOK, ThreadsInv, TypeOK, IsSchedule, ScheduleShape
<1>3. UNCHANGED <<text, shared_memory>>
  BY DEF Next, KernelStep, EquivRun, Rotate, EnterFirst, SwitchTo,
         UserStep, StepOnly, StepCount, StepSwitch, MismatchFault, DataAbort, Commit,
         Syscall, SysPutc, SysYield, SysExit, Swi, schedVars
<1>4. CASE \/ EquivRun \/ Rotate \/ EnterFirst \/ SwitchTo
           \/ SysPutc \/ SysYield \/ SysExit
  <2>1. UNCHANGED report /\ ctx_switch_status'.ctx_switch = k
    BY <1>2, <1>4 DEF EquivRun, Rotate, EnterFirst, SwitchTo, SysPutc, SysYield, SysExit, Swi,
       schedVars, Statuses
  <2>2. Active' => Active /\ UNCHANGED ctx_switch_status
    BY <1>4 DEF EquivRun, Rotate, EnterFirst, SwitchTo, SysPutc, SysYield, SysExit, Swi,
       schedVars, Active, n_ctx_switches
  <2>3. Active' => kpc' = "panic" \/ Reported' = 0
    <3>1. Active' => kpc' = "panic" \/ kpc \in {"start", "retrieve"}
      BY <1>4, <2>2 DEF EquivRun, Rotate, EnterFirst, SwitchTo, SysPutc, SysYield, SysExit, Active
    <3>. QED
      BY <2>2, <3>1 DEF AscInv, Reported
  <2>4. Active' => Reported' = Reported
    BY <2>2 DEF Reported
  <2>. QED
    BY <1>3, <2>1, <2>2, <2>3, <2>4 DEF AscInv
<1>5. CASE StepOnly \/ StepCount
  <2>1. /\ UNCHANGED <<report, schedule, cpu>> /\ kpc = "user" /\ kpc' = "user" /\ cpu.pc # bvr
        /\ ctx_switch_status'.ctx_switch = k /\ Reported' = Reported
        /\ ctx_switch_status'.do_instr_count = 0
    BY <1>1, <1>2, <1>5 DEF StepOnly, StepCount, MismatchFault, Settled, Counted, Reported
  <2>2. Active' => Active
    BY <2>1 DEF Active, n_ctx_switches
  <2>. QED
    BY <1>3, <2>1, <2>2 DEF AscInv
<1>6. CASE Commit
  <2>1. /\ UNCHANGED <<report, schedule, ctx_switch_status, cur_thread, bvr>>
        /\ kpc = "user" /\ kpc' = "user" /\ cpu.pc = bvr
        /\ cpu' = NextRegs(text[cur_thread], cpu, mem)
        /\ Instr(text[cur_thread], cpu.pc).op \notin Syscalls
    BY <1>6 DEF Commit, schedVars, At
  <2>2. Active' = Active /\ Reported' = Reported
    BY <2>1 DEF Active, n_ctx_switches, Reported
  <2>3. /\ cur_thread \in Tids /\ text[cur_thread] \in Functions /\ mem \in [Addrs -> Words]
        /\ cpu.pc \in Pcs(text[cur_thread])
    BY <2>1 DEF RunOK, ThreadsInv, TypeOK, ControlInv
  <2>4. cpu'.pc # bvr
    BY <1>2, <2>1, <2>3, CommitFacts
  <2>5. ASSUME Active, 0 < Reported PROVE report[<<k, Reported - 1>>] < cpu'.pc
    <3>. DEFINE last == report[<<k, Reported - 1>>]
    <3>1. Reported - 1 \in Nat /\ Reported - 1 < Reported
      BY <1>1, <2>5
    <3>2. Filled(plan, k, Reported - 1) /\ cur_thread = plan.tids[k + 1]
      BY <2>1, <2>5, <3>1 DEF ReportInv
    <3>3. last \in Pcs(text[cur_thread]) /\ Touched(text[cur_thread], last) # {}
      BY <3>2 DEF Filled
    <3>4. last = cpu.pc \/ last < cpu.pc
      BY <2>1, <2>5 DEF AscInv
    <3>5. last <= cpu.pc
      BY <2>3, <3>3, <3>4 DEF Pcs, Functions, Runtime
    <3>6. Forward(text[cur_thread])
      BY <2>3 DEF AscInv
    <3>. QED
      BY <1>2, <2>1, <2>3, <3>3, <3>5, <3>6, ForwardFacts
  <2>. QED
    BY <1>3, <2>1, <2>2, <2>4, <2>5 DEF AscInv
<1>7. CASE StepSwitch
  <2>1. /\ UNCHANGED <<report, schedule>>
        /\ ctx_switch_status' = Settled(k + 1, 0)
        /\ do = 1 /\ n + 1 >= SegmentLength /\ kpc' \in {"null", "retrieve"}
    BY <1>7 DEF StepSwitch, MismatchFault, Retrieve, Counted
  <2>2. Active
    BY <1>2, <2>1 DEF CountPendingOnlyWhenActive
  <2>3. ctx_switch_status'.ctx_switch = k + 1 /\ Reported' = 0
    BY <2>1 DEF Settled, Reported
  <2>4. \A j \in Nat : 0 < j /\ j < plan.instr_counts[k + 1] =>
          report[<<k, j - 1>>] < report[<<k, j>>]
    BY <1>1, <2>1, <2>2 DEF AscInv, SegmentLength
  <2>5. \A i \in Nat : i < k + 1 <=> i < k \/ i = k
    BY <1>1
  <2>. QED
    BY <1>3, <2>1, <2>3, <2>4, <2>5 DEF AscInv
<1>8. CASE DataAbort
  <2>1. UNCHANGED <<schedule, cpu, bvr, kpc>> /\ kpc = "user" /\ armed /\ cpu.pc = bvr
    BY <1>8 DEF DataAbort, threadVars
  <2>2. CASE ~ CountsHere
    <3>1. UNCHANGED <<ctx_switch_status, report>>
      BY <1>8, <2>2 DEF DataAbort
    <3>. QED
      BY <1>3, <2>1, <3>1 DEF AscInv, Active, n_ctx_switches, Reported
  <2>3. CASE CountsHere
    <3>1. /\ Active
          /\ ctx_switch_status' = [ctx_switch_status EXCEPT !.do_instr_count = 1]
          /\ report' = [report EXCEPT ![<<k, n>>] = cpu.pc]
      BY <1>8, <2>3 DEF DataAbort, CountsHere
    <3>2. do = 0
      BY <1>1, <2>1 DEF RunOK, ThreadsInv, TrackerInv, InstructionStart
    <3>3. /\ ctx_switch_status'.ctx_switch = k /\ ctx_switch_status'.do_instr_count = 1
          /\ Reported' = n + 1 /\ Reported = n
      BY <1>1, <1>2, <3>1, <3>2 DEF Reported, Statuses
    <3>4. /\ \A i, j \in Nat : <<i, j>> \in Cells(plan) /\ ~ (i = k /\ j = n)
                                 => report'[<<i, j>>] = report[<<i, j>>]
          /\ report'[<<k, n>>] = cpu.pc
      BY <1>1, <3>1
    <3>5. ASSUME NEW i \in Nat, NEW j \in Nat, i < Len(plan.instr_counts), 0 < j,
                 j < plan.instr_counts[i + 1], ~ (i = k /\ j >= n)
          PROVE  report'[<<i, j>>] = report[<<i, j>>] /\ report'[<<i, j - 1>>] = report[<<i, j - 1>>]
      <4>1. plan.instr_counts[i + 1] \in Nat /\ j - 1 \in Nat
        BY <3>5 DEF IsSchedule, ScheduleShape
      <4>2. j - 1 < plan.instr_counts[i + 1]
        BY <3>5, <4>1
      <4>3. <<i, j>> \in Cells(plan) /\ <<i, j - 1>> \in Cells(plan)
        BY <3>5, <4>1, <4>2, CellFacts
      <4>4. ~ (i = k /\ j = n) /\ ~ (i = k /\ j - 1 = n)
        BY <1>1, <3>5
      <4>. QED
        BY <3>4, <4>1, <4>3, <4>4
    <3>6. \A i, j \in Nat : i < k /\ 0 < j /\ j < plan.instr_counts[i + 1]
                              => report'[<<i, j - 1>>] < report'[<<i, j>>]
      <4>. SUFFICES ASSUME NEW i \in Nat, NEW j \in Nat, i < k, 0 < j, j < plan.instr_counts[i + 1]
                    PROVE  report'[<<i, j - 1>>] < report'[<<i, j>>]
        OBVIOUS
      <4>1. i < Len(plan.instr_counts) /\ i # k
        BY <1>1, <1>2
      <4>2. report[<<i, j - 1>>] < report[<<i, j>>]
        BY DEF AscInv
      <4>. QED
        BY <3>5, <4>1, <4>2
    <3>7. \A j \in Nat : 0 < j /\ j < n + 1 => report'[<<k, j - 1>>] < report'[<<k, j>>]
      <4>. SUFFICES ASSUME NEW j \in Nat, 0 < j, j < n + 1
                    PROVE  report'[<<k, j - 1>>] < report'[<<k, j>>]
        OBVIOUS
      <4>1. CASE j = n
        <5>1. 0 < n /\ n - 1 \in Nat /\ n - 1 < plan.instr_counts[k + 1]
          BY <1>1, <3>1, <4>1
        <5>2. <<k, n - 1>> \in Cells(plan)
          BY <1>1, <3>1, <5>1, CellFacts
        <5>3. report'[<<k, n - 1>>] = report[<<k, n - 1>>]
          BY <1>1, <3>4, <5>1, <5>2
        <5>4. report[<<k, n - 1>>] < cpu.pc
          BY <2>1, <3>1, <3>2, <3>3, <5>1 DEF AscInv
        <5>. QED
          BY <3>4, <4>1, <5>3, <5>4
      <4>2. CASE j < n
        <5>1. report[<<k, j - 1>>] < report[<<k, j>>]
          BY <3>1, <3>3, <4>2 DEF AscInv
        <5>2. j < plan.instr_counts[k + 1] /\ ~ (j >= n)
          BY <1>1, <3>1, <4>2
        <5>. QED
          BY <1>1, <3>1, <3>5, <5>1, <5>2
      <4>. QED
        BY <1>1, <4>1, <4>2
    <3>8. report'[<<k, Reported' - 1>>] = cpu'.pc
      BY <1>1, <2>1, <3>3, <3>4
    <3>. QED
      BY <1>3, <2>1, <3>3, <3>6, <3>7, <3>8 DEF AscInv
  <2>. QED
    BY <2>2, <2>3
<1>. QED
  BY <1>4, <1>5, <1>6, <1>7, <1>8 DEF Next, KernelStep, UserStep, Syscall

\* The run that goes on is that of the current schedule, and its report is
\* filled with accesses to what the caller shares.
PrintInv ==
  ipc = "running" => IsSchedule(PlanNow) /\ ReportInv(PlanNow) /\ shared_memory = shared

AscendInv ==
  /\ \A t \in Tids : Forward(text[t])
  /\ ipc = "running" => AscInv(PlanNow)

\* A step of equiv_run keeps the report as it is to be printed ...
LEMMA RunPrints ==
  ASSUME ILInv, ILInv', PrintInv, Run
  PROVE  PrintInv' /\ (AscendInv => AscendInv')
<1>1. PICK plan : plan = PlanNow
  OBVIOUS
<1>2. plan = PlanNow' /\ UNCHANGED <<tids, instr_nums, ipc, shared>> /\ ipc = "running" /\ Next
  BY <1>1 DEF Run, ileavVars, PlanNow
<1>3. IsSchedule(plan) /\ RunOK(plan) /\ ReportInv(plan)
  BY <1>1, <1>2 DEF ILInv, PrintInv
<1>4. RunOK(plan)'
  BY <1>2, <1>3, RunGoes
<1>5. ReportInv(plan)'
  BY <1>2, <1>3, <1>4, ReportStep
<1>6. AscInv(plan) => AscInv(plan)'
  BY <1>2, <1>3, AscStep
<1>7. UNCHANGED <<text, shared_memory>>
  BY <1>2 DEF Next, KernelStep, EquivRun, Rotate, EnterFirst, SwitchTo,
         UserStep, StepOnly, StepCount, StepSwitch, MismatchFault, DataAbort, Commit,
         Syscall, SysPutc, SysYield, SysExit, Swi, schedVars
<1>8. PrintInv'
  <2>1. ReportInv(PlanNow)'
    BY <1>2, <1>5 DEF ReportInv, Filled
  <2>. QED
    BY <1>2, <1>3, <1>7, <2>1 DEF PrintInv
<1>9. AscendInv => AscendInv'
  <2>. SUFFICES ASSUME AscendInv PROVE AscendInv'
    OBVIOUS
  <2>1. AscInv(plan)'
    BY <1>1, <1>2, <1>6 DEF AscendInv
  <2>2. AscInv(PlanNow)'
    BY <1>2, <2>1 DEF AscInv
  <2>. QED
    BY <1>7, <2>2 DEF AscendInv
<1>. QED
  BY <1>8, <1>9

\* ... and so does every step of run_interleavings ...
LEMMA PrintSteps ==
  ASSUME ILInv, ILInv', PrintInv, [ILNext]_allVars
  PROVE  PrintInv' /\ (AscendInv => AscendInv')
<1>1. CASE Call \/ NextTid \/ FinishRun
  BY <1>1 DEF Call, NextTid, FinishRun, PrintInv, AscendInv, vars
<1>2. CASE StartRun
  <2>1. /\ tids \in [1..(ncs + 1) -> Tids] /\ instr_nums \in [1..ncs -> Nat \ {0}]
        /\ ncs \in Nat \ {0} /\ ncs + 1 \in Nat
    BY <1>2, SwitchesFacts DEF ILInv, StartRun
  <2>2. IsSchedule(PlanNow) /\ PlanNow' = PlanNow
    <3>1. /\ tids \in Seq(Tids) /\ Len(tids) = ncs + 1
          /\ instr_nums \in Seq(Nat \ {0}) /\ Len(instr_nums) = ncs
      BY <2>1, FunctionIsSeq
    <3>. QED
      BY <1>2, <2>1, <3>1 DEF IsSchedule, ScheduleShape, PlanNow, StartRun
  <2>3. /\ kpc' = "start" /\ ctx_switch_status' = ResetStatus /\ shared_memory' = shared'
        /\ text' = text
    BY <1>2 DEF StartRun
  <2>4. ReportInv(PlanNow)'
    BY <2>3 DEF ReportInv, ResetStatus, Reported
  <2>5. (\A t \in Tids : Forward(text[t])) => AscInv(PlanNow)'
    BY <2>3 DEF AscInv, ResetStatus, Reported
  <2>. QED
    BY <2>2, <2>3, <2>4, <2>5 DEF PrintInv, AscendInv
<1>3. CASE Run
  BY <1>3, RunPrints
<1>4. CASE UNCHANGED allVars
  <2>1. UNCHANGED <<text, cur_thread, cpu, bvr, schedule, shared_memory, ctx_switch_status, report,
                    kpc, loop, ileavVars>>
    BY <1>4 DEF allVars, vars, threadVars, schedVars
  <2>2. ReportInv(PlanNow) => ReportInv(PlanNow)'
    BY <2>1 DEF ReportInv, Filled, Active, n_ctx_switches, Reported, PlanNow, ileavVars
  <2>3. AscInv(PlanNow) => AscInv(PlanNow)'
    BY <2>1 DEF AscInv, Active, n_ctx_switches, Reported, PlanNow, ileavVars
  <2>. QED
    BY <2>1, <2>2, <2>3 DEF PrintInv, AscendInv, PlanNow, ileavVars
<1>. QED
  BY <1>1, <1>2, <1>3, <1>4 DEF ILNext

CheckerPrintInv == cpc \in {"calls", "done"} => PrintInv

\* ... and of equiv_checker_run.
LEMMA CheckerPrints ==
  ASSUME CheckerInv, CheckerInv', CheckerPrintInv, [CheckerNext]_everyVar
  PROVE  CheckerPrintInv'
<1>1. CASE Interleavings
  BY <1>1, PrintSteps DEF Interleavings, checkerVars, CheckerInv, CheckerPrintInv
<1>2. CASE FirstCall \/ NextCall
  BY <1>2 DEF FirstCall, NextCall, CheckerPrintInv, PrintInv
<1>3. CASE UNCHANGED everyVar
  <2>1. UNCHANGED allVars /\ cpc' = cpc
    BY <1>3 DEF everyVar, checkerVars
  <2>. QED
    BY <2>1, PrintSteps DEF CheckerPrintInv, CheckerInv
<1>4. CASE \/ FindRwSet \/ RunFunction \/ FoundRwSet \/ FindSharedMemory
           \/ SerialCall \/ SerialStep \/ SerialReturn
  BY <1>4 DEF FindRwSet, RunFunction, FoundRwSet, FindSharedMemory, SerialCall, SerialStep,
     SerialReturn, checkerVars, CheckerPrintInv
<1>. QED
  BY <1>1, <1>2, <1>3, <1>4 DEF CheckerNext

\* The report of a run that made all its switches has no empty cell, and each
\* cell holds the address of a shared access of its segment's function.
ReportIsFull ==
  ipc = "running" /\ kpc = "stopped" /\ ctx_switch_status.ctx_switch = ncs =>
    \A i \in 1..ncs : \A j \in 1..instr_nums[i] :
      LET code == text[tids[i]]  cell == report[<<i - 1, j - 1>>] IN
      cell \in Pcs(code) /\ Touched(code, cell) \cap shared # {}

\* When the report is printed every cell was written.
LEMMA PrintedIsFull == ASSUME CheckerInv, CheckerPrintInv PROVE ReportIsFull
<1>. SUFFICES ASSUME ipc = "running", ctx_switch_status.ctx_switch = ncs,
                     NEW i \in 1..ncs, NEW j \in 1..instr_nums[i]
              PROVE  LET code == text[tids[i]]  cell == report[<<i - 1, j - 1>>] IN
                     cell \in Pcs(code) /\ Touched(code, cell) \cap shared # {}
  BY DEF ReportIsFull
<1>1. cpc \in {"calls", "done"}
  BY DEF CheckerInv, FindInv
<1>2. /\ instr_nums \in [1..ncs -> Nat \ {0}] /\ ncs \in Nat
      /\ ReportInv(PlanNow) /\ shared_memory = shared
  BY <1>1, SwitchesFacts DEF CheckerInv, CheckerPrintInv, ILInv, PrintInv
<1>3. instr_nums[i] \in Nat
  BY <1>2
<1>4. i - 1 \in Nat /\ j - 1 \in Nat /\ i - 1 < ncs /\ j - 1 < instr_nums[i] /\ (i - 1) + 1 = i
  BY <1>2, <1>3
<1>5. Filled(PlanNow, i - 1, j - 1)
  BY <1>2, <1>4 DEF ReportInv, PlanNow
<1>. QED
  BY <1>2, <1>4, <1>5 DEF Filled, PlanNow

\* At any time of any run of the checker the cells counted so far are filled.
THEOREM PrintInvariant == CheckerSpec => []CheckerPrintInv
<1>1. CheckerInit => CheckerPrintInv
  BY DEF CheckerInit, CheckerPrintInv
<1>2. CheckerInv /\ CheckerInv' /\ CheckerPrintInv /\ [CheckerNext]_everyVar => CheckerPrintInv'
  BY CheckerPrints
<1>. QED
  BY <1>1, <1>2, CheckerInvariant, PTL DEF CheckerSpec

\* A run that got through its schedule prints a report of which every cell
\* holds a shared access of the thread it names, whatever the functions.
THEOREM ReportsAreFull == CheckerSpec => []ReportIsFull
<1>1. CheckerInv /\ CheckerPrintInv => ReportIsFull
  BY PrintedIsFull
<1>. QED
  BY <1>1, CheckerInvariant, PrintInvariant, PTL

CheckerAscendInv ==
  /\ \A t \in Tids : Forward(executables[t])
  /\ cpc \in {"calls", "done"} => AscendInv

\* The functions never change, and every step of the checker keeps the cells
\* ascending.
LEMMA CheckerAscends ==
  ASSUME CheckerInv, CheckerInv', CheckerPrintInv, CheckerAscendInv, [CheckerNext]_everyVar
  PROVE  CheckerAscendInv'
<1>. USE DEF givenVars
<1>1. CASE Interleavings
  <2>1. cpc = "calls" /\ UNCHANGED checkerVars /\ [ILNext]_allVars
    BY <1>1 DEF Interleavings
  <2>2. ILInv /\ ILInv' /\ PrintInv /\ AscendInv
    BY <2>1 DEF CheckerInv, checkerVars, CheckerPrintInv, CheckerAscendInv
  <2>3. AscendInv'
    BY <2>1, <2>2, PrintSteps
  <2>. QED
    BY <2>1, <2>3 DEF CheckerAscendInv, checkerVars
<1>2. CASE FirstCall
  BY <1>2 DEF FirstCall, CheckerAscendInv, AscendInv
<1>3. CASE NextCall
  BY <1>3 DEF NextCall, CheckerAscendInv, AscendInv, vars
<1>4. CASE UNCHANGED everyVar
  <2>1. UNCHANGED allVars /\ UNCHANGED checkerVars
    BY <1>4 DEF everyVar
  <2>2. cpc \in {"calls", "done"} => AscendInv'
    BY <2>1, PrintSteps DEF CheckerInv, checkerVars, CheckerPrintInv, CheckerAscendInv
  <2>. QED
    BY <2>1, <2>2 DEF CheckerAscendInv, checkerVars
<1>5. CASE \/ FindRwSet \/ RunFunction \/ FoundRwSet \/ FindSharedMemory
           \/ SerialCall \/ SerialStep \/ SerialReturn
  BY <1>5 DEF FindRwSet, RunFunction, FoundRwSet, FindSharedMemory, SerialCall, SerialStep,
     SerialReturn, checkerVars, CheckerAscendInv
<1>. QED
  BY <1>1, <1>2, <1>3, <1>4, <1>5 DEF CheckerNext

\* For functions without loops the cells are in program order as well: the
\* report tells the run.
THEOREM ReportsTellTheRun ==
  ASSUME \A p \in Programs : \A t \in Tids : Forward(p[t])
  PROVE  CheckerSpec => []ReportTellsTheRun
<1>1. CheckerInit => CheckerAscendInv
  BY DEF CheckerInit, Fresh, CheckerAscendInv
<1>2. CheckerInv /\ CheckerInv' /\ CheckerPrintInv /\ CheckerAscendInv /\ [CheckerNext]_everyVar
        => CheckerAscendInv'
  BY CheckerAscends
<1>3. CheckerInv /\ CheckerPrintInv /\ CheckerAscendInv => ReportTellsTheRun
  <2>. SUFFICES ASSUME CheckerInv, CheckerPrintInv, CheckerAscendInv,
                       ipc = "running", kpc = "stopped", ctx_switch_status.ctx_switch = ncs,
                       NEW i \in 1..ncs, NEW j \in 1..instr_nums[i]
                PROVE  LET code == text[tids[i]]  cell == report[<<i - 1, j - 1>>] IN
                       /\ cell \in Pcs(code) /\ Touched(code, cell) \cap shared # {}
                       /\ j > 1 => report[<<i - 1, j - 2>>] < cell
    BY DEF ReportTellsTheRun
  <2>1. cpc \in {"calls", "done"}
    BY DEF CheckerInv, FindInv
  <2>2. /\ instr_nums \in [1..ncs -> Nat \ {0}] /\ ncs \in Nat /\ AscInv(PlanNow)
    BY <2>1, SwitchesFacts DEF CheckerInv, CheckerAscendInv, ILInv, AscendInv
  <2>3. instr_nums[i] \in Nat
    BY <2>2
  <2>4. ASSUME j > 1 PROVE report[<<i - 1, j - 2>>] < report[<<i - 1, j - 1>>]
    <3>1. /\ i - 1 \in Nat /\ j - 1 \in Nat /\ i - 1 < ncs /\ 0 < j - 1
          /\ j - 1 < instr_nums[i] /\ (i - 1) + 1 = i /\ (j - 1) - 1 = j - 2
      BY <2>2, <2>3, <2>4
    <3>2. PlanNow.instr_counts[(i - 1) + 1] = instr_nums[i]
      BY <3>1 DEF PlanNow
    <3>3. report[<<i - 1, (j - 1) - 1>>] < report[<<i - 1, j - 1>>]
      BY <2>2, <3>1, <3>2 DEF AscInv
    <3>. QED
      BY <3>1, <3>3
  <2>. QED
    BY <2>4, PrintedIsFull DEF ReportIsFull
<1>. QED
  BY <1>1, <1>2, <1>3, CheckerInvariant, PrintInvariant, PTL DEF CheckerSpec

-----------------------------------------------------------------------------
(***************************************************************************)
(* What find_rw_set finds.                                                 *)
(***************************************************************************)
\* r is what f does when it runs alone on the memory m, for n instructions
\* or to its end.
Executes(f, m, n, r) ==
  r = [k \in 0..n |-> IF k = 0 THEN [regs |-> InitRegs, mem |-> m] ELSE Executed(f, r[k-1])]

\* There is such an execution: it can be made one instruction longer.
LEMMA ExecutionExists ==
  ASSUME NEW f, NEW m, NEW n \in Nat
  PROVE  \E r : Executes(f, m, n, r)
<1>. USE DEF Executes
<1>. DEFINE start == [regs |-> InitRegs, mem |-> m]
            Upto(r, l) == r = [k \in 0..l |-> IF k = 0 THEN start ELSE Executed(f, r[k-1])]
            T == {l \in Nat : ~ \E r : Upto(r, l)}
<1>1. SUFFICES ASSUME T # {} PROVE FALSE
  OBVIOUS
<1>2. PICK l \in T : \A j \in T : l <= j
  BY <1>1, NatHasLeast
<1>3. l # 0
  <2>. SUFFICES \E r : Upto(r, 0)
    OBVIOUS
  <2>1. PICK r : r = [k \in 0..0 |-> start]
    OBVIOUS
  <2>2. r = [k \in 0..0 |-> IF k = 0 THEN start ELSE Executed(f, r[k-1])]
    BY <2>1
  <2>. QED
    BY <2>2
<1>4. PICK r : Upto(r, l - 1)
  <2>1. l - 1 \in Nat /\ ~ (l <= l - 1)
    BY <1>3
  <2>. QED
    BY <1>2, <2>1
<1>5. PICK s : s = [k \in 0..l |-> IF k = l THEN Executed(f, r[l-1]) ELSE r[k]]
  OBVIOUS
<1>6. \A k \in 0..(l-1) : s[k] = r[k]
  BY <1>5
<1>7. ASSUME NEW k \in 0..l
      PROVE  s[k] = IF k = 0 THEN start ELSE Executed(f, s[k-1])
  <2>. HIDE DEF start
  <2>1. CASE k = l
    <3>1. s[k] = Executed(f, r[l-1]) /\ l - 1 \in 0..(l-1)
      BY <1>3, <1>5, <2>1
    <3>. QED
      BY <1>3, <1>6, <2>1, <3>1
  <2>2. CASE k # l
    <3>1. k \in 0..(l-1) /\ (k # 0 => k - 1 \in 0..(l-1))
      BY <2>2
    <3>2. r[k] = IF k = 0 THEN start ELSE Executed(f, r[k-1])
      BY <1>4, <3>1
    <3>. QED
      BY <1>6, <3>1, <3>2
  <2>. QED
    BY <2>1, <2>2
<1>8. Upto(s, l)
  <2>1. s = [k \in 0..l |-> s[k]]
    BY <1>5
  <2>. QED
    BY <1>7, <2>1
<1>. QED
  BY <1>2, <1>8

\* Execution is such an execution.
LEMMA ExecutionIs ==
  ASSUME NEW f \in Functions, NEW m
  PROVE  Executes(f, m, Len(f), Execution(f, m))
<1>1. Len(f) \in Nat
  BY DEF Functions
<1>2. \E r : Executes(f, m, Len(f), r)
  BY <1>1, ExecutionExists
<1>3. Execution(f, m) = CHOOSE r : Executes(f, m, Len(f), r)
  BY DEF Execution, Executes
<1>. QED
  BY <1>2, <1>3, Zenon

\* The same for the memories that the functions find.
LEMMA MemBeforeIs ==
  MemBefore = [i \in Tids |-> IF i = 1 THEN InitMem ELSE RunAlone(executables[i-1], MemBefore[i-1])]
<1>. DEFINE Upto(r, l) ==
              r = [i \in 1..l |-> IF i = 1 THEN InitMem ELSE RunAlone(executables[i-1], r[i-1])]
            T == {l \in Nat : ~ \E r : Upto(r, l)}
<1>1. T = {}
  <2>. SUFFICES ASSUME T # {} PROVE FALSE
    OBVIOUS
  <2>1. PICK l \in T : \A j \in T : l <= j
    BY NatHasLeast
  <2>2. l # 0
    <3>. SUFFICES \E r : Upto(r, 0)
      OBVIOUS
    <3>1. PICK r : r = [i \in 1..0 |-> InitMem]
      OBVIOUS
    <3>2. Upto(r, 0)
      BY <3>1
    <3>. QED
      BY <3>2
  <2>3. PICK r : Upto(r, l - 1)
    <3>1. l - 1 \in Nat /\ ~ (l <= l - 1)
      BY <2>2
    <3>. QED
      BY <2>1, <3>1
  <2>4. PICK s : s = [i \in 1..l |-> IF i = l /\ i # 1 THEN RunAlone(executables[l-1], r[l-1])
                                     ELSE IF i = 1 THEN InitMem ELSE r[i]]
    OBVIOUS
  <2>5. \A i \in 1..(l-1) : s[i] = r[i]
    BY <2>3, <2>4
  <2>6. ASSUME NEW i \in 1..l
        PROVE  s[i] = IF i = 1 THEN InitMem ELSE RunAlone(executables[i-1], s[i-1])
    <3>1. CASE i = 1
      BY <2>4, <3>1
    <3>2. CASE i = l /\ i # 1
      <4>1. s[i] = RunAlone(executables[l-1], r[l-1]) /\ l - 1 \in 1..(l-1)
        BY <2>4, <3>2
      <4>. QED
        BY <2>5, <3>2, <4>1
    <3>3. CASE i # l /\ i # 1
      <4>1. i \in 1..(l-1) /\ i - 1 \in 1..(l-1)
        BY <3>3
      <4>2. r[i] = RunAlone(executables[i-1], r[i-1])
        BY <2>3, <3>3, <4>1
      <4>. QED
        BY <2>5, <3>3, <4>1, <4>2
    <3>. QED
      BY <3>1, <3>2, <3>3
  <2>7. Upto(s, l)
    <3>1. s = [i \in 1..l |-> s[i]]
      BY <2>4
    <3>. QED
      BY <2>6, <3>1
  <2>. QED
    BY <2>1, <2>7
<1>2. PICK r : Upto(r, NumFuncs)
  BY <1>1, NumFuncsAssumption
<1>. QED
  BY <1>2 DEF MemBefore, Tids

\* Step by step.
Follows(f, r, k) == r[k + 1] = Executed(f, r[k])

LEMMA ExecutionSteps ==
  ASSUME NEW f \in Functions, NEW m
  PROVE  /\ Execution(f, m)[0] = [regs |-> InitRegs, mem |-> m]
         /\ \A k \in 0..(Len(f) - 1) : Follows(f, Execution(f, m), k)
<1>1. Len(f) \in Nat
  BY DEF Functions
<1>2. PICK r : r = Execution(f, m)
  OBVIOUS
<1>3. r = [k \in 0..Len(f) |-> IF k = 0 THEN [regs |-> InitRegs, mem |-> m] ELSE Executed(f, r[k-1])]
  BY <1>2, ExecutionIs DEF Executes
<1>4. r[0] = [regs |-> InitRegs, mem |-> m]
  BY <1>1, <1>3
<1>5. ASSUME NEW k \in 0..(Len(f) - 1) PROVE r[k + 1] = Executed(f, r[k])
  <2>1. k + 1 \in 0..Len(f) /\ k + 1 # 0 /\ (k + 1) - 1 = k
    BY <1>1
  <2>. QED
    BY <1>3, <2>1
<1>. QED
  BY <1>2, <1>4, <1>5 DEF Follows

\* The words f accessed in its first n instructions: with op "ld" those it
\* loaded, with "st" those it stored.
Accessed(f, m, n, op) ==
  {i.a : i \in {j \in {Instr(f, Execution(f, m)[k].regs.pc) : k \in 0..(n-1)} : j.op = op}}

AccessIn(f, pc, op) == IF Instr(f, pc).op = op THEN {Instr(f, pc).a} ELSE {}

LEMMA AccessedGrows ==
  ASSUME NEW f, NEW m, NEW n \in Nat, NEW op
  PROVE  Accessed(f, m, n + 1, op)
           = Accessed(f, m, n, op) \cup AccessIn(f, Execution(f, m)[n].regs.pc, op)
<1>1. PICK I : I = [k \in Nat |-> Instr(f, Execution(f, m)[k].regs.pc)]
  OBVIOUS
<1>2. ASSUME NEW l \in Nat
      PROVE  Accessed(f, m, l, op) = {i.a : i \in {j \in {I[k] : k \in 0..(l-1)} : j.op = op}}
  <2>1. \A k \in 0..(l-1) : I[k] = Instr(f, Execution(f, m)[k].regs.pc)
    BY <1>1
  <2>2. {I[k] : k \in 0..(l-1)} = {Instr(f, Execution(f, m)[k].regs.pc) : k \in 0..(l-1)}
    BY <2>1
  <2>. QED
    BY <2>2 DEF Accessed
<1>3. 0..((n+1)-1) = (0..(n-1)) \cup {n}
  OBVIOUS
<1>4. {I[k] : k \in 0..((n+1)-1)} = {I[k] : k \in 0..(n-1)} \cup {I[n]}
  BY <1>3
<1>5. AccessIn(f, Execution(f, m)[n].regs.pc, op) = IF I[n].op = op THEN {I[n].a} ELSE {}
  BY <1>1 DEF AccessIn
<1>6. Accessed(f, m, n + 1, op) = Accessed(f, m, n, op) \cup (IF I[n].op = op THEN {I[n].a} ELSE {})
  <2>1. PICK S : S = {I[k] : k \in 0..(n-1)}
    OBVIOUS
  <2>2. /\ Accessed(f, m, n + 1, op) = {i.a : i \in {j \in S \cup {I[n]} : j.op = op}}
        /\ Accessed(f, m, n, op) = {i.a : i \in {j \in S : j.op = op}}
    BY <1>2, <1>4, <2>1
  <2>. QED
    BY <2>2
<1>. QED
  BY <1>5, <1>6

LEMMA NothingAccessed == ASSUME NEW f, NEW m, NEW op PROVE Accessed(f, m, 0, op) = {}
BY DEF Accessed

\* All of them.
LEMMA AloneIsAccessed ==
  ASSUME NEW f \in Functions, NEW m, NEW op
  PROVE  Alone(f, m, op) = Accessed(f, m, Len(f) + 1, op)
<1>1. Len(f) \in Nat /\ 0..Len(f) = 0..((Len(f) + 1) - 1)
  BY DEF Functions
<1>. QED
  BY <1>1 DEF Alone, Accessed

\* f ends within as many instructions as it has.
Ends(f, m) == Execution(f, m)[Len(f)].regs.pc = ExitPc(f)

\* Of the instructions only sys_equiv_exit is an exit.
LEMMA ExitIs ==
  ASSUME NEW f \in Functions, NEW pc \in Pcs(f)
  PROVE  Instr(f, pc).op = "exit" <=> pc = ExitPc(f)
<1>1. f \in Seq(Instructions) /\ Len(f) \in Nat /\ ExitPc(f) = Len(f) + 1 /\ pc \in 1..(Len(f) + 4)
  BY DEF Functions, ExitPc, Pcs, Runtime
<1>2. CASE pc <= Len(f) + 1
  <2>1. pc \in Nat \ {0} /\ pc <= ExitPc(f)
    BY <1>1, <1>2
  <2>. QED
    BY <2>1, OpFacts
<1>3. CASE pc > Len(f) + 1
  <2>1. pc - Len(f) \in 2..4 /\ Instr(f, pc) = Runtime[pc - Len(f)]
    BY <1>1, <1>3 DEF Instr
  <2>2. Instr(f, pc).op \in {"yield", "putc", "bx_lr"}
    BY <2>1 DEF Runtime
  <2>. QED
    BY <1>1, <1>3, <2>2
<1>. QED
  BY <1>1, <1>2, <1>3

\* Once it has returned, nothing changes.
LEMMA Returned ==
  ASSUME NEW f \in Functions, NEW m, NEW k \in 0..Len(f),
         Execution(f, m)[k].regs.pc = ExitPc(f)
  PROVE  /\ Execution(f, m)[Len(f)] = Execution(f, m)[k]
         /\ \A op \in {"ld", "st"} : Alone(f, m, op) = Accessed(f, m, k, op)
<1>1. Len(f) \in Nat /\ k \in Nat
  BY DEF Functions
<1>2. PICK r : r = Execution(f, m)
  OBVIOUS
<1>. DEFINE T == {l \in Nat : l \in k..Len(f) /\ r[l] # r[k]}
            U == {l \in Nat : l \in k..(Len(f)+1) /\ \E op \in {"ld", "st"} :
                                 Accessed(f, m, l, op) # Accessed(f, m, k, op)}
<1>3. T = {}
  <2>. SUFFICES ASSUME T # {} PROVE FALSE
    OBVIOUS
  <2>1. PICK l \in T : \A j \in T : l <= j
    BY NatHasLeast
  <2>2. l \in Nat /\ l # k /\ l - 1 \in k..Len(f) /\ l - 1 \in 0..(Len(f)-1) /\ (l-1) + 1 = l
        /\ ~ (l <= l - 1) /\ l - 1 \in Nat
    BY <1>1
  <2>3. r[l - 1] = r[k]
    BY <2>1, <2>2
  <2>4. r[l] = Executed(f, r[l-1])
    <3>1. PICK p \in 0..(Len(f) - 1) : p = l - 1
      BY <2>2
    <3>2. Follows(f, r, p)
      BY <1>2, ExecutionSteps
    <3>. QED
      BY <2>2, <3>1, <3>2 DEF Follows
  <2>5. r[l] = r[k]
    BY <1>2, <2>3, <2>4 DEF Executed
  <2>. QED
    BY <2>5
<1>4. \A l \in k..Len(f) : r[l] = r[k]
  BY <1>1, <1>3
<1>5. U = {}
  <2>. SUFFICES ASSUME U # {} PROVE FALSE
    OBVIOUS
  <2>1. PICK l \in U : \A j \in U : l <= j
    BY NatHasLeast
  <2>2. l \in Nat /\ l # k /\ l - 1 \in k..Len(f) /\ (l-1) + 1 = l
        /\ ~ (l <= l - 1) /\ l - 1 \in Nat /\ l - 1 \in k..(Len(f)+1)
    BY <1>1
  <2>3. \A op \in {"ld", "st"} : Accessed(f, m, l - 1, op) = Accessed(f, m, k, op)
    BY <2>1, <2>2
  <2>4. ASSUME NEW op \in {"ld", "st"} PROVE Accessed(f, m, l, op) = Accessed(f, m, k, op)
    <3>1. r[l-1].regs.pc = ExitPc(f)
      BY <1>2, <1>4, <2>2
    <3>2. ExitPc(f) \in Pcs(f)
      BY <1>1 DEF ExitPc, Pcs, Runtime
    <3>3. Instr(f, ExitPc(f)).op # op
      BY <3>2, ExitIs
    <3>4. AccessIn(f, r[l-1].regs.pc, op) = {}
      BY <3>1, <3>3 DEF AccessIn
    <3>5. Accessed(f, m, (l-1) + 1, op) = Accessed(f, m, l - 1, op)
                                            \cup AccessIn(f, r[l-1].regs.pc, op)
      BY <1>2, <2>2, AccessedGrows
    <3>. QED
      BY <2>2, <2>3, <3>4, <3>5
  <2>. QED
    BY <2>4
<1>6. ASSUME NEW op \in {"ld", "st"} PROVE Alone(f, m, op) = Accessed(f, m, k, op)
  <2>1. Len(f) + 1 \in k..(Len(f) + 1) /\ Len(f) + 1 \in Nat
    BY <1>1
  <2>2. Accessed(f, m, Len(f) + 1, op) = Accessed(f, m, k, op)
    BY <1>5, <2>1
  <2>. QED
    BY <2>2, AloneIsAccessed
<1>7. r[Len(f)] = r[k]
  BY <1>1, <1>4
<1>. QED
  BY <1>2, <1>6, <1>7

\* Thread 1 is about to execute the instruction f has come to after k of
\* them, and the tracker has what those accessed, and perhaps what the next
\* one accesses.
SoloAt(f, m, k) ==
  /\ cpu = Execution(f, m)[k].regs /\ mem = Execution(f, m)[k].mem
  /\ Accessed(f, m, k, "ld") \subseteq tracker.read
  /\ tracker.read \subseteq Accessed(f, m, k, "ld") \cup AccessIn(f, cpu.pc, "ld")
  /\ Accessed(f, m, k, "st") \subseteq tracker.write
  /\ tracker.write \subseteq Accessed(f, m, k, "st") \cup AccessIn(f, cpu.pc, "st")

\* Thread 1 is alone and executes f, which found the memory m.
SoloInv(f, m) ==
  /\ text[1] = f
  /\ kpc # "retrieve"
  /\ kpc = "start" => /\ q.head = 1 /\ q.next[1] = NULL
                      /\ regs[1] = InitRegs /\ mem = m
                      /\ tracker.read = {} /\ tracker.write = {}
  /\ kpc = "user" => /\ cur_thread = 1 /\ q.head = NULL
                     /\ \E k \in 0..Len(f) : SoloAt(f, m, k)
  /\ kpc = "stopped" => /\ mem = RunAlone(f, m)
                        /\ tracker.read = Alone(f, m, "ld")
                        /\ tracker.write = Alone(f, m, "st")

\* What find_rw_set found for function i is right.
Right(i) ==
  /\ read_sets[i]  = Alone(executables[i], MemBefore[i], "ld")
  /\ write_sets[i] = Alone(executables[i], MemBefore[i], "st")

SetsInv ==
  /\ cpc \in {"find", "running"} => \A i \in 1..(fidx - 1) : Right(i)
  /\ cpc = "found" => \A i \in Tids : Right(i)
  /\ cpc = "find" => mem = MemBefore[fidx]
  /\ cpc = "running" => SoloInv(executables[fidx], MemBefore[fidx])

\* Each function, run where the one before left the memory, comes to its end
\* without going round a loop.
EndAlone == \A i \in Tids : Ends(executables[i], MemBefore[i])

\* What an instruction accesses, in the words of the tracker.
LEMMA AccessFacts ==
  ASSUME NEW f, NEW pc
  PROVE  /\ AccessIn(f, pc, "st") = IF Writes(f, pc) THEN Touched(f, pc) ELSE {}
         /\ AccessIn(f, pc, "ld") = IF Writes(f, pc) THEN {} ELSE Touched(f, pc)
         /\ Instr(f, pc).op \in Syscalls =>
              AccessIn(f, pc, "ld") = {} /\ AccessIn(f, pc, "st") = {} /\ ~ Writes(f, pc)
BY DEF AccessIn, Writes, Touched, Syscalls

\* The thread executes one more instruction, all of whose accesses the
\* tracker has.
LEMMA SoloAdvances ==
  ASSUME NEW f \in Functions, NEW m, Ends(f, m), NEW k \in 0..Len(f), SoloAt(f, m, k),
         cpu.pc # ExitPc(f), tracker' = tracker,
         AccessIn(f, cpu.pc, "ld") \subseteq tracker.read,
         AccessIn(f, cpu.pc, "st") \subseteq tracker.write,
         cpu' = NextRegs(f, cpu, mem), mem' = NextMem(f, cpu, mem)
  PROVE  \E j \in 0..Len(f) : SoloAt(f, m, j)'
<1>1. Len(f) \in Nat /\ k \in Nat
  BY DEF Functions
<1>2. PICK r : r = Execution(f, m)
  OBVIOUS
<1>3. r[k].regs = cpu /\ r[k].mem = mem /\ r[Len(f)].regs.pc = ExitPc(f)
  BY <1>2 DEF SoloAt, Ends
<1>4. k \in 0..(Len(f) - 1) /\ k + 1 \in 0..Len(f)
  BY <1>1, <1>3
<1>5. r[k + 1] = Executed(f, r[k])
  <2>1. Follows(f, r, k)
    BY <1>2, <1>4, ExecutionSteps
  <2>. QED
    BY <2>1 DEF Follows
<1>6. r[k + 1].regs = cpu' /\ r[k + 1].mem = mem'
  BY <1>3, <1>5 DEF Executed
<1>7. /\ Accessed(f, m, k + 1, "ld") = Accessed(f, m, k, "ld") \cup AccessIn(f, cpu.pc, "ld")
      /\ Accessed(f, m, k + 1, "st") = Accessed(f, m, k, "st") \cup AccessIn(f, cpu.pc, "st")
  <2>1. ASSUME NEW op
        PROVE  Accessed(f, m, k + 1, op) = Accessed(f, m, k, op) \cup AccessIn(f, r[k].regs.pc, op)
    BY <1>1, <1>2, AccessedGrows
  <2>. QED
    BY <1>3, <2>1
<1>8. Accessed(f, m, k + 1, "ld") = tracker.read /\ Accessed(f, m, k + 1, "st") = tracker.write
  BY <1>7 DEF SoloAt
<1>9. SoloAt(f, m, k + 1)'
  BY <1>2, <1>6, <1>8 DEF SoloAt
<1>. QED
  BY <1>4, <1>9

\* No schedule is in force in a run of find_rw_set.
LEMMA SoloFacts ==
  ASSUME NEW f \in Functions, NEW m, RunOK(NoSchedule), SoloInv(f, m), Next
  PROVE  /\ schedule = NoSchedule /\ ~ Active /\ ctx_switch_status.do_instr_count = 0
         /\ q \in RunQueues /\ regs \in [Tids -> Regs] /\ cpu \in Regs /\ 1 \in Tids
         /\ tracker \in [read : SUBSET Addrs, write : SUBSET Addrs]
         /\ q.tail # NULL => q.head # NULL
         /\ UNCHANGED text
         /\ kpc = "user" => cpu.pc \in Pcs(f)
<1>1. schedule = NoSchedule /\ ~ Active
  BY DEF RunOK, Active
<1>2. TypeOK /\ ControlInv /\ CountPendingOnlyWhenActive
  BY DEF RunOK, ThreadsInv
<1>3. ctx_switch_status.do_instr_count = 0
  BY <1>1, <1>2 DEF TypeOK, Statuses, CountPendingOnlyWhenActive
<1>4. UNCHANGED text
  BY DEF Next, KernelStep, EquivRun, Rotate, EnterFirst, SwitchTo,
         UserStep, StepOnly, StepCount, StepSwitch, MismatchFault, DataAbort, Commit,
         Syscall, SysPutc, SysYield, SysExit, Swi
<1>5. 1 \in Tids
  BY NumFuncsAssumption DEF Tids
<1>6. kpc = "user" => cpu.pc \in Pcs(f)
  BY <1>2 DEF ControlInv, SoloInv
<1>. QED
  BY <1>1, <1>2, <1>3, <1>4, <1>5, <1>6 DEF TypeOK, ControlInv

\* The trap handlers leave thread 1 alone: it executes f as the kernel would.
LEMMA SoloSteps ==
  ASSUME NEW f \in Functions, NEW m, Ends(f, m), RunOK(NoSchedule), SoloInv(f, m), Next
  PROVE  SoloInv(f, m)'
<1>1. /\ schedule = NoSchedule /\ ~ Active /\ ctx_switch_status.do_instr_count = 0
      /\ q \in RunQueues /\ regs \in [Tids -> Regs] /\ cpu \in Regs /\ 1 \in Tids
      /\ tracker \in [read : SUBSET Addrs, write : SUBSET Addrs]
      /\ q.tail # NULL => q.head # NULL
      /\ UNCHANGED text
      /\ kpc = "user" => cpu.pc \in Pcs(f)
  BY SoloFacts
<1>2. Len(f) \in Nat /\ 1 # NULL /\ text[1] = f
  BY DEF Functions, NULL, SoloInv
<1>3. CASE EquivRun
  <2>1. /\ kpc = "start" /\ q' = Popped(q) /\ cur_thread' = q.head
        /\ q.head # NULL => kpc' = "user" /\ cpu' = regs[q.head]
        /\ UNCHANGED <<mem, tracker>>
    BY <1>1, <1>3 DEF EquivRun, trackVars
  <2>2. /\ q.head = 1 /\ q.next[1] = NULL /\ regs[1] = InitRegs /\ mem = m
        /\ tracker.read = {} /\ tracker.write = {}
    BY <2>1 DEF SoloInv
  <2>3. q'.head = NULL
    BY <1>2, <2>1, <2>2 DEF Popped
  <2>4. SoloAt(f, m, 0)'
    <3>1. Execution(f, m)[0] = [regs |-> InitRegs, mem |-> m]
      BY ExecutionSteps
    <3>2. Execution(f, m)[0].regs = cpu' /\ Execution(f, m)[0].mem = mem'
      BY <1>2, <2>1, <2>2, <3>1
    <3>. QED
      BY <2>1, <2>2, <3>2, NothingAccessed DEF SoloAt
  <2>5. 0 \in 0..Len(f)
    BY <1>2
  <2>. QED
    BY <1>1, <1>2, <2>1, <2>2, <2>3, <2>4, <2>5 DEF SoloInv
<1>4. CASE Rotate \/ EnterFirst \/ SwitchTo
  BY <1>4 DEF Rotate, EnterFirst, SwitchTo, SoloInv
<1>5. CASE StepCount \/ StepSwitch
  BY <1>1, <1>5 DEF StepCount, StepSwitch
<1>. DEFINE Here1 == Touched(f, cpu.pc)
<1>6. ASSUME kpc = "user"
      PROVE  /\ cur_thread = 1 /\ q.head = NULL /\ q.tail = NULL
             /\ \E k \in 0..Len(f) : SoloAt(f, m, k)
             /\ Here = Here1
  BY <1>1, <1>2, <1>6 DEF SoloInv, Here
<1>7. CASE StepOnly
  <2>1. kpc = "user" /\ kpc' = "user" /\ UNCHANGED <<cur_thread, q, cpu, mem, tracker>>
    BY <1>7 DEF StepOnly, MismatchFault
  <2>2. PICK k \in 0..Len(f) : SoloAt(f, m, k)
    BY <1>6, <2>1
  <2>3. SoloAt(f, m, k)'
    BY <2>1, <2>2 DEF SoloAt
  <2>. QED
    BY <1>1, <1>2, <1>6, <2>1, <2>3 DEF SoloInv
<1>8. CASE DataAbort
  <2>1. /\ kpc = "user" /\ kpc' = "user" /\ UNCHANGED <<cur_thread, q, cpu, mem>>
        /\ tracker' = TrackerAfter
    BY <1>8 DEF DataAbort, threadVars
  <2>2. PICK k \in 0..Len(f) : SoloAt(f, m, k)
    BY <1>6, <2>1
  <2>3. tracker'.read = tracker.read \cup AccessIn(f, cpu.pc, "ld")
        /\ tracker'.write = tracker.write \cup AccessIn(f, cpu.pc, "st")
    BY <1>1, <1>2, <1>6, <2>1, AccessFacts DEF TrackerAfter
  <2>4. SoloAt(f, m, k)'
    BY <2>1, <2>2, <2>3 DEF SoloAt
  <2>. QED
    BY <1>1, <1>2, <1>6, <2>1, <2>4 DEF SoloInv
<1>9. CASE Commit
  <2>1. /\ kpc = "user" /\ kpc' = "user" /\ UNCHANGED <<cur_thread, q, tracker>>
        /\ cpu' = NextRegs(f, cpu, mem) /\ mem' = NextMem(f, cpu, mem)
        /\ Instr(f, cpu.pc).op \notin Syscalls
        /\ cpu.pc = bvr /\ ~ (armed /\ Here # {})
    BY <1>2, <1>6, <1>9 DEF Commit, trackVars, At
  <2>2. PICK k \in 0..Len(f) : SoloAt(f, m, k)
    BY <1>6, <2>1
  <2>3. AccessIn(f, cpu.pc, "ld") \subseteq tracker.read
        /\ AccessIn(f, cpu.pc, "st") \subseteq tracker.write
    <3>1. ~ armed => Here \subseteq IF Writes(f, cpu.pc) THEN tracker.write ELSE tracker.read
      BY <1>2, <1>6, <2>1 DEF RunOK, ThreadsInv, TrackerInv, InstructionStart, TrackedBeforeCommit
    <3>. QED
      BY <1>6, <2>1, <3>1, AccessFacts
  <2>4. cpu.pc # ExitPc(f)
    BY <1>1, <2>1, ExitIs DEF Syscalls
  <2>5. \E j \in 0..Len(f) : SoloAt(f, m, j)'
    BY <2>1, <2>2, <2>3, <2>4, SoloAdvances
  <2>. QED
    BY <1>1, <1>2, <1>6, <2>1, <2>5 DEF SoloInv
<1>10. CASE SysPutc \/ SysYield
  <2>1. /\ kpc = "user" /\ UNCHANGED <<mem, tracker>>
        /\ Instr(f, cpu.pc).op \in {"putc", "yield"}
    BY <1>2, <1>6, <1>10 DEF SysPutc, SysYield, Swi, trackVars, At
  <2>2. cur_thread' = 1 /\ cpu' = SavedAtSwi[1] /\ kpc' = "user" /\ q'.head = NULL
    <3>1. CASE SysPutc
      BY <1>1, <1>6, <2>1, <3>1 DEF SysPutc, RunThread
    <3>2. CASE SysYield
      <4>1. PICK a : a = Appended(q, 1)
        OBVIOUS
      <4>2. a.head = 1 /\ a.tail = 1 /\ a.next[1] = NULL
        BY <1>1, <1>6, <2>1, <4>1 DEF Appended, RunQueues
      <4>3. Popped(a).head = NULL
        BY <1>2, <4>2 DEF Popped
      <4>4. q' = Popped(a) /\ RunThread(a.head, SavedAtSwi)
        BY <1>6, <2>1, <3>2, <4>1 DEF SysYield
      <4>. QED
        BY <4>2, <4>3, <4>4 DEF RunThread
    <3>. QED
      BY <1>10, <3>1, <3>2
  <2>3. PICK k \in 0..Len(f) : SoloAt(f, m, k)
    BY <1>6, <2>1
  <2>4. cpu.pc # ExitPc(f)
    BY <1>1, <2>1, ExitIs
  <2>5. cpu' = NextRegs(f, cpu, mem)
    <3>1. cpu' = [pc |-> cpu.pc + 1, acc |-> cpu.acc]
      BY <1>1, <1>6, <2>1, <2>2 DEF SavedAtSwi, Regs
    <3>2. NextPc(f, cpu) = cpu.pc + 1
      BY <2>1 DEF NextPc, Taken
    <3>3. NextAcc(f, cpu, mem) = cpu.acc
      BY <2>1 DEF NextAcc
    <3>. QED
      BY <3>1, <3>2, <3>3 DEF NextRegs
  <2>6. mem' = NextMem(f, cpu, mem)
    BY <2>1 DEF NextMem, Writes
  <2>7. AccessIn(f, cpu.pc, "ld") = {} /\ AccessIn(f, cpu.pc, "st") = {}
    BY <2>1 DEF AccessIn
  <2>8. \E j \in 0..Len(f) : SoloAt(f, m, j)'
    BY <2>1, <2>3, <2>4, <2>5, <2>6, <2>7, SoloAdvances, Zenon
  <2>. QED
    BY <1>1, <1>2, <2>2, <2>8 DEF SoloInv
<1>11. CASE SysExit
  <2>1. /\ kpc = "user" /\ UNCHANGED <<mem, tracker>> /\ kpc' = "stopped"
        /\ Instr(f, cpu.pc).op = "exit"
    BY <1>2, <1>6, <1>11 DEF SysExit, Swi, trackVars, At
  <2>2. PICK k \in 0..Len(f) : SoloAt(f, m, k)
    BY <1>6, <2>1
  <2>3. Execution(f, m)[k].regs.pc = ExitPc(f)
    BY <1>1, <2>1, <2>2, ExitIs DEF SoloAt
  <2>4. /\ Execution(f, m)[Len(f)] = Execution(f, m)[k]
        /\ Alone(f, m, "ld") = Accessed(f, m, k, "ld")
        /\ Alone(f, m, "st") = Accessed(f, m, k, "st")
    BY <2>3, Returned
  <2>5. AccessIn(f, cpu.pc, "ld") = {} /\ AccessIn(f, cpu.pc, "st") = {}
    BY <2>1 DEF AccessIn
  <2>6. /\ mem = RunAlone(f, m)
        /\ tracker.read = Alone(f, m, "ld") /\ tracker.write = Alone(f, m, "st")
    BY <2>2, <2>4, <2>5 DEF SoloAt, RunAlone
  <2>. QED
    BY <1>1, <1>2, <2>1, <2>6 DEF SoloInv
<1>. QED
  BY <1>3, <1>4, <1>5, <1>7, <1>8, <1>9, <1>10, <1>11 DEF Next, KernelStep, UserStep, Syscall

\* The memories the functions meet, one after the other.
LEMMA MemBeforeFacts ==
  /\ MemBefore[1] = InitMem
  /\ \A i \in Tids : i # NumFuncs => MemBefore[i + 1] = RunAlone(executables[i], MemBefore[i])
<1>1. NumFuncs \in Nat \ {0} /\ Tids = 1..NumFuncs
  BY NumFuncsAssumption DEF Tids
<1>2. PICK r : r = MemBefore
  OBVIOUS
<1>3. r = [i \in Tids |-> IF i = 1 THEN InitMem ELSE RunAlone(executables[i-1], r[i-1])]
  BY <1>2, MemBeforeIs
<1>4. r[1] = InitMem
  BY <1>1, <1>3
<1>5. ASSUME NEW i \in Tids, i # NumFuncs PROVE r[i + 1] = RunAlone(executables[i], r[i])
  <2>1. i + 1 \in Tids /\ i + 1 # 1 /\ (i + 1) - 1 = i
    BY <1>1, <1>5
  <2>. QED
    BY <1>3, <2>1
<1>. QED
  BY <1>2, <1>4, <1>5

\* The functions and the memories they meet never change.
LEMMA GivenForGood ==
  ASSUME [CheckerNext]_everyVar
  PROVE  UNCHANGED executables /\ MemBefore' = MemBefore /\ EndAlone' = EndAlone
<1>1. UNCHANGED executables
  BY DEF CheckerNext, FindRwSet, RunFunction, FoundRwSet, FindSharedMemory, SerialCall,
         SerialStep, SerialReturn, FirstCall, Interleavings, NextCall, everyVar, checkerVars, givenVars
<1>2. MemBefore' = MemBefore
  BY <1>1 DEF MemBefore
<1>. QED
  BY <1>1, <1>2 DEF EndAlone

\* find_rw_set prepares the run of one function on the memory as it is.
LEMMA FindRwSetSets ==
  ASSUME CheckerInv, SetsInv, FindRwSet, MemBefore' = MemBefore
  PROVE  SetsInv'
<1>. USE DEF FindRwSet
<1>1. /\ FindInv /\ fidx \in Tids /\ 1 \in Tids /\ cpc = "find" /\ cpc' = "running"
      /\ UNCHANGED <<mem, fidx, executables, read_sets, write_sets>>
  BY NumFuncsAssumption DEF CheckerInv, FindInv, Tids, findVars, givenVars
<1>2. /\ text \in [Tids -> Functions] /\ regs \in [Tids -> Regs] /\ q \in RunQueues
      /\ q.head = NULL /\ q.tail = NULL /\ q' = Pushed(q, 1)
  BY <1>1 DEF FindInv, MachineOK
<1>3. text'[1] = executables[fidx] /\ regs'[1] = InitRegs
  BY <1>1, <1>2
<1>4. q'.head = 1 /\ q'.next[1] = NULL
  BY <1>1, <1>2 DEF Pushed, RunQueues
<1>5. tracker'.read = {} /\ tracker'.write = {} /\ kpc' = "start"
  OBVIOUS
<1>6. mem' = MemBefore[fidx]
  BY <1>1 DEF SetsInv
<1>7. SoloInv(executables[fidx], MemBefore[fidx])'
  BY <1>1, <1>3, <1>4, <1>5, <1>6 DEF SoloInv
<1>8. \A i \in 1..(fidx' - 1) : Right(i)'
  BY <1>1 DEF SetsInv, Right
<1>. QED
  BY <1>1, <1>7, <1>8 DEF SetsInv

\* Its equiv_run.
LEMMA RunFunctionSets ==
  ASSUME CheckerInv, SetsInv, EndAlone, RunFunction, MemBefore' = MemBefore
  PROVE  SetsInv'
<1>1. /\ FindInv /\ RunOK(NoSchedule) /\ fidx \in Tids /\ cpc = "running" /\ cpc' = "running" /\ Next
      /\ UNCHANGED <<fidx, executables, read_sets, write_sets>>
  BY DEF RunFunction, CheckerInv, FindInv, checkerVars, findVars, givenVars
<1>2. PICK f, m : f = executables[fidx] /\ m = MemBefore[fidx]
  OBVIOUS
<1>3. f \in Functions /\ Ends(f, m) /\ SoloInv(f, m)
  BY <1>1, <1>2 DEF CheckerInv, EndAlone, SetsInv
<1>4. SoloInv(f, m)'
  BY <1>1, <1>3, SoloSteps
<1>5. SoloInv(executables[fidx], MemBefore[fidx])'
  BY <1>1, <1>2, <1>4
<1>6. \A i \in 1..(fidx' - 1) : Right(i)'
  BY <1>1 DEF SetsInv, Right
<1>. QED
  BY <1>1, <1>5, <1>6 DEF SetsInv

\* Its end: the sets of one more function are right, and the next one meets
\* the memory it left.
LEMMA FoundRwSetSets ==
  ASSUME CheckerInv, SetsInv, FoundRwSet, MemBefore' = MemBefore
  PROVE  SetsInv'
<1>1. /\ fidx \in Tids /\ cpc = "running" /\ kpc = "stopped" /\ UNCHANGED <<mem, executables>>
      /\ fidx' = fidx + 1 /\ cpc' = (IF fidx = NumFuncs THEN "found" ELSE "find")
      /\ read_sets' = [read_sets EXCEPT ![fidx] = tracker.read]
      /\ write_sets' = [write_sets EXCEPT ![fidx] = tracker.write]
      /\ read_sets \in [Tids -> SUBSET Addrs] /\ write_sets \in [Tids -> SUBSET Addrs]
  BY DEF FoundRwSet, CheckerInv, FindInv, givenVars
<1>2. /\ mem = RunAlone(executables[fidx], MemBefore[fidx])
      /\ tracker.read = Alone(executables[fidx], MemBefore[fidx], "ld")
      /\ tracker.write = Alone(executables[fidx], MemBefore[fidx], "st")
  BY <1>1 DEF SetsInv, SoloInv
<1>3. NumFuncs \in Nat /\ Tids = 1..NumFuncs
  BY NumFuncsAssumption DEF Tids
<1>4. ASSUME NEW i \in 1..fidx PROVE Right(i)'
  <2>1. i \in Tids /\ (i # fidx => i \in 1..(fidx - 1))
    BY <1>1, <1>3
  <2>2. CASE i = fidx
    BY <1>1, <1>2, <2>2 DEF Right
  <2>3. CASE i # fidx
    <3>1. Right(i)
      BY <1>1, <2>1, <2>3 DEF SetsInv
    <3>. QED
      BY <1>1, <2>1, <2>3, <3>1 DEF Right
  <2>. QED
    BY <2>2, <2>3
<1>5. fidx # NumFuncs => mem' = MemBefore'[fidx']
  BY <1>1, <1>2, MemBeforeFacts
<1>6. fidx' - 1 = fidx
  BY <1>1, <1>3
<1>. QED
  BY <1>1, <1>3, <1>4, <1>5, <1>6 DEF SetsInv

\* Every step of the checker keeps the sets right.
LEMMA SetsSteps ==
  ASSUME CheckerInv, SetsInv, EndAlone, [CheckerNext]_everyVar
  PROVE  SetsInv'
<1>1. UNCHANGED executables /\ MemBefore' = MemBefore
  BY GivenForGood
<1>2. CASE FindRwSet
  BY <1>1, <1>2, FindRwSetSets
<1>3. CASE RunFunction
  BY <1>1, <1>3, RunFunctionSets
<1>4. CASE FoundRwSet
  BY <1>1, <1>4, FoundRwSetSets
<1>5. CASE \/ FindSharedMemory \/ SerialCall \/ SerialStep \/ SerialReturn
           \/ FirstCall \/ Interleavings \/ NextCall
  <2>1. cpc' \notin {"find", "running", "found"}
    BY <1>5 DEF FindSharedMemory, SerialCall, SerialStep, SerialReturn, FirstCall, Interleavings,
                NextCall, checkerVars
  <2>. QED
    BY <2>1 DEF SetsInv
<1>6. CASE UNCHANGED everyVar
  BY <1>1, <1>6 DEF SetsInv, SoloInv, SoloAt, Right, everyVar, allVars, vars, threadVars, trackVars,
     checkerVars, findVars
<1>. QED
  BY <1>2, <1>3, <1>4, <1>5, <1>6 DEF CheckerNext

\* What is shared is what one function reads and another one writes in these
\* runs, and the caller's hint.
SharedIsFound ==
  cpc \notin {"find", "running", "found"} =>
    shared = SharedFrom([i \in Tids |-> Alone(executables[i], MemBefore[i], "ld")],
                        [i \in Tids |-> Alone(executables[i], MemBefore[i], "st")])
             \cup additional_shared_memory

LEMMA SharedSteps ==
  ASSUME CheckerInv, SetsInv, SharedIsFound, [CheckerNext]_everyVar
  PROVE  SharedIsFound'
<1>1. UNCHANGED executables /\ MemBefore' = MemBefore
  BY GivenForGood
<1>2. UNCHANGED additional_shared_memory
  BY DEF CheckerNext, FindRwSet, RunFunction, FoundRwSet, FindSharedMemory, SerialCall,
         SerialStep, SerialReturn, FirstCall, Interleavings, NextCall, everyVar, checkerVars, givenVars
<1>3. CASE FindRwSet \/ RunFunction \/ FoundRwSet
  <2>1. cpc' \in {"find", "running", "found"}
    BY <1>3 DEF FindRwSet, RunFunction, FoundRwSet, checkerVars, CheckerInv
  <2>. QED
    BY <2>1 DEF SharedIsFound
<1>4. CASE FindSharedMemory
  <2>1. /\ cpc = "found" /\ shared' = SharedFrom(read_sets, write_sets) \cup additional_shared_memory
        /\ read_sets \in [Tids -> SUBSET Addrs] /\ write_sets \in [Tids -> SUBSET Addrs]
    BY <1>4 DEF FindSharedMemory, CheckerInv
  <2>2. \A i \in Tids : Right(i)
    BY <2>1 DEF SetsInv
  <2>3. /\ read_sets = [i \in Tids |-> Alone(executables[i], MemBefore[i], "ld")]
        /\ write_sets = [i \in Tids |-> Alone(executables[i], MemBefore[i], "st")]
    BY <2>1, <2>2 DEF Right
  <2>4. shared' = SharedFrom([i \in Tids |-> Alone(executables[i], MemBefore[i], "ld")],
                             [i \in Tids |-> Alone(executables[i], MemBefore[i], "st")])
                  \cup additional_shared_memory
    BY <2>1, <2>3, Zenon
  <2>. QED
    BY <1>1, <1>2, <2>4 DEF SharedIsFound
<1>5. CASE SerialCall \/ SerialStep \/ SerialReturn \/ FirstCall \/ Interleavings \/ NextCall
  <2>1. UNCHANGED shared /\ cpc \notin {"find", "running", "found"}
    BY <1>5 DEF SerialCall, SerialStep, SerialReturn, FirstCall, Interleavings, NextCall, ileavVars,
                ILNext, Call, NextTid, StartRun, Run, FinishRun
  <2>. QED
    BY <1>1, <1>2, <2>1 DEF SharedIsFound
<1>6. CASE UNCHANGED everyVar
  BY <1>1, <1>2, <1>6 DEF SharedIsFound, everyVar, allVars, ileavVars, checkerVars
<1>. QED
  BY <1>3, <1>4, <1>5, <1>6 DEF CheckerNext

\* The invariant holds when equiv_checker_run is called.
LEMMA SetsStart == CheckerInit => SetsInv /\ SharedIsFound
<1>. SUFFICES ASSUME CheckerInit PROVE SetsInv /\ SharedIsFound
  OBVIOUS
<1>1. fidx = 1 /\ cpc = "find" /\ mem = InitMem
  BY DEF CheckerInit, Fresh, InitMem
<1>. QED
  BY <1>1, MemBeforeFacts DEF SetsInv, SharedIsFound

\* If each function comes to its end when it runs after the ones before it,
\* then in every execution of the checker the sets it finds are exactly what
\* each function accesses in those runs: through the data aborts, the single
\* steps and the system calls of the run nothing is missed and nothing added.
THEOREM FoundSetsAreRight == CheckerSpec => [](EndAlone => FoundSetsAreTheAccesses)
<1>1. CheckerInit => SetsInv
  BY SetsStart
<1>2. CheckerInv /\ (EndAlone => SetsInv) /\ [CheckerNext]_everyVar => (EndAlone => SetsInv)'
  BY SetsSteps, GivenForGood
<1>3. (EndAlone => SetsInv) => (EndAlone => FoundSetsAreTheAccesses)
  BY DEF SetsInv, Right, FoundSetsAreTheAccesses
<1>. QED
  BY <1>1, <1>2, <1>3, CheckerInvariant, PTL DEF CheckerSpec

\* From then on the shared memory, at whose accesses threads are switched, is
\* what these sets say.
THEOREM SharedMemoryIsFound == CheckerSpec => [](EndAlone => SharedIsFound)
<1>1. CheckerInit => SetsInv /\ SharedIsFound
  BY SetsStart
<1>2. CheckerInv /\ (EndAlone => SetsInv /\ SharedIsFound) /\ [CheckerNext]_everyVar
        => (EndAlone => SetsInv /\ SharedIsFound)'
  BY SetsSteps, SharedSteps, GivenForGood
<1>. QED
  BY <1>1, <1>2, CheckerInvariant, PTL DEF CheckerSpec

\* A function without loops moves forward by at least one instruction at a
\* time, so it ends, whatever memory it meets.
LEMMA ForwardEnds ==
  ASSUME NEW f \in Functions, Forward(f), NEW m
  PROVE  Ends(f, m)
<1>1. f \in Seq(Instructions) /\ Len(f) \in Nat /\ ExitPc(f) = Len(f) + 1 /\ DOMAIN f = 1..Len(f)
  BY DEF Functions, ExitPc
<1>2. PICK r : r = Execution(f, m)
  OBVIOUS
<1>. DEFINE Further(k) == r[k].regs.pc \in 1..(Len(f)+1) /\ (r[k].regs.pc = Len(f) + 1 \/ r[k].regs.pc > k)
            T == {k \in Nat : k \in 0..Len(f) /\ ~ Further(k)}
<1>3. T = {}
  <2>. SUFFICES ASSUME T # {} PROVE FALSE
    OBVIOUS
  <2>1. PICK k \in T : \A j \in T : k <= j
    BY NatHasLeast
  <2>2. k # 0
    <3>1. r[0] = [regs |-> InitRegs, mem |-> m]
      BY <1>2, ExecutionSteps
    <3>2. r[0].regs = InitRegs
      BY <3>1
    <3>. QED
      BY <1>1, <3>2 DEF InitRegs
  <2>3. PICK j \in 0..(Len(f) - 1) : k = j + 1
    <3>1. k - 1 \in 0..(Len(f) - 1) /\ k = (k - 1) + 1
      BY <1>1, <2>2
    <3>. QED
      BY <3>1
  <2>4. Further(j)
    <3>1. j \in Nat /\ j \in 0..Len(f) /\ ~ (k <= j)
      BY <1>1, <2>3
    <3>. QED
      BY <2>1, <3>1
  <2>5. r[k] = Executed(f, r[j])
    <3>1. Follows(f, r, j)
      BY <1>2, ExecutionSteps
    <3>. QED
      BY <2>3, <3>1 DEF Follows
  <2>6. CASE r[j].regs.pc = ExitPc(f)
    <3>1. r[k] = r[j]
      BY <2>5, <2>6 DEF Executed
    <3>. QED
      BY <1>1, <2>4, <2>6, <3>1
  <2>7. CASE r[j].regs.pc # ExitPc(f)
    <3>. DEFINE pc == r[j].regs.pc  i == Instr(f, pc)
    <3>1. pc \in 1..Len(f) /\ pc > j /\ i = f[pc]
      BY <1>1, <2>4, <2>7 DEF Instr
    <3>2. pc \in Pcs(f) /\ i.op # "bx_lr"
      <4>1. pc \in Pcs(f) /\ pc # Len(f) + 4
        BY <1>1, <3>1 DEF Pcs, Runtime
      <4>. QED
        BY <4>1, InstrFacts
    <3>3. r[k].regs.pc = IF Taken(i, r[j].regs) THEN i.a ELSE pc + 1
      BY <2>5, <2>7, <3>2 DEF Executed, NextRegs, NextPc
    <3>4. Taken(i, r[j].regs) => i.a \in 1..(Len(f)+1) /\ i.a > pc
      <4>1. i.op \in {"b", "bz"} => i.a \in 1..(Len(f)+1) /\ i.a > pc
        BY <1>1, <3>1, <3>2, InstrFacts DEF Forward
      <4>. QED
        BY <4>1 DEF Taken
    <3>5. r[k].regs.pc \in 1..(Len(f)+1) /\ r[k].regs.pc > pc
      <4>1. pc + 1 \in 1..(Len(f)+1) /\ pc + 1 > pc
        BY <1>1, <3>1
      <4>2. CASE Taken(i, r[j].regs)
        BY <3>3, <3>4, <4>2, Zenon
      <4>3. CASE ~ Taken(i, r[j].regs)
        BY <3>3, <4>1, <4>3, Zenon
      <4>. QED
        BY <4>2, <4>3, Zenon
    <3>. QED
      BY <1>1, <2>3, <3>1, <3>5
  <2>. QED
    BY <2>6, <2>7
<1>4. Further(Len(f))
  BY <1>1, <1>3
<1>5. r[Len(f)].regs.pc = ExitPc(f)
  BY <1>1, <1>4
<1>. QED
  BY <1>2, <1>5 DEF Ends

\* For functions without loops nothing need be supposed: the sets from which
\* the shared memory is computed are right.
THEOREM FoundSetsOfForwardCode ==
  ASSUME \A p \in Programs : \A t \in Tids : Forward(p[t])
  PROVE  CheckerSpec => []FoundSetsAreTheAccesses
<1>1. CheckerInit => \A t \in Tids : Forward(executables[t])
  BY DEF CheckerInit, Fresh
<1>2. (\A t \in Tids : Forward(executables[t])) /\ [CheckerNext]_everyVar
        => (\A t \in Tids : Forward(executables[t]))'
  BY GivenForGood
<1>3. CheckerInv /\ (\A t \in Tids : Forward(executables[t])) => EndAlone
  BY ForwardEnds DEF CheckerInv, EndAlone
<1>. QED
  BY <1>1, <1>2, <1>3, CheckerInvariant, FoundSetsAreRight, PTL DEF CheckerSpec

-----------------------------------------------------------------------------
(***************************************************************************)
(* permute writes every order, for any number of functions.                *)
(***************************************************************************)
\* What FlattenSeq has concatenated after each of n sequences.
Flattens(s, n, r) == r = [i \in 1..n |-> IF i = 1 THEN s[i] ELSE r[i-1] \o s[i]]

LEMMA FlattenExists == ASSUME NEW s, NEW n \in Nat, n # 0 PROVE \E r : Flattens(s, n, r)
<1>. DEFINE T == {l \in Nat : l # 0 /\ ~ \E r : Flattens(s, l, r)}
<1>. SUFFICES ASSUME T # {} PROVE FALSE
  OBVIOUS
<1>1. PICK l \in T : \A j \in T : l <= j
  BY NatHasLeast
<1>2. l # 1
  <2>1. PICK r : r = [i \in 1..1 |-> s[1]]
    OBVIOUS
  <2>2. r = [i \in 1..1 |-> IF i = 1 THEN s[i] ELSE r[i-1] \o s[i]]
    BY <2>1
  <2>3. Flattens(s, 1, r)
    BY <2>2 DEF Flattens
  <2>. QED
    BY <2>3
<1>3. PICK r : Flattens(s, l - 1, r)
  <2>1. l - 1 \in Nat /\ l - 1 # 0 /\ ~ (l <= l - 1)
    BY <1>2
  <2>. QED
    BY <1>1, <2>1
<1>4. PICK u : u = [i \in 1..l |-> IF i = l THEN r[l-1] \o s[l] ELSE r[i]]
  OBVIOUS
<1>5. \A i \in 1..(l-1) : u[i] = r[i]
  BY <1>4
<1>6. ASSUME NEW i \in 1..l
      PROVE  u[i] = IF i = 1 THEN s[i] ELSE u[i-1] \o s[i]
  <2>1. CASE i = l
    <3>0. l \in Nat /\ l # 0 /\ l # 1
      BY <1>1, <1>2
    <3>1. u[l] = r[l-1] \o s[l] /\ l - 1 \in 1..(l-1)
      <4>1. l \in 1..l /\ l - 1 \in 1..(l-1)
        BY <3>0
      <4>2. u[l] = IF l = l THEN r[l-1] \o s[l] ELSE r[l]
        BY <1>4, <4>1, Zenon
      <4>. QED
        BY <4>1, <4>2, Zenon
    <3>2. u[l-1] = r[l-1]
      BY <1>5, <3>1
    <3>3. u[l] = u[l-1] \o s[l]
      BY <3>1, <3>2, Zenon
    <3>4. i = l /\ l # 1
      BY <1>2, <2>1
    <3>. QED
      BY <3>3, <3>4, Zenon
  <2>2. CASE i # l
    <3>1. i \in 1..(l-1) /\ (i # 1 => i - 1 \in 1..(l-1))
      BY <2>2
    <3>2. r[i] = IF i = 1 THEN s[i] ELSE r[i-1] \o s[i]
      BY <1>3, <3>1 DEF Flattens
    <3>. QED
      BY <1>5, <3>1, <3>2
  <2>. QED
    BY <2>1, <2>2
<1>7. Flattens(s, l, u)
  <2>1. u = [i \in 1..l |-> u[i]]
    BY <1>4
  <2>. QED
    BY <1>6, <2>1 DEF Flattens
<1>. QED
  BY <1>1, <1>7

\* The elements of a concatenation.
LEMMA ConcatElements ==
  ASSUME NEW S, NEW a \in Seq(S), NEW b \in Seq(S)
  PROVE  /\ a \o b \in Seq(S)
         /\ \A v : v \in ToSet(a \o b) <=> v \in ToSet(a) \/ v \in ToSet(b)
<1>1. /\ a \o b \in Seq(S) /\ Len(a \o b) = Len(a) + Len(b)
      /\ Len(a) \in Nat /\ Len(b) \in Nat
      /\ \A i \in 1..Len(a) : (a \o b)[i] = a[i]
      /\ \A i \in 1..Len(b) : (a \o b)[i + Len(a)] = b[i]
  OBVIOUS
<1>2. DOMAIN a = 1..Len(a) /\ DOMAIN b = 1..Len(b) /\ DOMAIN (a \o b) = 1..(Len(a) + Len(b))
  BY <1>1
<1>3. ASSUME NEW v, v \in ToSet(a \o b) PROVE v \in ToSet(a) \/ v \in ToSet(b)
  <2>1. PICK i \in 1..(Len(a) + Len(b)) : v = (a \o b)[i]
    BY <1>2, <1>3 DEF ToSet
  <2>2. CASE i <= Len(a)
    <3>1. i \in 1..Len(a)
      BY <1>1, <2>2
    <3>. QED
      BY <1>1, <1>2, <2>1, <3>1 DEF ToSet
  <2>3. CASE ~ (i <= Len(a))
    <3>1. i - Len(a) \in 1..Len(b) /\ (i - Len(a)) + Len(a) = i
      BY <1>1, <2>3
    <3>2. v = b[i - Len(a)]
      BY <1>1, <2>1, <3>1
    <3>. QED
      BY <1>2, <3>1, <3>2 DEF ToSet
  <2>. QED
    BY <2>2, <2>3
<1>4. ASSUME NEW v, v \in ToSet(a) PROVE v \in ToSet(a \o b)
  <2>1. PICK i \in 1..Len(a) : v = a[i]
    BY <1>2, <1>4 DEF ToSet
  <2>2. i \in 1..(Len(a) + Len(b)) /\ v = (a \o b)[i]
    BY <1>1, <2>1
  <2>. QED
    BY <1>2, <2>2 DEF ToSet
<1>5. ASSUME NEW v, v \in ToSet(b) PROVE v \in ToSet(a \o b)
  <2>1. PICK i \in 1..Len(b) : v = b[i]
    BY <1>2, <1>5 DEF ToSet
  <2>2. i + Len(a) \in 1..(Len(a) + Len(b)) /\ v = (a \o b)[i + Len(a)]
    BY <1>1, <2>1
  <2>. QED
    BY <1>2, <2>2 DEF ToSet
<1>. QED
  BY <1>1, <1>3, <1>4, <1>5

\* FlattenSeq gives the elements of all.
LEMMA FlattenIs ==
  ASSUME NEW S, NEW n \in Nat, n # 0, NEW s \in [1..n -> Seq(S)]
  PROVE  /\ FlattenSeq(s) \in Seq(S)
         /\ \A v : v \in ToSet(FlattenSeq(s)) <=> \E i \in 1..n : v \in ToSet(s[i])
<1>1. Len(s) = n
  OBVIOUS
<1>2. PICK r : Flattens(s, n, r) /\ FlattenSeq(s) = r[n]
  <2>1. PICK r : r = CHOOSE f : Flattens(s, n, f)
    OBVIOUS
  <2>2. Flattens(s, n, r)
    BY <2>1, FlattenExists, Zenon
  <2>3. FlattenSeq(s) = r[n]
    BY <1>1, <2>1 DEF FlattenSeq, Flattens
  <2>. QED
    BY <2>2, <2>3
<1>3. \A l \in 1..n : r[l] = IF l = 1 THEN s[l] ELSE r[l-1] \o s[l]
  BY <1>2 DEF Flattens
<1>. DEFINE Good(l) == /\ r[l] \in Seq(S)
                       /\ \A v : v \in ToSet(r[l]) <=> \E i \in 1..l : v \in ToSet(s[i])
            T == {l \in 1..n : ~ Good(l)}
<1>4. T = {}
  <2>. SUFFICES ASSUME T # {} PROVE FALSE
    OBVIOUS
  <2>1. PICK l \in T : \A j \in T : l <= j
    <3>1. T \subseteq Nat
      OBVIOUS
    <3>. HIDE DEF T
    <3>. QED
      BY <3>1, NatHasLeast
  <2>2. l # 1
    BY <1>3
  <2>3. PICK k \in 1..n : l = k + 1 /\ ~ (l <= k) /\ k = l - 1
    <3>1. l - 1 \in 1..n /\ l = (l - 1) + 1 /\ ~ (l <= l - 1)
      BY <2>2
    <3>. QED
      BY <3>1
  <2>4. Good(k)
    BY <2>1, <2>3
  <2>5. PICK a \in Seq(S), b \in Seq(S) : a = r[k] /\ b = s[l] /\ r[l] = a \o b
    <3>1. l \in 1..n /\ s[l] \in Seq(S)
      BY <2>1
    <3>2. r[l] = r[l-1] \o s[l]
      BY <1>3, <2>2, <3>1, Zenon
    <3>3. r[l] = r[k] \o s[l]
      BY <2>3, <3>2, Zenon
    <3>4. r[k] \in Seq(S)
      BY <2>4
    <3>. QED
      BY <3>1, <3>3, <3>4, Zenon
  <2>6. a \o b \in Seq(S) /\ \A v : v \in ToSet(a \o b) <=> v \in ToSet(a) \/ v \in ToSet(b)
    BY ConcatElements
  <2>7. Good(l)
    <3>1. \A i : i \in 1..l <=> i \in 1..k \/ i = l
      BY <2>3
    <3>2. \A v : v \in ToSet(r[l]) <=> v \in ToSet(r[k]) \/ v \in ToSet(s[l])
      BY <2>5, <2>6
    <3>3. \A v : v \in ToSet(r[l]) <=> \E i \in 1..l : v \in ToSet(s[i])
      BY <2>4, <3>1, <3>2, Zenon
    <3>4. r[l] \in Seq(S)
      BY <2>5, <2>6, Zenon
    <3>. QED
      BY <3>3, <3>4, Zenon
  <2>. QED
    BY <2>7
<1>5. Good(n)
  <2>1. n \in 1..n
    OBVIOUS
  <2>. QED
    BY <1>4, <2>1
<1>. QED
  BY <1>2, <1>5

\* An order names every function.
LEMMA OrdersAreOnto == ASSUME NEW o \in Orders, NEW v \in Tids PROVE \E j \in Tids : o[j] = v
<1>1. NumFuncs \in Nat
  BY NumFuncsAssumption
<1>2. IsFiniteSet(Tids)
  BY <1>1, FS_Interval DEF Tids
<1>3. o \in Injection(Tids, Tids)
  BY DEF Orders, Injection, IsInjective
<1>4. o \in Surjection(Tids, Tids)
  BY <1>2, <1>3, FS_Injection
<1>. QED
  BY <1>4 DEF Surjection

\* A swap makes an order of an order.
LEMMA SwapFacts ==
  ASSUME NEW arr \in Orders, NEW i \in Tids, NEW j \in Tids
  PROVE  /\ Swapped(arr, i, j) \in Orders
         /\ Swapped(arr, i, j)[i] = arr[j]
         /\ \A k \in Tids : k # i /\ k # j => Swapped(arr, i, j)[k] = arr[k]
<1>1. arr \in [Tids -> Tids] /\ \A a, b \in Tids : arr[a] = arr[b] => a = b
  BY DEF Orders
<1>2. PICK s : s = Swapped(arr, i, j)
  OBVIOUS
<1>3. /\ s \in [Tids -> Tids] /\ s[i] = arr[j] /\ s[j] = arr[i]
      /\ \A k \in Tids : k # i /\ k # j => s[k] = arr[k]
  BY <1>1, <1>2 DEF Swapped
<1>4. \A a, b \in Tids : s[a] = s[b] => a = b
  BY <1>1, <1>3
<1>. QED
  BY <1>2, <1>3, <1>4 DEF Orders

\* One level of permute, on top of the next.
PermuteFrom(start, next) ==
  [arr \in [Tids -> Tids] |->
     IF start = NumFuncs THEN <<arr>>
     ELSE FlattenSeq([k \in 1..(NumFuncs - start + 1) |-> next[Swapped(arr, start, start + k - 1)]])]

Permutes(p) == p = [start \in Tids |-> PermuteFrom(start, p[start + 1])]

\* There are as many levels as there are functions.
LEMMA PermuteExists == \E p : Permutes(p)
<1>. DEFINE N == NumFuncs
            Top(l) == {i \in Tids : i >= N - l}
            Some(l, p) == p = [start \in Top(l) |-> PermuteFrom(start, p[start + 1])]
            T == {l \in 0..(N - 1) : ~ \E p : Some(l, p)}
<1>1. N \in Nat \ {0}
  BY NumFuncsAssumption
<1>2. T = {}
  <2>. SUFFICES ASSUME T # {} PROVE FALSE
    OBVIOUS
  <2>1. PICK l \in T : \A j \in T : l <= j
    <3>1. T \subseteq Nat
      BY <1>1
    <3>. HIDE DEF T
    <3>. QED
      BY <3>1, NatHasLeast
  <2>2. PICK r : \A start \in Top(l) : start # N - l => start \in DOMAIN r
                     /\ r[start] = PermuteFrom(start, r[start + 1])
    <3>1. CASE l = 0
      BY <1>1, <3>1 DEF Tids
    <3>2. CASE l # 0
      <4>1. l - 1 \in 0..(N - 1) /\ ~ (l <= l - 1)
        BY <1>1, <3>2
      <4>2. PICK r : Some(l - 1, r)
        BY <2>1, <4>1
      <4>3. \A start \in Top(l) : start # N - l => start \in Top(l - 1)
        BY <1>1, <4>1 DEF Tids
      <4>4. \A start \in Top(l) : start # N - l =>
              start \in DOMAIN r /\ r[start] = PermuteFrom(start, r[start + 1])
        BY <4>2, <4>3
      <4>. QED
        BY <4>4
    <3>. QED
      BY <3>1, <3>2
  <2>3. PICK u : u = [start \in Top(l) |-> IF start = N - l THEN PermuteFrom(start, r[start + 1])
                                            ELSE r[start]]
    OBVIOUS
  <2>4. ASSUME NEW start \in Top(l), start # N
        PROVE  start + 1 \in Top(l) /\ u[start + 1] = r[start + 1]
    <3>1. start + 1 \in Top(l) /\ start + 1 # N - l
      BY <1>1, <2>4 DEF Tids
    <3>. QED
      BY <2>3, <3>1
  <2>5. ASSUME NEW start \in Top(l) PROVE u[start] = PermuteFrom(start, u[start + 1])
    <3>1. u[start] = PermuteFrom(start, r[start + 1])
      BY <2>2, <2>3
    <3>2. CASE start = N
      BY <3>1, <3>2 DEF PermuteFrom
    <3>3. CASE start # N
      BY <2>4, <3>1, <3>3
    <3>. QED
      BY <3>2, <3>3
  <2>6. Some(l, u)
    <3>1. u = [start \in Top(l) |-> u[start]]
      BY <2>3
    <3>. QED
      BY <2>5, <3>1
  <2>. QED
    BY <2>1, <2>6
<1>3. PICK p : Some(N - 1, p)
  <2>1. N - 1 \in 0..(N - 1)
    BY <1>1
  <2>. QED
    BY <1>2, <2>1
<1>4. Top(N - 1) = Tids
  BY <1>1 DEF Tids
<1>5. p = [start \in Tids |-> PermuteFrom(start, p[start + 1])]
  BY <1>3, <1>4
<1>. QED
  BY <1>5 DEF Permutes

\* What permute writes from level start on: the orders that agree with arr
\* before start.
Agrees(o, arr, start) == o \in Orders /\ \A i \in 1..(start - 1) : o[i] = arr[i]

WrittenFrom(p, start) ==
  \A arr \in Orders :
    /\ p[start][arr] \in Seq(Orders)
    /\ \A o : o \in ToSet(p[start][arr]) <=> Agrees(o, arr, start)

\* The innermost level writes arr itself: the last place is determined.
LEMMA LastLevel == ASSUME NEW p, Permutes(p) PROVE WrittenFrom(p, NumFuncs)
<1>. SUFFICES ASSUME NEW arr \in Orders
              PROVE  /\ p[NumFuncs][arr] \in Seq(Orders)
                     /\ \A o : o \in ToSet(p[NumFuncs][arr]) <=> Agrees(o, arr, NumFuncs)
  BY DEF WrittenFrom
<1>1. NumFuncs \in Nat \ {0} /\ NumFuncs \in Tids
  BY NumFuncsAssumption DEF Tids
<1>2. arr \in [Tids -> Tids]
  BY DEF Orders
<1>3. p[NumFuncs][arr] = <<arr>>
  <2>1. p[NumFuncs] = PermuteFrom(NumFuncs, p[NumFuncs + 1])
    BY <1>1 DEF Permutes
  <2>. QED
    BY <1>2, <2>1 DEF PermuteFrom
<1>4. ASSUME NEW o, Agrees(o, arr, NumFuncs) PROVE o = arr
  <2>1. o \in Orders /\ \A i \in 1..(NumFuncs - 1) : o[i] = arr[i]
    BY <1>4 DEF Agrees
  <2>2. PICK j \in Tids : o[j] = arr[NumFuncs]
    BY <1>1, <1>2, <2>1, OrdersAreOnto
  <2>3. j = NumFuncs
    <3>1. j # NumFuncs => j \in 1..(NumFuncs - 1)
      BY <1>1 DEF Tids
    <3>2. j # NumFuncs => arr[j] = arr[NumFuncs]
      BY <2>1, <2>2, <3>1
    <3>. QED
      BY <1>1, <3>2 DEF Orders
  <2>4. \A i \in Tids : o[i] = arr[i]
    <3>1. \A i \in Tids : i = NumFuncs \/ i \in 1..(NumFuncs - 1)
      BY <1>1 DEF Tids
    <3>. QED
      BY <2>1, <2>2, <2>3, <3>1
  <2>. QED
    BY <2>1, <2>4 DEF Orders
<1>5. \A o : o \in ToSet(<<arr>>) <=> o = arr
  BY DEF ToSet
<1>6. Agrees(arr, arr, NumFuncs)
  BY DEF Agrees
<1>. QED
  BY <1>3, <1>4, <1>5, <1>6

\* A level writes all orders if the next one does: each function that can
\* come at this place is swapped there.
LEMMA EachLevel ==
  ASSUME NEW p, Permutes(p), NEW start \in Tids, start # NumFuncs, WrittenFrom(p, start + 1)
  PROVE  WrittenFrom(p, start)
<1>. SUFFICES ASSUME NEW arr \in Orders
              PROVE  /\ p[start][arr] \in Seq(Orders)
                     /\ \A o : o \in ToSet(p[start][arr]) <=> Agrees(o, arr, start)
  BY DEF WrittenFrom
<1>1. NumFuncs \in Nat /\ start \in Nat /\ 1 <= start /\ start < NumFuncs
  BY NumFuncsAssumption DEF Tids
<1>2. arr \in [Tids -> Tids] /\ \A i, j \in Tids : arr[i] = arr[j] => i = j
  BY DEF Orders
<1>3. PICK n : n = NumFuncs - start + 1
  OBVIOUS
<1>4. n \in Nat /\ n # 0 /\ \A k \in 1..n : start + k - 1 \in Tids
  BY <1>1, <1>3 DEF Tids
<1>5. PICK next : next = p[start + 1]
  OBVIOUS
<1>6. PICK s : s = [k \in 1..n |-> next[Swapped(arr, start, start + k - 1)]]
  OBVIOUS
<1>7. p[start][arr] = FlattenSeq(s)
  <2>1. p[start] = PermuteFrom(start, next)
    BY <1>5 DEF Permutes
  <2>. QED
    BY <1>2, <1>3, <1>6, <2>1 DEF PermuteFrom
<1>8. ASSUME NEW k \in 1..n
      PROVE  /\ s[k] \in Seq(Orders)
             /\ \A o : o \in ToSet(s[k]) <=> Agrees(o, arr, start) /\ o[start] = arr[start + k - 1]
  <2>1. PICK j \in Tids : j = start + k - 1
    BY <1>4
  <2>2. PICK a : a = Swapped(arr, start, j)
    OBVIOUS
  <2>3. a \in Orders /\ a[start] = arr[j] /\ \A i \in Tids : i # start /\ i # j => a[i] = arr[i]
    <3>1. /\ Swapped(arr, start, j) \in Orders
          /\ Swapped(arr, start, j)[start] = arr[j]
          /\ \A i \in Tids : i # start /\ i # j => Swapped(arr, start, j)[i] = arr[i]
      BY SwapFacts
    <3>. QED
      BY <2>2, <3>1, Zenon
  <2>4. s[k] = next[a]
    <3>1. s[k] = next[Swapped(arr, start, start + k - 1)]
      BY <1>6, Zenon
    <3>. QED
      BY <2>1, <2>2, <3>1, Zenon
  <2>5. next[a] \in Seq(Orders) /\ \A o : o \in ToSet(next[a]) <=> Agrees(o, a, start + 1)
    BY <1>5, <2>3 DEF WrittenFrom
  <2>6. \A o : Agrees(o, a, start + 1) <=> Agrees(o, arr, start) /\ o[start] = arr[j]
    <3>1. (start + 1) - 1 = start /\ start \in 1..start /\ j >= start
      BY <1>1, <2>1
    <3>2. \A i \in 1..(start - 1) : i \in Tids /\ i # start /\ i # j /\ i \in 1..start
      BY <1>1, <3>1 DEF Tids
    <3>3. \A i \in 1..start : i = start \/ i \in 1..(start - 1)
      BY <1>1
    <3>4. \A i \in 1..(start - 1) : a[i] = arr[i]
      BY <2>3, <3>2
    <3>. QED
      BY <2>3, <3>1, <3>2, <3>3, <3>4 DEF Agrees
  <2>. QED
    BY <2>1, <2>4, <2>5, <2>6
<1>9. s \in [1..n -> Seq(Orders)]
  BY <1>6, <1>8
<1>10. FlattenSeq(s) \in Seq(Orders) /\ \A o : o \in ToSet(FlattenSeq(s)) <=> \E k \in 1..n : o \in ToSet(s[k])
  BY <1>4, <1>9, FlattenIs
<1>11. ASSUME NEW o, Agrees(o, arr, start) PROVE \E k \in 1..n : o[start] = arr[start + k - 1]
  <2>1. o \in Orders /\ \A i \in 1..(start - 1) : o[i] = arr[i]
    BY <1>11 DEF Agrees
  <2>2. o[start] \in Tids /\ \A i \in Tids : o[i] = o[start] => i = start
    BY <2>1 DEF Orders
  <2>3. PICK j \in Tids : arr[j] = o[start]
    BY <2>2, OrdersAreOnto
  <2>4. ~ (j < start)
    <3>1. ASSUME j < start PROVE FALSE
      <4>1. j \in 1..(start - 1)
        BY <1>1, <3>1 DEF Tids
      <4>2. o[j] = o[start]
        BY <2>1, <2>3, <4>1
      <4>. QED
        BY <1>1, <2>2, <3>1, <4>2 DEF Tids
    <3>. QED
      BY <3>1
  <2>5. j - start + 1 \in 1..n /\ start + (j - start + 1) - 1 = j
    BY <1>1, <1>3, <2>4 DEF Tids
  <2>. QED
    BY <2>3, <2>5
<1>. QED
  BY <1>7, <1>8, <1>10, <1>11

\* permute lists every order, for any number of functions.
THEOREM ItlIsComplete == PermuteIsComplete
<1>. DEFINE N == NumFuncs
<1>1. N \in Nat \ {0}
  BY NumFuncsAssumption
<1>2. PICK p : Permutes(p) /\ itl = p[1][[i \in Tids |-> i]]
  <2>1. PICK p : p = CHOOSE f : Permutes(f)
    OBVIOUS
  <2>2. Permutes(p)
    BY <2>1, PermuteExists, Zenon
  <2>3. itl = p[1][[i \in Tids |-> i]]
    BY <2>1 DEF itl, Permutes, PermuteFrom
  <2>. QED
    BY <2>2, <2>3
<1>. DEFINE T == {l \in 0..(N - 1) : ~ WrittenFrom(p, N - l)}
<1>3. T = {}
  <2>. SUFFICES ASSUME T # {} PROVE FALSE
    OBVIOUS
  <2>1. PICK l \in T : \A j \in T : l <= j
    <3>1. T \subseteq Nat
      BY <1>1
    <3>. HIDE DEF T
    <3>. QED
      BY <3>1, NatHasLeast
  <2>2. l # 0
    BY <1>1, <1>2, LastLevel
  <2>3. l - 1 \in 0..(N - 1) /\ ~ (l <= l - 1) /\ N - (l - 1) = (N - l) + 1
    BY <1>1, <2>2
  <2>4. WrittenFrom(p, (N - l) + 1)
    BY <2>1, <2>3
  <2>5. N - l \in Tids /\ N - l # N
    BY <1>1, <2>2 DEF Tids
  <2>6. WrittenFrom(p, N - l)
    BY <1>2, <2>4, <2>5, EachLevel
  <2>. QED
    BY <2>6
<1>4. WrittenFrom(p, 1)
  <2>1. N - 1 \in 0..(N - 1) /\ N - (N - 1) = 1
    BY <1>1
  <2>. QED
    BY <1>3, <2>1
<1>5. [i \in Tids |-> i] \in Orders
  BY DEF Orders
<1>6. /\ itl \in Seq(Orders)
      /\ \A o : o \in ToSet(itl) <=> Agrees(o, [i \in Tids |-> i], 1)
  BY <1>2, <1>4, <1>5 DEF WrittenFrom
<1>7. \A o : Agrees(o, [i \in Tids |-> i], 1) <=> o \in Orders
  BY DEF Agrees
<1>. QED
  BY <1>6, <1>7 DEF PermuteIsComplete

-----------------------------------------------------------------------------
(***************************************************************************)
(* What find_good_hashes computes.                                         *)
(***************************************************************************)
\* The memory after the first i functions of the order o.
After(code, o) ==
  LET m[i \in 0..NumFuncs] == IF i = 0 THEN InitMem ELSE RunAlone(code[o[i]], m[i-1])
  IN  m

Memories(code, o, n, r) ==
  r = [i \in 0..n |-> IF i = 0 THEN InitMem ELSE RunAlone(code[o[i]], r[i-1])]

AfterOne(code, o, i) == After(code, o)[i + 1] = RunAlone(code[o[i + 1]], After(code, o)[i])

\* There is such a sequence of memories.
LEMMA AfterExists ==
  ASSUME NEW code, NEW o, NEW n \in Nat
  PROVE  \E r : Memories(code, o, n, r)
<1>. USE DEF Memories
<1>. DEFINE Upto(r, l) == r = [i \in 0..l |-> IF i = 0 THEN InitMem ELSE RunAlone(code[o[i]], r[i-1])]
            T == {l \in Nat : ~ \E r : Upto(r, l)}
<1>1. SUFFICES ASSUME T # {} PROVE FALSE
  OBVIOUS
<1>2. PICK l \in T : \A j \in T : l <= j
  BY <1>1, NatHasLeast
<1>3. l # 0
  <2>. SUFFICES \E r : Upto(r, 0)
    OBVIOUS
  <2>1. PICK r : r = [i \in 0..0 |-> InitMem]
    OBVIOUS
  <2>2. r = [i \in 0..0 |-> IF i = 0 THEN InitMem ELSE RunAlone(code[o[i]], r[i-1])]
    BY <2>1
  <2>. QED
    BY <2>2
<1>4. PICK r : Upto(r, l - 1)
  <2>1. l - 1 \in Nat /\ ~ (l <= l - 1)
    BY <1>3
  <2>. QED
    BY <1>2, <2>1
<1>5. PICK s : s = [i \in 0..l |-> IF i = l THEN RunAlone(code[o[l]], r[l-1]) ELSE r[i]]
  OBVIOUS
<1>6. \A i \in 0..(l-1) : s[i] = r[i]
  BY <1>5
<1>7. ASSUME NEW i \in 0..l
      PROVE  s[i] = IF i = 0 THEN InitMem ELSE RunAlone(code[o[i]], s[i-1])
  <2>1. CASE i = l
    <3>1. s[i] = RunAlone(code[o[l]], r[l-1]) /\ l - 1 \in 0..(l-1)
      BY <1>3, <1>5, <2>1
    <3>. QED
      BY <1>3, <1>6, <2>1, <3>1
  <2>2. CASE i # l
    <3>1. i \in 0..(l-1) /\ (i # 0 => i - 1 \in 0..(l-1))
      BY <2>2
    <3>2. r[i] = IF i = 0 THEN InitMem ELSE RunAlone(code[o[i]], r[i-1])
      BY <1>4, <3>1
    <3>. QED
      BY <1>6, <3>1, <3>2
  <2>. QED
    BY <2>1, <2>2
<1>8. Upto(s, l)
  <2>1. s = [i \in 0..l |-> s[i]]
    BY <1>5
  <2>. QED
    BY <1>7, <2>1
<1>. QED
  BY <1>2, <1>8

LEMMA AfterFacts ==
  ASSUME NEW code, NEW o
  PROVE  /\ After(code, o)[0] = InitMem
         /\ \A i \in 0..(NumFuncs - 1) : AfterOne(code, o, i)
         /\ Serial(code, o, InitMem) = After(code, o)[NumFuncs]
<1>1. NumFuncs \in Nat
  BY NumFuncsAssumption
<1>2. \E r : Memories(code, o, NumFuncs, r)
  BY <1>1, AfterExists
<1>3. After(code, o) = CHOOSE r : Memories(code, o, NumFuncs, r)
  BY DEF After, Memories
<1>4. PICK r : r = After(code, o)
  OBVIOUS
<1>5. r = [i \in 0..NumFuncs |-> IF i = 0 THEN InitMem ELSE RunAlone(code[o[i]], r[i-1])]
  <2>1. Memories(code, o, NumFuncs, r)
    BY <1>2, <1>3, <1>4, Zenon
  <2>. QED
    BY <2>1 DEF Memories
<1>6. r[0] = InitMem
  BY <1>1, <1>5
<1>7. ASSUME NEW i \in 0..(NumFuncs - 1) PROVE r[i + 1] = RunAlone(code[o[i + 1]], r[i])
  <2>1. i + 1 \in 0..NumFuncs /\ i + 1 # 0 /\ (i + 1) - 1 = i
    BY <1>1
  <2>. QED
    BY <1>5, <2>1
<1>8. Serial(code, o, InitMem) = After(code, o)[NumFuncs]
  BY DEF Serial, After
<1>. QED
  BY <1>4, <1>6, <1>7, <1>8 DEF AfterOne

\* The hashes of the first n orders.
GoodUpto(n) == {HashMem(Serial(executables, itl[o], InitMem), shared) : o \in 1..n}

\* The kernel is about to execute the instruction f has come to after k of
\* them.
KernelAt(f, m, k) == kregs = Execution(f, m)[k].regs /\ mem = Execution(f, m)[k].mem

\* The memory the function that find_good_hashes has come to meets.
Met == After(executables, itl[at[1]])[at[2] - 1]

SerialInv ==
  /\ cpc \in {"find", "running", "found"} => at = <<1, 1>> /\ valid_hashes = {}
  /\ cpc \in {"serial", "kernel"} => /\ at \in (1..(Len(itl) + 1)) \X Tids
                                     /\ valid_hashes = GoodUpto(at[1] - 1)
  /\ cpc = "serial" /\ at[2] # 1 => mem = Met
  /\ cpc = "kernel" => /\ at[1] <= Len(itl)
                       /\ \E k \in 0..Len(Called) : KernelAt(Called, Met, k)
  /\ cpc \in {"calls", "done"} => valid_hashes = GoodUpto(Len(itl))

\* Called one after the other in any order, each function comes to its end
\* without going round a loop.
EndInEveryOrder ==
  \A o \in Orders : \A i \in Tids : Ends(executables[o[i]], After(executables, o)[i - 1])

\* One more instruction.
LEMMA KernelAdvances ==
  ASSUME NEW f \in Functions, NEW m, Ends(f, m), NEW k \in 0..Len(f), KernelAt(f, m, k),
         kregs.pc # ExitPc(f),
         kregs' = NextRegs(f, kregs, mem), mem' = NextMem(f, kregs, mem)
  PROVE  \E j \in 0..Len(f) : KernelAt(f, m, j)'
<1>1. Len(f) \in Nat /\ k \in Nat
  BY DEF Functions
<1>2. PICK r : r = Execution(f, m)
  OBVIOUS
<1>3. r[k].regs = kregs /\ r[k].mem = mem /\ r[Len(f)].regs.pc = ExitPc(f)
  BY <1>2 DEF KernelAt, Ends
<1>4. k \in 0..(Len(f) - 1) /\ k + 1 \in 0..Len(f)
  BY <1>1, <1>3
<1>5. r[k + 1] = Executed(f, r[k])
  <2>1. Follows(f, r, k)
    BY <1>2, <1>4, ExecutionSteps
  <2>. QED
    BY <2>1 DEF Follows
<1>6. r[k + 1].regs = kregs' /\ r[k + 1].mem = mem'
  BY <1>3, <1>5 DEF Executed
<1>7. KernelAt(f, m, k + 1)'
  BY <1>2, <1>6 DEF KernelAt
<1>. QED
  BY <1>4, <1>7

\* The function that is called, and the memory it meets.
LEMMA CalledFacts ==
  ASSUME EndInEveryOrder, CheckerInv,
         NEW p \in 1..Len(itl), NEW i \in Tids, at = <<p, i>>
  PROVE  /\ itl[p] \in Orders
         /\ Called = executables[itl[p][i]] /\ Called \in Functions
         /\ Met = After(executables, itl[p])[i - 1]
         /\ Ends(Called, Met)
<1>1. itl[p] \in Orders
  BY ItlIsComplete DEF PermuteIsComplete
<1>2. itl[p][i] \in Tids
  BY <1>1 DEF Orders
<1>3. at[1] = p /\ at[2] = i
  OBVIOUS
<1>. QED
  BY <1>1, <1>2, <1>3 DEF Called, Met, EndInEveryOrder, CheckerInv

\* The call of the next function of the order.
LEMMA SerialCallGood ==
  ASSUME EndInEveryOrder, CheckerInv, SerialInv, SerialCall,
         UNCHANGED executables
  PROVE  SerialInv'
<1>1. /\ cpc = "serial" /\ cpc' = "kernel" /\ at[1] <= Len(itl)
      /\ mem' = (IF at[2] = 1 THEN InitMem ELSE mem) /\ kregs' = InitRegs
      /\ UNCHANGED <<at, valid_hashes, shared>>
  BY DEF SerialCall, ileavVars
<1>2. Len(itl) \in Nat /\ 0 \in Nat
  BY ItlIsComplete DEF PermuteIsComplete
<1>3. PICK p \in 1..Len(itl), i \in Tids : at = <<p, i>>
  BY <1>1, <1>2 DEF SerialInv
<1>4. PICK f, m : f = Called /\ m = Met
  OBVIOUS
<1>5. f \in Functions /\ m = After(executables, itl[p])[i - 1]
  BY <1>3, <1>4, CalledFacts
<1>6. mem' = m
  <2>1. CASE i = 1
    <3>1. m = After(executables, itl[p])[0]
      BY <1>5, <2>1
    <3>. QED
      BY <1>1, <1>3, <2>1, <3>1, AfterFacts
  <2>2. CASE i # 1
    BY <1>1, <1>3, <1>4, <2>2 DEF SerialInv
  <2>. QED
    BY <2>1, <2>2
<1>7. Called' = f /\ Met' = m
  BY <1>1, <1>4 DEF Called, Met
<1>8. \E k \in 0..Len(Called') : KernelAt(Called, Met, k)'
  <2>1. Execution(f, m)[0] = [regs |-> InitRegs, mem |-> m]
    BY <1>5, ExecutionSteps
  <2>2. KernelAt(Called, Met, 0)'
    BY <1>1, <1>6, <1>7, <2>1 DEF KernelAt
  <2>3. 0 \in 0..Len(Called')
    BY <1>5, <1>7 DEF Functions
  <2>. QED
    BY <2>2, <2>3
<1>9. GoodUpto(at[1] - 1)' = GoodUpto(at[1] - 1)
  BY <1>1 DEF GoodUpto
<1>. QED
  BY <1>1, <1>8, <1>9 DEF SerialInv

\* An instruction of it.
LEMMA SerialStepGood ==
  ASSUME EndInEveryOrder, CheckerInv, SerialInv, SerialStep,
         UNCHANGED executables
  PROVE  SerialInv'
<1>1. /\ cpc = "kernel" /\ UNCHANGED cpc /\ at[1] <= Len(itl)
      /\ kregs.pc < ExitPc(Called)
      /\ kregs' = NextRegs(Called, kregs, mem) /\ mem' = NextMem(Called, kregs, mem)
      /\ UNCHANGED <<at, valid_hashes, shared>>
  BY DEF SerialStep, ileavVars, SerialInv
<1>2. Len(itl) \in Nat
  BY ItlIsComplete DEF PermuteIsComplete
<1>3. PICK p \in 1..Len(itl), i \in Tids : at = <<p, i>>
  BY <1>1, <1>2 DEF SerialInv
<1>4. PICK f, m : f = Called /\ m = Met
  OBVIOUS
<1>5. f \in Functions /\ Ends(f, m)
  BY <1>3, <1>4, CalledFacts
<1>6. PICK k \in 0..Len(f) : KernelAt(f, m, k)
  BY <1>1, <1>4 DEF SerialInv
<1>7. kregs.pc # ExitPc(f)
  <2>1. ExitPc(f) \in Nat
    BY <1>5 DEF ExitPc, Functions
  <2>. QED
    BY <1>1, <1>4, <2>1
<1>8. \E j \in 0..Len(f) : KernelAt(f, m, j)'
  BY <1>1, <1>4, <1>5, <1>6, <1>7, KernelAdvances
<1>9. Called' = f /\ Met' = m
  BY <1>1, <1>4 DEF Called, Met
<1>10. \E j \in 0..Len(Called') : KernelAt(Called, Met, j)'
  BY <1>8, <1>9 DEF KernelAt
<1>11. GoodUpto(at[1] - 1)' = GoodUpto(at[1] - 1)
  BY <1>1 DEF GoodUpto
<1>. QED
  BY <1>1, <1>10, <1>11 DEF SerialInv

\* Its return: the next function meets what it left, or the order is done.
LEMMA SerialReturnGood ==
  ASSUME EndInEveryOrder, CheckerInv, SerialInv, SerialReturn,
         UNCHANGED executables
  PROVE  SerialInv'
<1>1. /\ cpc = "kernel" /\ cpc' = "serial" /\ at[1] <= Len(itl)
      /\ kregs.pc = ExitPc(Called) /\ UNCHANGED <<mem, shared>>
  BY DEF SerialReturn, vars, SerialInv
<1>2. Len(itl) \in Nat /\ NumFuncs \in Nat \ {0} /\ Tids = 1..NumFuncs
  BY NumFuncsAssumption, ItlIsComplete DEF PermuteIsComplete, Tids
<1>3. PICK p \in 1..Len(itl), i \in Tids : at = <<p, i>>
  BY <1>1, <1>2 DEF SerialInv
<1>4. PICK f, m : f = Called /\ m = Met
  OBVIOUS
<1>5. PICK o \in Orders : o = itl[p]
  BY <1>3, CalledFacts
<1>6. f = executables[o[i]] /\ f \in Functions /\ m = After(executables, o)[i - 1]
  BY <1>3, <1>4, <1>5, CalledFacts
<1>7. PICK k \in 0..Len(f) : KernelAt(f, m, k)
  BY <1>1, <1>4 DEF SerialInv
<1>8. mem = RunAlone(f, m)
  <2>1. Execution(f, m)[k].regs.pc = ExitPc(f)
    BY <1>1, <1>4, <1>7 DEF KernelAt
  <2>2. Execution(f, m)[Len(f)] = Execution(f, m)[k]
    BY <1>6, <2>1, Returned
  <2>. QED
    BY <1>7, <2>2 DEF KernelAt, RunAlone
<1>9. mem = After(executables, o)[i]
  <2>1. PICK j \in 0..(NumFuncs - 1) : i = j + 1 /\ i - 1 = j
    <3>1. i - 1 \in 0..(NumFuncs - 1) /\ i = (i - 1) + 1
      BY <1>2
    <3>. QED
      BY <3>1
  <2>2. AfterOne(executables, o, j)
    BY <2>1, AfterFacts
  <2>. QED
    BY <1>6, <1>8, <2>1, <2>2 DEF AfterOne
<1>10. valid_hashes = GoodUpto(p - 1)
  BY <1>1, <1>3 DEF SerialInv
<1>11. CASE i < NumFuncs
  <2>1. at' = <<p, i + 1>> /\ UNCHANGED valid_hashes
    BY <1>3, <1>11 DEF SerialReturn
  <2>2. p \in 1..(Len(itl) + 1) /\ i + 1 \in Tids
    BY <1>2, <1>11
  <2>3. Met' = After(executables, o)[i]
    <3>1. (i + 1) - 1 = i
      BY <1>2
    <3>. QED
      BY <1>5, <2>1, <3>1 DEF Met
  <2>4. GoodUpto(at[1] - 1)' = GoodUpto(p - 1)
    BY <1>1, <2>1 DEF GoodUpto
  <2>. QED
    BY <1>1, <1>9, <1>10, <2>1, <2>2, <2>3, <2>4 DEF SerialInv
<1>12. CASE ~ (i < NumFuncs)
  <2>1. at' = <<p + 1, 1>> /\ valid_hashes' = valid_hashes \cup {HashMem(mem, shared)}
    BY <1>3, <1>12 DEF SerialReturn
  <2>2. p + 1 \in 1..(Len(itl) + 1) /\ 1 \in Tids /\ (p + 1) - 1 = p /\ i = NumFuncs
    BY <1>2, <1>12
  <2>3. mem = Serial(executables, itl[p], InitMem)
    BY <1>5, <1>9, <2>2, AfterFacts
  <2>4. 1..p = (1..(p-1)) \cup {p}
    BY <1>2
  <2>5. GoodUpto(p) = GoodUpto(p - 1) \cup {HashMem(mem, shared)}
    BY <2>3, <2>4 DEF GoodUpto
  <2>6. GoodUpto(at[1] - 1)' = GoodUpto(p)
    BY <1>1, <2>1, <2>2 DEF GoodUpto
  <2>. QED
    BY <1>1, <1>10, <2>1, <2>2, <2>5, <2>6 DEF SerialInv
<1>. QED
  BY <1>11, <1>12

\* run_interleavings takes the hashes as they are.
LEMMA HashesStay ==
  ASSUME ILNext
  PROVE  UNCHANGED <<shared, valid_hashes>>
BY DEF ILNext, Call, NextTid, StartRun, Run, FinishRun, ileavVars

\* Every step of the checker keeps the invariant.
LEMMA SerialInvSteps ==
  ASSUME EndInEveryOrder, CheckerInv, SerialInv, [CheckerNext]_everyVar
  PROVE  SerialInv'
<1>1. UNCHANGED executables
  BY GivenForGood
<1>2. CASE FindRwSet \/ RunFunction \/ FoundRwSet
  <2>1. /\ cpc \in {"find", "running"} /\ cpc' \in {"find", "running", "found"}
        /\ UNCHANGED <<at, valid_hashes>>
    BY <1>2 DEF FindRwSet, RunFunction, FoundRwSet, ileavVars, checkerVars, serialVars
  <2>. QED
    BY <2>1 DEF SerialInv
<1>3. CASE FindSharedMemory
  <2>1. /\ cpc = "found" /\ cpc' = "serial" /\ UNCHANGED <<at, valid_hashes>>
    BY <1>3 DEF FindSharedMemory, serialVars
  <2>2. at = <<1, 1>> /\ valid_hashes = {}
    BY <2>1 DEF SerialInv
  <2>3. Len(itl) \in Nat /\ 1 \in Tids
    BY NumFuncsAssumption, ItlIsComplete DEF PermuteIsComplete, Tids
  <2>4. GoodUpto(at[1] - 1)' = {}
    BY <2>1, <2>2 DEF GoodUpto
  <2>. QED
    BY <2>1, <2>2, <2>3, <2>4 DEF SerialInv
<1>4. CASE SerialCall
  BY <1>1, <1>4, SerialCallGood
<1>5. CASE SerialStep
  BY <1>1, <1>5, SerialStepGood
<1>6. CASE SerialReturn
  BY <1>1, <1>6, SerialReturnGood
<1>7. CASE FirstCall
  <2>1. cpc = "serial" /\ at[1] > Len(itl) /\ cpc' = "calls" /\ UNCHANGED <<valid_hashes, shared>>
    BY <1>7 DEF FirstCall
  <2>2. Len(itl) \in Nat /\ at[1] \in 1..(Len(itl) + 1)
    BY <2>1, ItlIsComplete DEF PermuteIsComplete, SerialInv
  <2>3. at[1] - 1 = Len(itl)
    BY <2>1, <2>2
  <2>4. valid_hashes = GoodUpto(Len(itl))
    BY <2>1, <2>3 DEF SerialInv
  <2>5. GoodUpto(Len(itl))' = GoodUpto(Len(itl))
    BY <1>1, <2>1 DEF GoodUpto
  <2>. QED
    BY <2>1, <2>4, <2>5 DEF SerialInv
<1>8. CASE Interleavings \/ NextCall
  <2>1. cpc = "calls" /\ cpc' \in {"calls", "done"} /\ UNCHANGED <<valid_hashes, shared>>
    BY <1>8, HashesStay DEF Interleavings, NextCall, checkerVars
  <2>2. GoodUpto(Len(itl))' = GoodUpto(Len(itl))
    BY <1>1, <2>1 DEF GoodUpto
  <2>. QED
    BY <2>1, <2>2 DEF SerialInv
<1>9. CASE UNCHANGED everyVar
  BY <1>9 DEF SerialInv, KernelAt, Called, Met, GoodUpto, everyVar, allVars, vars, ileavVars,
     checkerVars, givenVars, serialVars
<1>. QED
  BY <1>2, <1>3, <1>4, <1>5, <1>6, <1>7, <1>8, <1>9 DEF CheckerNext

\* All orders are the orders permute writes.
LEMMA GoodInAllOrders == GoodUpto(Len(itl)) = GoodHashes(executables, shared)
<1>1. DOMAIN itl = 1..Len(itl) /\ Orders = {itl[o] : o \in DOMAIN itl}
  BY ItlIsComplete DEF PermuteIsComplete, ToSet
<1>2. PICK O, t, n : O = Orders /\ t = itl /\ n = Len(itl)
  OBVIOUS
<1>3. GoodHashes(executables, shared) = {HashMem(Serial(executables, o, InitMem), shared) : o \in {t[i] : i \in 1..n}}
  BY <1>1, <1>2 DEF GoodHashes
<1>4. GoodUpto(n) = {HashMem(Serial(executables, t[i], InitMem), shared) : i \in 1..n}
  BY <1>2 DEF GoodUpto
<1>. QED
  BY <1>2, <1>3, <1>4

\* The invariant holds when equiv_checker_run is called.
LEMMA SerialStarts == CheckerInit => SerialInv
BY DEF CheckerInit, SerialInv

\* The hashes that run_interleavings takes for valid are those of the serial
\* executions, in every order, each on the initial memory.
THEOREM ValidStatesAreSerial == CheckerSpec => [](EndInEveryOrder => ValidAreSerial)
<1>1. CheckerInit => SerialInv
  BY SerialStarts
<1>2. [CheckerNext]_everyVar => EndInEveryOrder' = EndInEveryOrder
  <2>. SUFFICES ASSUME [CheckerNext]_everyVar PROVE EndInEveryOrder' = EndInEveryOrder
    OBVIOUS
  <2>1. UNCHANGED executables
    BY GivenForGood
  <2>. QED
    BY <2>1 DEF EndInEveryOrder
<1>3. CheckerInv /\ (EndInEveryOrder => SerialInv) /\ [CheckerNext]_everyVar
        => (EndInEveryOrder => SerialInv)'
  BY <1>2, SerialInvSteps
<1>4. (EndInEveryOrder => SerialInv) => (EndInEveryOrder => ValidAreSerial)
  BY GoodInAllOrders DEF SerialInv, ValidAreSerial
<1>. QED
  BY <1>1, <1>3, <1>4, CheckerInvariant, PTL DEF CheckerSpec

\* What is reported is not among the hashes taken for valid, in any call of
\* run_interleavings.
FlaggedInv ==
  /\ flagged \cap valid_hashes = {}
  /\ cpc \notin {"calls", "done"} => flagged = {}

LEMMA FlaggedSteps == ASSUME FlaggedInv, [CheckerNext]_everyVar PROVE FlaggedInv'
<1>1. CASE Interleavings
  <2>1. cpc = "calls" /\ cpc' = "calls" /\ ILNext
    BY <1>1 DEF Interleavings, checkerVars
  <2>2. UNCHANGED valid_hashes
    BY <2>1, HashesStay
  <2>3. flagged' \subseteq flagged \cup {h \in flagged' : h \notin valid_hashes}
    BY <2>1 DEF ILNext, Call, NextTid, StartRun, Run, FinishRun, ileavVars
  <2>. QED
    BY <2>1, <2>2, <2>3 DEF FlaggedInv
<1>2. CASE NextCall
  BY <1>2 DEF NextCall, FlaggedInv
<1>3. CASE FirstCall
  BY <1>3 DEF FirstCall, FlaggedInv
<1>4. CASE \/ FindRwSet \/ RunFunction \/ FoundRwSet \/ FindSharedMemory
           \/ SerialCall \/ SerialStep \/ SerialReturn
  <2>1. cpc \notin {"calls", "done"} /\ UNCHANGED flagged
    BY <1>4 DEF FindRwSet, RunFunction, FoundRwSet, FindSharedMemory, SerialCall, SerialStep,
                SerialReturn, ileavVars, vars
  <2>. QED
    BY <2>1 DEF FlaggedInv
<1>5. CASE UNCHANGED everyVar
  BY <1>5 DEF everyVar, allVars, ileavVars, checkerVars, FlaggedInv
<1>. QED
  BY <1>1, <1>2, <1>3, <1>4, <1>5 DEF CheckerNext

\* No false alarm, and not by the hashes but by what they stand for: a memory
\* that equiv_checker_run reports as invalid is left by no serial execution of
\* the functions, in whatever order.
THEOREM NoFalseAlarm ==
  ASSUME \A p \in Programs : \A t \in Tids : Forward(p[t])
  PROVE  CheckerSpec => [](cpc \in {"calls", "done"} =>
                             \A o \in Orders :
                               HashMem(Serial(executables, o, InitMem), shared) \notin flagged)
<1>1. CheckerInit => (\A t \in Tids : Forward(executables[t])) /\ FlaggedInv
  BY DEF CheckerInit, Fresh, FlaggedInv
<1>2. (\A t \in Tids : Forward(executables[t])) /\ [CheckerNext]_everyVar
        => (\A t \in Tids : Forward(executables[t]))'
  BY GivenForGood
<1>3. FlaggedInv /\ [CheckerNext]_everyVar => FlaggedInv'
  BY FlaggedSteps
<1>4. CheckerInv /\ (\A t \in Tids : Forward(executables[t])) => EndInEveryOrder
  <2>. SUFFICES ASSUME CheckerInv, \A t \in Tids : Forward(executables[t]),
                       NEW o \in Orders, NEW i \in Tids
                PROVE  Ends(executables[o[i]], After(executables, o)[i - 1])
    BY DEF EndInEveryOrder
  <2>1. o[i] \in Tids
    BY DEF Orders
  <2>2. executables[o[i]] \in Functions /\ Forward(executables[o[i]])
    BY <2>1 DEF CheckerInv
  <2>. QED
    BY <2>2, ForwardEnds
<1>5. (cpc \in {"calls", "done"} => ValidAreSerial) /\ FlaggedInv
        => (cpc \in {"calls", "done"} =>
              \A o \in Orders : HashMem(Serial(executables, o, InitMem), shared) \notin flagged)
  BY DEF ValidAreSerial, FlaggedInv, GoodHashes
<1>. QED
  BY <1>1, <1>2, <1>3, <1>4, <1>5, CheckerInvariant, ValidStatesAreSerial, PTL DEF CheckerSpec
-----------------------------------------------------------------------------
(***************************************************************************)
(* Which schedules get through.  A schedule that is played instruction by  *)
(* instruction, without traps, queue or enumeration (InterleaverReference) *)
(* makes all its switches, or gets stuck: some thread makes a system call  *)
(* before its segment is complete.                                         *)
(***************************************************************************)
Through(ts, d) == \E n \in Nat : GotThrough(ts, d, n)

StuckAt(ts, made, s) ==
  s.seg = made + 1 /\ Instr(text[ts[s.seg]], s.ctx[ts[s.seg]].pc).op \in Syscalls

Stuck(ts, d, made) == \E n \in Nat : StuckAt(ts, made, Played(ts, d, n))

\* The first n steps of a play.
Plays(ts, d, n, p) ==
  p = [k \in 0..n |-> IF k = 0 THEN PlayStart ELSE PlayStep(ts, d, p[k-1])]

\* There are such steps.
LEMMA PlayExists == ASSUME NEW ts, NEW d, NEW n \in Nat PROVE \E p : Plays(ts, d, n, p)
<1>. DEFINE T == {l \in Nat : ~ \E p : Plays(ts, d, l, p)}
<1>. SUFFICES ASSUME T # {} PROVE FALSE
  OBVIOUS
<1>1. PICK l \in T : \A j \in T : l <= j
  BY NatHasLeast
<1>2. l # 0
  <2>. SUFFICES \E p : Plays(ts, d, 0, p)
    OBVIOUS
  <2>1. PICK p : p = [k \in 0..0 |-> PlayStart]
    OBVIOUS
  <2>2. p = [k \in 0..0 |-> IF k = 0 THEN PlayStart ELSE PlayStep(ts, d, p[k-1])]
    BY <2>1
  <2>. QED
    BY <2>2 DEF Plays
<1>3. PICK p : Plays(ts, d, l - 1, p)
  <2>1. l - 1 \in Nat /\ ~ (l <= l - 1)
    BY <1>2
  <2>. QED
    BY <1>1, <2>1
<1>4. PICK r : r = [k \in 0..l |-> IF k = l THEN PlayStep(ts, d, p[l-1]) ELSE p[k]]
  OBVIOUS
<1>5. \A k \in 0..(l-1) : r[k] = p[k]
  BY <1>4
<1>6. ASSUME NEW k \in 0..l
      PROVE  r[k] = IF k = 0 THEN PlayStart ELSE PlayStep(ts, d, r[k-1])
  <2>1. CASE k = l
    <3>1. r[k] = PlayStep(ts, d, p[l-1]) /\ l - 1 \in 0..(l-1)
      BY <1>2, <1>4, <2>1
    <3>. QED
      BY <1>2, <1>5, <2>1, <3>1
  <2>2. CASE k # l
    <3>1. k \in 0..(l-1) /\ (k # 0 => k - 1 \in 0..(l-1))
      BY <2>2
    <3>2. p[k] = IF k = 0 THEN PlayStart ELSE PlayStep(ts, d, p[k-1])
      BY <1>3, <3>1 DEF Plays
    <3>. QED
      BY <1>5, <3>1, <3>2
  <2>. QED
    BY <2>1, <2>2
<1>7. Plays(ts, d, l, r)
  <2>1. r = [k \in 0..l |-> r[k]]
    BY <1>4
  <2>. QED
    BY <1>6, <2>1 DEF Plays
<1>. QED
  BY <1>1, <1>7

\* Longer plays go on from shorter ones.
LEMMA PlaysAgree ==
  ASSUME NEW ts, NEW d, NEW n \in Nat, NEW m \in Nat, n <= m,
         NEW p, Plays(ts, d, n, p), NEW r, Plays(ts, d, m, r)
  PROVE  p[n] = r[n]
<1>. DEFINE T == {l \in 0..n : p[l] # r[l]}
<1>1. \A l \in 0..n : p[l] = IF l = 0 THEN PlayStart ELSE PlayStep(ts, d, p[l-1])
  BY DEF Plays
<1>2. \A l \in 0..n : r[l] = IF l = 0 THEN PlayStart ELSE PlayStep(ts, d, r[l-1])
  <2>1. 0..n \subseteq 0..m
    OBVIOUS
  <2>. QED
    BY <2>1 DEF Plays
<1>3. T = {}
  <2>. SUFFICES ASSUME T # {} PROVE FALSE
    OBVIOUS
  <2>1. T \subseteq Nat
    OBVIOUS
  <2>2. PICK l \in T : \A j \in T : l <= j
    <3>. HIDE DEF T
    <3>. QED
      BY <2>1, NatHasLeast
  <2>3. l # 0
    BY <1>1, <1>2
  <2>4. l - 1 \in 0..n /\ ~ (l <= l - 1)
    BY <2>3
  <2>5. p[l-1] = r[l-1]
    BY <2>2, <2>4
  <2>. QED
    BY <1>1, <1>2, <2>3, <2>5
<1>. QED
  BY <1>3

\* A play begins at PlayStart and goes on by PlayStep.
PlayFollows(ts, d, n) == Played(ts, d, n + 1) = PlayStep(ts, d, Played(ts, d, n))

LEMMA PlayedFacts ==
  ASSUME NEW ts, NEW d
  PROVE  Played(ts, d, 0) = PlayStart /\ \A n \in Nat : PlayFollows(ts, d, n)
<1>1. ASSUME NEW n \in Nat PROVE \E p : Plays(ts, d, n, p) /\ Played(ts, d, n) = p[n]
  <2>1. PICK p : p = CHOOSE r : Plays(ts, d, n, r)
    OBVIOUS
  <2>2. Plays(ts, d, n, p)
    BY <2>1, PlayExists, Zenon
  <2>3. Played(ts, d, n) = p[n]
    BY <2>1 DEF Played, Plays
  <2>. QED
    BY <2>2, <2>3
<1>2. Played(ts, d, 0) = PlayStart
  <2>1. PICK p : Plays(ts, d, 0, p) /\ Played(ts, d, 0) = p[0]
    BY <1>1
  <2>. QED
    BY <2>1 DEF Plays
<1>3. ASSUME NEW n \in Nat PROVE PlayFollows(ts, d, n)
  <2>1. PICK p : Plays(ts, d, n, p) /\ Played(ts, d, n) = p[n]
    BY <1>1
  <2>2. PICK m \in Nat : m = n + 1
    OBVIOUS
  <2>3. PICK r : Plays(ts, d, m, r) /\ Played(ts, d, m) = r[m]
    BY <1>1
  <2>4. p[n] = r[n]
    BY <2>1, <2>2, <2>3, PlaysAgree
  <2>5. r[m] = PlayStep(ts, d, r[n])
    <3>1. m \in 0..m /\ m # 0 /\ m - 1 = n
      BY <2>2
    <3>. QED
      BY <2>3, <3>1 DEF Plays
  <2>. QED
    BY <2>1, <2>2, <2>3, <2>4, <2>5 DEF PlayFollows
<1>. QED
  BY <1>2, <1>3

\* The same functions and the same shared memory: the same plays.
LEMMA PlayedUnchanged ==
  ASSUME UNCHANGED <<text, shared, ncs>>
  PROVE  /\ \A ts, d, n : Played(ts, d, n)' = Played(ts, d, n)
         /\ \A ts, d : Through(ts, d)' = Through(ts, d)
         /\ \A ts, d, made : Stuck(ts, d, made)' = Stuck(ts, d, made)
<1>1. \A ts, d, s : PlayStep(ts, d, s)' = PlayStep(ts, d, s)
  BY DEF PlayStep
<1>2. ASSUME NEW ts, NEW d, NEW n PROVE Played(ts, d, n)' = Played(ts, d, n)
  BY <1>1 DEF Played, PlayStart
<1>3. \A ts, d : Through(ts, d)' = Through(ts, d)
  BY <1>2 DEF Through, GotThrough
<1>4. \A ts, d, made : Stuck(ts, d, made)' = Stuck(ts, d, made)
  BY <1>2 DEF Stuck, StuckAt
<1>. QED
  BY <1>2, <1>3, <1>4

\* The segments are numbered from 1, and one that is in progress is not
\* complete.
PlayOK(d, s) ==
  /\ s.seg \in Nat /\ s.seg > 0 /\ s.seg <= ncs + 1 /\ s.count \in Nat
  /\ s.seg <= ncs => s.count < d[s.seg]

\* The accesses in the segment after one more instruction.
CountAfter(ts, s) ==
  IF Touched(text[ts[s.seg]], s.ctx[ts[s.seg]].pc) \cap shared = {} THEN s.count ELSE s.count + 1

\* A step stays in its segment or goes on to the next.
LEMMA PlayStepFacts ==
  ASSUME ncs \in Nat \ {0}, NEW ts, NEW d \in [1..ncs -> Nat \ {0}], NEW s, PlayOK(d, s)
  PROVE  /\ PlayOK(d, PlayStep(ts, d, s))
         /\ \/ PlayStep(ts, d, s) = s
            \/ PlayStep(ts, d, s).seg = IF CountAfter(ts, s) = d[s.seg] THEN s.seg + 1 ELSE s.seg
         /\ PlayStep(ts, d, s).seg \in {s.seg, s.seg + 1}
<1>. DEFINE n == CountAfter(ts, s)
            r == PlayStep(ts, d, s)
<1>1. CASE s.seg > ncs \/ Instr(text[ts[s.seg]], s.ctx[ts[s.seg]].pc).op \in Syscalls
  BY <1>1 DEF PlayStep, PlayOK
<1>2. CASE ~ (s.seg > ncs \/ Instr(text[ts[s.seg]], s.ctx[ts[s.seg]].pc).op \in Syscalls)
  <2>1. s.seg \in 1..ncs /\ d[s.seg] \in Nat \ {0}
    BY <1>2 DEF PlayOK
  <2>2. r.seg = IF n = d[s.seg] THEN s.seg + 1 ELSE s.seg
    BY <1>2 DEF PlayStep, CountAfter
  <2>3. r.count = IF n = d[s.seg] THEN 0 ELSE n
    BY <1>2 DEF PlayStep, CountAfter
  <2>4. n \in Nat /\ n <= d[s.seg]
    BY <2>1 DEF PlayOK, CountAfter
  <2>. HIDE DEF n, r
  <2>5. CASE n = d[s.seg]
    <3>1. r.seg = s.seg + 1 /\ r.count = 0
      BY <2>2, <2>3, <2>5
    <3>2. s.seg + 1 <= ncs => d[s.seg + 1] \in Nat \ {0}
      BY <2>1
    <3>. QED
      BY <2>1, <2>2, <3>1, <3>2 DEF PlayOK, n, r
  <2>6. CASE n # d[s.seg]
    <3>1. r.seg = s.seg /\ r.count = n /\ n < d[s.seg]
      BY <2>1, <2>2, <2>3, <2>4, <2>6
    <3>. QED
      BY <2>1, <2>2, <2>4, <3>1 DEF PlayOK, n, r
  <2>. QED
    BY <2>5, <2>6
<1>. QED
  BY <1>1, <1>2

\* So it is all along the play.
LEMMA PlayedOK ==
  ASSUME ncs \in Nat \ {0}, NEW ts, NEW d \in [1..ncs -> Nat \ {0}], NEW n \in Nat
  PROVE  PlayOK(d, Played(ts, d, n))
<1>. DEFINE T == {l \in Nat : ~ PlayOK(d, Played(ts, d, l))}
<1>. SUFFICES ASSUME T # {} PROVE FALSE
  OBVIOUS
<1>1. PICK l \in T : \A j \in T : l <= j
  BY NatHasLeast
<1>2. PlayOK(d, PlayStart)
  <2>1. PlayStart.seg = 1 /\ PlayStart.count = 0
    BY DEF PlayStart
  <2>2. 1 \in 1..ncs /\ d[1] \in Nat \ {0}
    OBVIOUS
  <2>. QED
    BY <2>1, <2>2 DEF PlayOK
<1>3. l # 0
  BY <1>2, PlayedFacts
<1>4. PICK k \in Nat : l = k + 1 /\ ~ (l <= k)
  <2>1. l - 1 \in Nat /\ l = (l - 1) + 1 /\ ~ (l <= l - 1)
    BY <1>3
  <2>. QED
    BY <2>1
<1>5. PlayOK(d, Played(ts, d, k))
  BY <1>1, <1>4
<1>6. PlayFollows(ts, d, k)
  BY PlayedFacts
<1>7. PlayOK(d, Played(ts, d, l))
  BY <1>4, <1>5, <1>6, PlayStepFacts DEF PlayFollows
<1>. QED
  BY <1>7

\* Segments are not left backwards.
LEMMA PlayAscends ==
  ASSUME ncs \in Nat \ {0}, NEW ts, NEW d \in [1..ncs -> Nat \ {0}],
         NEW n \in Nat, NEW m \in Nat, n <= m
  PROVE  Played(ts, d, n).seg <= Played(ts, d, m).seg
<1>. DEFINE T == {l \in Nat : n <= l /\ ~ (Played(ts, d, n).seg <= Played(ts, d, l).seg)}
<1>. SUFFICES ASSUME T # {} PROVE FALSE
  OBVIOUS
<1>1. PICK l \in T : \A j \in T : l <= j
  BY NatHasLeast
<1>2. \A k \in Nat : Played(ts, d, k).seg \in Nat
  BY PlayedOK DEF PlayOK
<1>3. l # n
  BY <1>2
<1>4. PICK k \in Nat : l = k + 1 /\ ~ (l <= k) /\ n <= k
  <2>1. l - 1 \in Nat /\ l = (l - 1) + 1 /\ ~ (l <= l - 1) /\ n <= l - 1
    BY <1>3
  <2>. QED
    BY <2>1
<1>5. Played(ts, d, n).seg <= Played(ts, d, k).seg
  BY <1>1, <1>4
<1>6. PlayFollows(ts, d, k) /\ PlayOK(d, Played(ts, d, k))
  BY PlayedFacts, PlayedOK
<1>7. Played(ts, d, l).seg \in {Played(ts, d, k).seg, Played(ts, d, k).seg + 1}
  BY <1>4, <1>6, PlayStepFacts DEF PlayFollows
<1>. QED
  BY <1>2, <1>5, <1>7

\* A thread that makes a system call in the middle of its segment ends the
\* play.
LEMMA StuckStays ==
  ASSUME NEW ts, NEW d, NEW made, NEW n \in Nat, StuckAt(ts, made, Played(ts, d, n)),
         NEW m \in Nat, n <= m
  PROVE  Played(ts, d, m) = Played(ts, d, n)
<1>. DEFINE T == {l \in Nat : n <= l /\ Played(ts, d, l) # Played(ts, d, n)}
<1>. SUFFICES ASSUME T # {} PROVE FALSE
  OBVIOUS
<1>1. PICK l \in T : \A j \in T : l <= j
  BY NatHasLeast
<1>4. PICK k \in Nat : l = k + 1 /\ ~ (l <= k) /\ n <= k
  <2>0. l # n
    OBVIOUS
  <2>1. l - 1 \in Nat /\ l = (l - 1) + 1 /\ ~ (l <= l - 1) /\ n <= l - 1
    BY <2>0
  <2>. QED
    BY <2>1
<1>5. Played(ts, d, k) = Played(ts, d, n)
  BY <1>1, <1>4
<1>6. PlayFollows(ts, d, k)
  BY PlayedFacts
<1>7. PlayStep(ts, d, Played(ts, d, n)) = Played(ts, d, n)
  BY DEF PlayStep, StuckAt
<1>. QED
  BY <1>4, <1>5, <1>6, <1>7 DEF PlayFollows

\* A schedule that gets stuck before its last switch does not get through.
LEMMA StuckIsNotThrough ==
  ASSUME ncs \in Nat \ {0}, NEW ts, NEW d \in [1..ncs -> Nat \ {0}], NEW made \in Nat, made < ncs,
         Stuck(ts, d, made)
  PROVE  ~ Through(ts, d)
<1>1. PICK n \in Nat : StuckAt(ts, made, Played(ts, d, n))
  BY DEF Stuck
<1>. SUFFICES ASSUME NEW m \in Nat, GotThrough(ts, d, m) PROVE FALSE
  BY DEF Through
<1>2. Played(ts, d, n).seg = made + 1 /\ Played(ts, d, m).seg > ncs
  BY <1>1 DEF StuckAt, GotThrough
<1>3. Played(ts, d, m).seg \in Nat
  BY PlayedOK DEF PlayOK
<1>4. CASE n <= m
  BY <1>1, <1>2, <1>4, StuckStays
<1>5. CASE m <= n
  BY <1>2, <1>3, <1>5, PlayAscends
<1>. QED
  BY <1>4, <1>5

\* Counts that agree with those of a play that gets stuck, up to the segment
\* where it does, and ask at least as much of that one, get stuck there, too.
LEMMA StuckTogether ==
  ASSUME ncs \in Nat \ {0}, NEW ts,
         NEW c \in [1..ncs -> Nat \ {0}], NEW d \in [1..ncs -> Nat \ {0}],
         NEW made \in Nat, made < ncs, Stuck(ts, c, made),
         \A j \in 1..made : c[j] = d[j], c[made + 1] <= d[made + 1]
  PROVE  Stuck(ts, d, made)
<1>1. PICK n \in Nat : StuckAt(ts, made, Played(ts, c, n))
  BY DEF Stuck
<1>2. Played(ts, c, n).seg = made + 1
  BY <1>1 DEF StuckAt
<1>3. ASSUME NEW k \in Nat, k < n
      PROVE  PlayStep(ts, c, Played(ts, c, k)) = PlayStep(ts, d, Played(ts, c, k))
  <2>1. PICK s : s = Played(ts, c, k)
    OBVIOUS
  <2>2. PlayOK(c, s) /\ PlayFollows(ts, c, k)
    BY <2>1, PlayedOK, PlayedFacts
  <2>3. PICK m \in Nat : m = k + 1
    OBVIOUS
  <2>4. s.seg <= made + 1 /\ Played(ts, c, m).seg <= made + 1
    <3>1. k <= n /\ m <= n
      BY <1>3, <2>3
    <3>2. /\ Played(ts, c, k).seg <= Played(ts, c, n).seg
          /\ Played(ts, c, m).seg <= Played(ts, c, n).seg
      BY <3>1, PlayAscends
    <3>. QED
      BY <1>2, <2>1, <3>2, Zenon
  <2>5. Played(ts, c, m) = PlayStep(ts, c, s)
    BY <2>1, <2>2, <2>3 DEF PlayFollows
  <2>6. s.seg \in 1..ncs /\ c[s.seg] \in Nat \ {0} /\ d[s.seg] \in Nat \ {0} /\ s.seg \in 1..(made + 1)
    BY <2>2, <2>4 DEF PlayOK
  <2>7. CASE Instr(text[ts[s.seg]], s.ctx[ts[s.seg]].pc).op \in Syscalls
    BY <2>1, <2>7 DEF PlayStep
  <2>8. CASE Instr(text[ts[s.seg]], s.ctx[ts[s.seg]].pc).op \notin Syscalls
    <3>1. CountAfter(ts, s) = c[s.seg] <=> CountAfter(ts, s) = d[s.seg]
      <4>1. CASE s.seg \in 1..made
        BY <4>1
      <4>2. CASE s.seg = made + 1
        <5>1. CountAfter(ts, s) \in Nat /\ CountAfter(ts, s) <= c[s.seg]
          <6>1. s.count \in Nat /\ s.count < c[s.seg] /\ c[s.seg] \in Nat
            BY <2>2, <2>6 DEF PlayOK
          <6>2. CountAfter(ts, s) \in {s.count, s.count + 1}
            BY DEF CountAfter
          <6>3. \A x, y \in Nat : x < y => \A z \in {x, x + 1} : z \in Nat /\ z <= y
            OBVIOUS
          <6>. QED
            BY <6>1, <6>2, <6>3, Zenon
        <5>2. PlayStep(ts, c, s).seg = IF CountAfter(ts, s) = c[s.seg] THEN s.seg + 1 ELSE s.seg
          <6>1. ~ (s.seg > ncs \/ Instr(text[ts[s.seg]], s.ctx[ts[s.seg]].pc).op \in Syscalls)
            BY <2>6, <2>8
          <6>. QED
            BY <6>1 DEF PlayStep, CountAfter
        <5>3. CountAfter(ts, s) # c[s.seg]
          BY <2>4, <2>5, <2>6, <4>2, <5>2
        <5>. QED
          BY <2>6, <4>2, <5>1, <5>3
      <4>. QED
        BY <2>6, <4>1, <4>2
    <3>. QED
      BY <2>1, <3>1 DEF PlayStep, CountAfter
  <2>. QED
    BY <2>7, <2>8
<1>. DEFINE T == {l \in 0..n : Played(ts, d, l) # Played(ts, c, l)}
<1>4. T = {}
  <2>. SUFFICES ASSUME T # {} PROVE FALSE
    OBVIOUS
  <2>1. T \subseteq Nat
    OBVIOUS
  <2>2. PICK l \in T : \A j \in T : l <= j
    <3>. HIDE DEF T
    <3>. QED
      BY <2>1, NatHasLeast
  <2>3. l # 0
    BY PlayedFacts
  <2>4. PICK k \in Nat : l = k + 1 /\ ~ (l <= k) /\ k < n /\ k \in 0..n
    <3>1. l - 1 \in Nat /\ l = (l - 1) + 1 /\ ~ (l <= l - 1) /\ l - 1 < n /\ l - 1 \in 0..n
      BY <2>3
    <3>. QED
      BY <3>1
  <2>5. Played(ts, d, k) = Played(ts, c, k)
    BY <2>2, <2>4
  <2>6. PlayFollows(ts, d, k) /\ PlayFollows(ts, c, k)
    BY PlayedFacts
  <2>7. Played(ts, d, l) = Played(ts, c, l)
    BY <1>3, <2>4, <2>5, <2>6 DEF PlayFollows
  <2>. QED
    BY <2>7
<1>5. Played(ts, d, n) = Played(ts, c, n)
  <2>1. n \in 0..n
    OBVIOUS
  <2>. QED
    BY <1>4, <2>1, Zenon
<1>. QED
  BY <1>1, <1>5 DEF Stuck

\* A run of equiv_run, seen through the mapping of ScheduledRun, is the play
\* of its schedule: as far as it got, the threads, the memory and the count
\* are those of s.
Reaches(s) ==
  LET k == ctx_switch_status.ctx_switch  over == countBar = instr_nums[k + 1] IN
  /\ s.ctx = ctxBar /\ s.mem = mem
  /\ s.seg = IF over THEN k + 2 ELSE k + 1
  /\ s.count = IF over THEN 0 ELSE countBar

\* The switches made tell how the play ends.
PlayInv ==
  LET k == ctx_switch_status.ctx_switch IN
  /\ shared_memory = shared
  /\ kpc = "start" => schedule # NoSchedule /\ ctx_switch_status = ResetStatus
  /\ kpc = "stopped" => schedule = NoSchedule
  /\ Active /\ kpc \in {"start", "retrieve", "user"} =>
       \E n \in Nat : Reaches(Played(tids, instr_nums, n))
  /\ schedule = NoSchedule /\ k < ncs => Stuck(tids, instr_nums, k)
  /\ k = ncs => Through(tids, instr_nums)

\* Nothing that equiv_run does changes these.
LEMMA RunLeaves ==
  Next => /\ UNCHANGED <<text, shared_memory>>
          /\ kpc \in {"start", "retrieve", "user"} /\ kpc' # "start"
          /\ kpc' = "stopped" => schedule' = NoSchedule
BY DEF Next, KernelStep, EquivRun, Rotate, EnterFirst, SwitchTo, Retrieve, RunThread,
   UserStep, StepOnly, StepCount, StepSwitch, MismatchFault, DataAbort, Commit,
   Syscall, SysPutc, SysYield, SysExit, Swi, schedVars

\* Steps of the kernel that the play does not see.
LEMMA PlayPauses ==
  ASSUME PlayInv, kpc \in {"start", "retrieve", "user"}, kpc' \notin {"start", "stopped"},
         UNCHANGED <<text, mem, schedule, shared_memory, ileavVars>>,
         ctx_switch_status'.ctx_switch = ctx_switch_status.ctx_switch,
         Active /\ kpc' \in {"start", "retrieve", "user"} => ctxBar' = ctxBar /\ countBar' = countBar
  PROVE  PlayInv'
<1>1. UNCHANGED <<text, shared, ncs, tids, instr_nums>>
  BY DEF ileavVars
<1>2. Active' <=> Active
  BY DEF Active, n_ctx_switches
<1>3. /\ \A n : Played(tids, instr_nums, n)' = Played(tids, instr_nums, n)
      /\ Through(tids, instr_nums)' = Through(tids, instr_nums)
      /\ \A made : Stuck(tids, instr_nums, made)' = Stuck(tids, instr_nums, made)
  BY <1>1, PlayedUnchanged
<1>4. ASSUME Active', kpc' \in {"start", "retrieve", "user"}
      PROVE  (\E n \in Nat : Reaches(Played(tids, instr_nums, n)))'
  <2>1. PICK n \in Nat : Reaches(Played(tids, instr_nums, n))
    BY <1>2, <1>4 DEF PlayInv
  <2>2. PICK s : s = Played(tids, instr_nums, n) /\ s = Played(tids, instr_nums, n)'
    BY <1>3
  <2>3. Reaches(s) /\ Reaches(s)'
    BY <1>1, <1>2, <1>4, <2>1, <2>2 DEF Reaches
  <2>. QED
    BY <2>2, <2>3
<1>. QED
  BY <1>1, <1>3, <1>4 DEF PlayInv

\* What a step of the run meets.
LEMMA PlayFacts ==
  ASSUME ILInv, PrintInv, ipc = "running"
  PROVE  LET k == ctx_switch_status.ctx_switch  n == ctx_switch_status.instr_count IN
         /\ ncs \in Nat \ {0} /\ k \in 0..ncs /\ n \in Nat
         /\ instr_nums \in [1..ncs -> Nat \ {0}]
         /\ ctx_switch_status.do_instr_count \in {0, 1}
         /\ ctx_switch_status.do_instr_count = 1 => kpc = "user" /\ Active
         /\ Active <=> schedule # NoSchedule /\ k < ncs
         /\ Active => /\ schedule = PlanNow /\ n < instr_nums[k + 1]
                      /\ SegmentLength = instr_nums[k + 1]
                      /\ kpc = "user" => cur_thread = tids[k + 1] /\ cur_thread \in Tids
         /\ ThreadsInv
<1>1. /\ instr_nums \in [1..ncs -> Nat \ {0}] /\ ncs \in Nat \ {0} /\ Len(instr_nums) = ncs
  <2>1. instr_nums \in [1..ncs -> Nat \ {0}] /\ ncs \in Nat \ {0}
    BY SwitchesFacts DEF ILInv
  <2>. QED
    BY <2>1, FunctionIsSeq
<1>2. PICK plan : plan = PlanNow
  OBVIOUS
<1>3. plan.instr_counts = instr_nums /\ plan.tids = tids
  BY <1>2 DEF PlanNow
<1>4. IsSchedule(plan) /\ RunOK(plan) /\ ReportInv(plan)
  BY <1>2 DEF ILInv, PrintInv
<1>5. ThreadsInv /\ schedule \in {plan, NoSchedule}
  BY <1>4 DEF RunOK
<1>6. Active <=> schedule # NoSchedule /\ ctx_switch_status.ctx_switch < ncs
  BY <1>1, <1>3, <1>5 DEF Active, n_ctx_switches
<1>7. ctx_switch_status.do_instr_count = 1 => kpc = "user" /\ Active
  BY <1>5 DEF ThreadsInv, ControlInv, CountPendingOnlyWhenActive
<1>8. Active => /\ SegmentLength = instr_nums[ctx_switch_status.ctx_switch + 1]
                /\ kpc = "user" => /\ cur_thread = tids[ctx_switch_status.ctx_switch + 1]
                                   /\ cur_thread \in Tids
  BY <1>3, <1>4, <1>5 DEF ReportInv, SegmentLength, ThreadsInv, ControlInv, Active
<1>9. /\ ctx_switch_status.ctx_switch \in Nat
      /\ ctx_switch_status.ctx_switch <= Len(plan.instr_counts)
      /\ ctx_switch_status.instr_count \in Nat
      /\ ctx_switch_status.do_instr_count \in {0, 1}
      /\ Active => /\ schedule = plan
                   /\ ctx_switch_status.instr_count < plan.instr_counts[ctx_switch_status.ctx_switch + 1]
  BY <1>4, RunFacts
<1>. QED
  BY <1>1, <1>2, <1>3, <1>5, <1>6, <1>7, <1>8, <1>9

\* equiv_run and retrieve_tid_from_queue: nothing runs.
LEMMA KernelStepPlays ==
  ASSUME ILInv, PrintInv, PlayInv, ipc = "running", KernelStep, UNCHANGED ileavVars PROVE PlayInv'
<1>. DEFINE k == ctx_switch_status.ctx_switch
<1>1. /\ UNCHANGED <<text, shared_memory>>
      /\ kpc \in {"start", "retrieve"} /\ kpc' \notin {"start", "stopped"}
  BY RunLeaves DEF Next, KernelStep, EquivRun, Rotate, EnterFirst, SwitchTo, Retrieve, RunThread
<1>2. UNCHANGED <<mem, regs, schedule, ctx_switch_status>>
  BY DEF KernelStep, EquivRun, Rotate, EnterFirst, SwitchTo, schedVars
<1>3. ctx_switch_status.do_instr_count = 0 /\ ctx_switch_status.instr_count \in Nat
  BY <1>1, PlayFacts
<1>4. countBar = ctx_switch_status.instr_count /\ countBar' = ctx_switch_status.instr_count
  BY <1>2, <1>3 DEF countBar
<1>5. ctxBar = [t \in Tids |-> regs[t]]
  BY <1>1 DEF ctxBar, InHand
<1>6. ASSUME Active, kpc' \in {"start", "retrieve", "user"} PROVE ctxBar' = ctxBar
  <2>1. CASE kpc' = "user"
    <3>1. EnterFirst \/ SwitchTo
      BY <1>1, <1>6, <2>1 DEF KernelStep, EquivRun, Rotate, EnterFirst, SwitchTo, Retrieve, PlayInv, Active
    <3>2. cpu' = regs[cur_thread']
      BY <3>1 DEF EnterFirst, SwitchTo, RunThread
    <3>. QED
      BY <1>2, <1>5, <3>2 DEF ctxBar, InHand
  <2>2. CASE kpc' # "user"
    BY <1>2, <1>5, <1>6, <2>2 DEF ctxBar, InHand
  <2>. QED
    BY <2>1, <2>2
<1>. QED
  BY <1>1, <1>2, <1>4, <1>6, PlayPauses

\* The mismatch within a segment, and the data abort: the instruction at the
\* breakpoint has not committed.
LEMMA FaultPlays ==
  ASSUME ILInv, PrintInv, PlayInv, ipc = "running", StepOnly \/ StepCount \/ DataAbort,
         UNCHANGED ileavVars
  PROVE  PlayInv'
<1>1. /\ kpc = "user" /\ kpc' = "user"
      /\ UNCHANGED <<text, mem, schedule, shared_memory, cur_thread, cpu>>
  BY DEF StepOnly, StepCount, DataAbort, MismatchFault, threadVars
<1>2. ThreadsInv /\ ctx_switch_status \in Statuses /\ regs \in [Tids -> Regs]
  BY PlayFacts DEF ThreadsInv, TypeOK
<1>3. /\ ctx_switch_status'.ctx_switch = ctx_switch_status.ctx_switch
      /\ countBar' = countBar
  <2>1. CASE StepOnly
    BY <1>1, <1>2, <2>1 DEF StepOnly, MismatchFault, countBar, Statuses
  <2>2. CASE StepCount
    BY <1>1, <1>2, <2>2 DEF StepCount, MismatchFault, countBar, Statuses, Settled, Counted
  <2>3. CASE DataAbort
    BY <1>1, <1>2, <2>3 DEF DataAbort, threadVars, countBar, Statuses
  <2>. QED
    BY <2>1, <2>2, <2>3
<1>4. \A t \in Tids : t # cur_thread => regs'[t] = regs[t]
  BY <1>2 DEF StepOnly, StepCount, DataAbort, MismatchFault, threadVars
<1>5. ctxBar' = ctxBar
  BY <1>1, <1>4 DEF ctxBar, InHand
<1>. QED
  BY <1>1, <1>3, <1>5, PlayPauses

\* Once no switch is to come, the end of the play is known.
LEMMA PlayIsOver ==
  ASSUME PlayInv, ~ Active', kpc' \notin {"start", "stopped"},
         UNCHANGED <<text, schedule, shared_memory, ileavVars>>,
         ctx_switch_status'.ctx_switch = ctx_switch_status.ctx_switch
  PROVE  PlayInv'
<1>1. UNCHANGED <<text, shared, ncs, tids, instr_nums>>
  BY DEF ileavVars
<1>2. /\ Through(tids, instr_nums)' = Through(tids, instr_nums)
      /\ \A made : Stuck(tids, instr_nums, made)' = Stuck(tids, instr_nums, made)
  BY <1>1, PlayedUnchanged
<1>. QED
  BY <1>1, <1>2 DEF PlayInv

\* An instruction commits: the next step of the play.
LEMMA CommitPlays ==
  ASSUME ILInv, PrintInv, PlayInv, ipc = "running", Commit, UNCHANGED ileavVars PROVE PlayInv'
<1>. DEFINE k == ctx_switch_status.ctx_switch
            c == ctx_switch_status.instr_count
            do == ctx_switch_status.do_instr_count
<1>1. /\ kpc = "user" /\ kpc' = "user" /\ cpu.pc = bvr /\ bvr' = bvr
      /\ ~ At(Syscalls) /\ ~ (armed /\ Here # {})
      /\ UNCHANGED <<text, schedule, shared_memory, cur_thread, regs, ctx_switch_status>>
      /\ cpu' = NextRegs(text[cur_thread], cpu, mem)
      /\ mem' = NextMem(text[cur_thread], cpu, mem)
  BY DEF Commit, schedVars
<1>2. UNCHANGED <<text, shared, ncs, tids, instr_nums>>
  BY <1>1 DEF ileavVars
<1>3. CASE ~ Active
  <2>1. ~ Active'
    BY <1>1, <1>3 DEF Active, n_ctx_switches
  <2>. QED
    BY <1>1, <2>1, PlayIsOver
<1>4. CASE Active
  <2>1. /\ ncs \in Nat \ {0} /\ k \in 0..ncs /\ k < ncs /\ c \in Nat /\ do \in {0, 1}
        /\ schedule = PlanNow /\ c < instr_nums[k + 1] /\ instr_nums \in [1..ncs -> Nat \ {0}]
        /\ cur_thread = tids[k + 1] /\ cur_thread \in Tids /\ ThreadsInv
    BY <1>1, <1>4, PlayFacts
  <2>2. PICK t : t = cur_thread
    OBVIOUS
  <2>3. PICK n \in Nat : Reaches(Played(tids, instr_nums, n))
    BY <1>1, <1>4 DEF PlayInv
  <2>4. PICK s : s = Played(tids, instr_nums, n)
    OBVIOUS
  <2>5. countBar = c /\ c # instr_nums[k + 1]
    <3>1. instr_nums[k + 1] \in Nat
      BY <2>1
    <3>. QED
      BY <1>1, <2>1, <3>1 DEF countBar
  <2>6. s.ctx = ctxBar /\ s.mem = mem /\ s.seg = k + 1 /\ s.count = c
    BY <2>3, <2>4, <2>5 DEF Reaches
  <2>7. ctxBar = [u \in Tids |-> IF u = t THEN cpu ELSE regs[u]] /\ ctxBar[t] = cpu
    BY <1>1, <2>1, <2>2 DEF ctxBar, InHand
  <2>8. tids[s.seg] = t /\ s.ctx[t] = cpu /\ ~ (s.seg > ncs)
    BY <2>1, <2>2, <2>6, <2>7
  <2>9. Instr(text[t], cpu.pc).op \notin Syscalls
    BY <1>1, <2>2 DEF At
  <2>10. PICK a : a = IF Touched(text[t], cpu.pc) \cap shared = {} THEN c ELSE c + 1
    OBVIOUS
  <2>11. PICK r : r = PlayStep(tids, instr_nums, s)
    OBVIOUS
  <2>12. r = [ctx   |-> [s.ctx EXCEPT ![t] = NextRegs(text[t], cpu, mem)],
              mem   |-> NextMem(text[t], cpu, mem),
              seg   |-> IF a = instr_nums[k + 1] THEN k + 2 ELSE k + 1,
              count |-> IF a = instr_nums[k + 1] THEN 0 ELSE a]
    BY <2>1, <2>6, <2>8, <2>9, <2>10, <2>11 DEF PlayStep
  <2>13. r.ctx = ctxBar'
    <3>1. ctxBar' = [u \in Tids |-> IF u = t THEN cpu' ELSE regs[u]]
      BY <1>1, <2>2 DEF ctxBar, InHand
    <3>2. [s.ctx EXCEPT ![t] = NextRegs(text[t], cpu, mem)]
            = [u \in Tids |-> IF u = t THEN NextRegs(text[t], cpu, mem) ELSE regs[u]]
      BY <2>6, <2>7
    <3>. QED
      BY <1>1, <2>2, <2>12, <3>1, <3>2
  <2>14. r.mem = mem'
    BY <1>1, <2>2, <2>12
  <2>15. countBar' = a
    <3>1. cpu'.pc # bvr
      <4>1. /\ text[cur_thread] \in Functions /\ cpu \in Regs /\ cpu.pc \in Pcs(text[cur_thread])
            /\ mem \in [Addrs -> Words]
        BY <1>1, <2>1 DEF ThreadsInv, TypeOK, ControlInv
      <4>2. Instr(text[cur_thread], cpu.pc).op \notin Syscalls
        BY <1>1 DEF At
      <4>. QED
        BY <1>1, <4>1, <4>2, CommitFacts
    <3>2. do = 1 <=> Here \cap shared_memory # {}
      BY <1>1, <1>4, <2>1, CountedCommits DEF CommitsAreCounted
    <3>3. Here \cap shared_memory = Touched(text[t], cpu.pc) \cap shared
      BY <2>2 DEF Here, PlayInv
    <3>4. countBar' = c + do
      BY <1>1, <3>1 DEF countBar
    <3>. QED
      BY <2>1, <2>10, <3>2, <3>3, <3>4
  <2>16. Reaches(r)'
    <3>1. /\ r.seg = IF a = instr_nums[k + 1] THEN k + 2 ELSE k + 1
          /\ r.count = IF a = instr_nums[k + 1] THEN 0 ELSE a
      BY <2>12
    <3>. QED
      BY <1>1, <1>2, <2>13, <2>14, <2>15, <3>1 DEF Reaches
  <2>17. PICK m \in Nat : m = n + 1
    OBVIOUS
  <2>18. r = Played(tids, instr_nums, m)
    BY <2>4, <2>11, <2>17, PlayedFacts DEF PlayFollows
  <2>19. /\ Played(tids, instr_nums, m)' = Played(tids, instr_nums, m)
         /\ Through(tids, instr_nums)' = Through(tids, instr_nums)
         /\ \A made : Stuck(tids, instr_nums, made)' = Stuck(tids, instr_nums, made)
    BY <1>2, PlayedUnchanged
  <2>20. (\E l \in Nat : Reaches(Played(tids, instr_nums, l)))'
    <3>1. Reaches(Played(tids, instr_nums, m))'
      BY <2>16, <2>18, <2>19
    <3>. QED
      BY <3>1
  <2>. QED
    BY <1>1, <1>2, <2>19, <2>20 DEF PlayInv
<1>. QED
  BY <1>3, <1>4

\* The context switch: the play went on to the next segment with the last
\* access already.
LEMMA SwitchPlays ==
  ASSUME ILInv, PrintInv, PlayInv, ipc = "running", StepSwitch, UNCHANGED ileavVars PROVE PlayInv'
<1>. DEFINE k == ctx_switch_status.ctx_switch
            c == ctx_switch_status.instr_count
<1>1. /\ kpc = "user" /\ kpc' \in {"null", "retrieve"} /\ cpu.pc # bvr
      /\ ctx_switch_status.do_instr_count = 1 /\ Counted >= SegmentLength
      /\ UNCHANGED <<text, mem, schedule, shared_memory, cur_thread, cpu, bvr>>
      /\ regs' = [regs EXCEPT ![cur_thread] = cpu]
      /\ ctx_switch_status' = Settled(k + 1, 0)
  BY DEF StepSwitch, MismatchFault, Retrieve
<1>2. UNCHANGED <<text, shared, ncs, tids, instr_nums>>
  BY <1>1 DEF ileavVars
<1>3. /\ ncs \in Nat \ {0} /\ k \in 0..ncs /\ k < ncs /\ c \in Nat /\ Active
      /\ schedule = PlanNow /\ c < instr_nums[k + 1] /\ SegmentLength = instr_nums[k + 1]
      /\ instr_nums \in [1..ncs -> Nat \ {0}]
      /\ cur_thread \in Tids /\ ThreadsInv
  BY <1>1, PlayFacts
<1>4. instr_nums[k + 1] \in Nat /\ countBar = c + 1 /\ countBar = instr_nums[k + 1]
  <2>1. instr_nums[k + 1] \in Nat
    BY <1>3
  <2>2. countBar = c + 1
    BY <1>1 DEF countBar
  <2>. QED
    BY <1>1, <1>3, <2>1, <2>2 DEF Counted
<1>5. PICK n \in Nat : Reaches(Played(tids, instr_nums, n))
  BY <1>1, <1>3 DEF PlayInv
<1>6. PICK s : s = Played(tids, instr_nums, n)
  OBVIOUS
<1>7. s.ctx = ctxBar /\ s.mem = mem /\ s.seg = k + 2 /\ s.count = 0
  BY <1>4, <1>5, <1>6 DEF Reaches
<1>8. /\ ctx_switch_status'.ctx_switch = k + 1 /\ ctx_switch_status'.instr_count = 0
      /\ ctx_switch_status'.do_instr_count = 0
  BY <1>1 DEF Settled
<1>9. countBar' = 0
  BY <1>8 DEF countBar
<1>10. ctxBar' = ctxBar
  <2>1. regs \in [Tids -> Regs]
    BY <1>3 DEF ThreadsInv, TypeOK
  <2>2. ctxBar = [u \in Tids |-> IF u = cur_thread THEN cpu ELSE regs[u]]
    BY <1>1 DEF ctxBar, InHand
  <2>3. ctxBar' = [u \in Tids |-> regs'[u]]
    BY <1>1 DEF ctxBar, InHand
  <2>. QED
    BY <1>1, <2>1, <2>2, <2>3
<1>11. k + 1 < ncs => Reaches(s)'
  <2>. SUFFICES ASSUME k + 1 < ncs PROVE Reaches(s)'
    OBVIOUS
  <2>1. /\ ctx_switch_status'.ctx_switch + 1 = k + 2 /\ instr_nums[k + 2] \in Nat \ {0}
        /\ instr_nums' = instr_nums
    <3>1. k + 2 \in 1..ncs /\ (k + 1) + 1 = k + 2
      BY <1>3
    <3>2. instr_nums[k + 2] \in Nat \ {0}
      BY <1>3, <3>1
    <3>. QED
      BY <1>2, <1>8, <3>1, <3>2, Zenon
  <2>2. ~ (countBar' = instr_nums'[ctx_switch_status'.ctx_switch + 1])
    BY <1>9, <2>1
  <2>3. s.ctx = ctxBar' /\ s.mem = mem'
    BY <1>1, <1>7, <1>10
  <2>4. s.seg = ctx_switch_status'.ctx_switch + 1 /\ s.count = countBar'
    BY <1>7, <1>9, <2>1
  <2>. QED
    BY <2>2, <2>3, <2>4 DEF Reaches
<1>12. k + 1 = ncs => Through(tids, instr_nums)
  BY <1>3, <1>6, <1>7 DEF Through, GotThrough
<1>13. /\ Played(tids, instr_nums, n)' = Played(tids, instr_nums, n)
       /\ Through(tids, instr_nums)' = Through(tids, instr_nums)
  BY <1>2, PlayedUnchanged
<1>14. Active' => k + 1 < ncs
  <2>1. Active' => k + 1 < Len(schedule.instr_counts)
    BY <1>1, <1>8 DEF Active, n_ctx_switches
  <2>2. Len(schedule.instr_counts) = ncs
    BY <1>3, FunctionIsSeq DEF PlanNow
  <2>. QED
    BY <2>1, <2>2
<1>15. Active' => (\E l \in Nat : Reaches(Played(tids, instr_nums, l)))'
  <2>. SUFFICES ASSUME Active' PROVE (\E l \in Nat : Reaches(Played(tids, instr_nums, l)))'
    OBVIOUS
  <2>1. Reaches(Played(tids, instr_nums, n))'
    BY <1>6, <1>11, <1>13, <1>14
  <2>. QED
    BY <2>1
<1>16. schedule' # NoSchedule
  BY <1>1, <1>3 DEF Active
<1>. QED
  BY <1>1, <1>2, <1>8, <1>12, <1>13, <1>15, <1>16 DEF PlayInv

\* A system call before the last switch: the play is stuck there.
LEMMA SyscallPlays ==
  ASSUME ILInv, PrintInv, PlayInv, ipc = "running", Syscall, UNCHANGED ileavVars PROVE PlayInv'
<1>. DEFINE k == ctx_switch_status.ctx_switch
<1>1. /\ kpc = "user" /\ kpc' # "start" /\ cpu.pc = bvr /\ At(Syscalls)
      /\ UNCHANGED <<text, mem, shared_memory>>
      /\ ctx_switch_status' \in {ctx_switch_status, [ctx_switch_status EXCEPT !.yielded = 1]}
  BY DEF Syscall, SysPutc, SysYield, SysExit, Swi, At, Syscalls, RunThread
<1>2. ctx_switch_status'.ctx_switch = k
  <2>1. ctx_switch_status \in Statuses
    BY PlayFacts DEF ThreadsInv, TypeOK
  <2>. QED
    BY <1>1, <2>1 DEF Statuses
<1>3. UNCHANGED <<text, shared, ncs, tids, instr_nums>>
  BY <1>1 DEF ileavVars
<1>4. CASE SysPutc
  <2>1. UNCHANGED schedule
    BY <1>4 DEF SysPutc
  <2>2. CASE Active
    <3>1. kpc' = "panic"
      BY <1>4, <2>2 DEF SysPutc
    <3>. QED
      BY <1>1, <1>2, <2>1, <3>1, PlayPauses
  <2>3. CASE ~ Active
    <3>1. ~ Active'
      BY <1>2, <2>1, <2>3 DEF Active, n_ctx_switches
    <3>2. kpc' = "user"
      BY <1>4, <2>3 DEF SysPutc, RunThread
    <3>. QED
      BY <1>1, <1>2, <2>1, <3>1, <3>2, PlayIsOver
  <2>. QED
    BY <2>2, <2>3
<1>5. CASE SysYield \/ SysExit
  <2>1. schedule' = NoSchedule
    BY <1>5 DEF SysYield, SysExit
  <2>2. k < ncs => Stuck(tids, instr_nums, k)
    <3>1. CASE schedule = NoSchedule
      BY <3>1 DEF PlayInv
    <3>2. CASE schedule # NoSchedule
      <4>. SUFFICES ASSUME k < ncs PROVE Stuck(tids, instr_nums, k)
        OBVIOUS
      <4>1. /\ Active /\ ctx_switch_status.instr_count \in Nat /\ k \in 0..ncs
            /\ ctx_switch_status.instr_count < instr_nums[k + 1] /\ instr_nums[k + 1] \in Nat
            /\ cur_thread = tids[k + 1] /\ cur_thread \in Tids
        <5>1. /\ Active <=> schedule # NoSchedule /\ k < ncs
              /\ instr_nums \in [1..ncs -> Nat \ {0}] /\ k \in 0..ncs /\ ncs \in Nat
          BY PlayFacts
        <5>2. instr_nums[k + 1] \in Nat
          BY <5>1
        <5>. QED
          BY <1>1, <3>2, <5>1, <5>2, PlayFacts
      <4>2. PICK n \in Nat : Reaches(Played(tids, instr_nums, n))
        BY <1>1, <4>1 DEF PlayInv
      <4>3. PICK s : s = Played(tids, instr_nums, n)
        OBVIOUS
      <4>4. countBar = ctx_switch_status.instr_count /\ countBar # instr_nums[k + 1]
        BY <1>1, <4>1 DEF countBar
      <4>5. s.seg = k + 1 /\ s.ctx = ctxBar
        BY <4>2, <4>3, <4>4 DEF Reaches
      <4>6. s.ctx[cur_thread] = cpu
        BY <1>1, <4>1, <4>5 DEF ctxBar, InHand
      <4>7. StuckAt(tids, k, s)
        <5>1. tids[s.seg] = cur_thread
          BY <4>1, <4>5
        <5>. QED
          BY <1>1, <4>5, <4>6, <5>1 DEF StuckAt, At
      <4>. QED
        BY <4>3, <4>7 DEF Stuck
    <3>. QED
      BY <3>1, <3>2
  <2>3. ~ Active'
    BY <2>1 DEF Active
  <2>4. /\ Through(tids, instr_nums)' = Through(tids, instr_nums)
        /\ \A made : Stuck(tids, instr_nums, made)' = Stuck(tids, instr_nums, made)
    BY <1>3, PlayedUnchanged
  <2>5. PICK made : made = ctx_switch_status.ctx_switch /\ made = ctx_switch_status'.ctx_switch
    BY <1>2
  <2>6. (schedule = NoSchedule /\ ctx_switch_status.ctx_switch < ncs
           => Stuck(tids, instr_nums, ctx_switch_status.ctx_switch))'
    BY <1>3, <2>2, <2>4, <2>5
  <2>7. (ctx_switch_status.ctx_switch = ncs => Through(tids, instr_nums))'
    BY <1>2, <1>3, <2>4 DEF PlayInv
  <2>. QED
    BY <1>1, <1>3, <2>1, <2>3, <2>6, <2>7 DEF PlayInv
<1>. QED
  BY <1>4, <1>5 DEF Syscall

\* So with every step of equiv_run.
LEMMA RunPlays ==
  ASSUME ILInv, PrintInv, PlayInv, Run PROVE PlayInv'
<1>1. ipc = "running" /\ Next /\ UNCHANGED ileavVars
  BY DEF Run
<1>. QED
  BY <1>1, KernelStepPlays, FaultPlays, CommitPlays, SwitchPlays, SyscallPlays DEF Next, UserStep

\* equiv_run is called with nothing played.
LEMMA StartRunPlays ==
  ASSUME ILInv, StartRun PROVE PlayInv'
<1>1. /\ ncs \in Nat \ {0} /\ instr_nums \in [1..ncs -> Nat \ {0}] /\ instr_nums[1] \in Nat \ {0}
      /\ Len(instr_nums) = ncs
  <2>1. ncs \in Nat \ {0} /\ instr_nums \in [1..ncs -> Nat \ {0}]
    BY SwitchesFacts DEF ILInv, StartRun
  <2>. QED
    BY <2>1, FunctionIsSeq
<1>2. /\ kpc' = "start" /\ mem' = InitMem /\ regs' = [t \in Tids |-> InitRegs]
      /\ ctx_switch_status' = ResetStatus /\ shared_memory' = shared
      /\ schedule' = [tids |-> tids, instr_counts |-> instr_nums]
      /\ UNCHANGED <<text, shared, ncs, tids, instr_nums>>
  BY DEF StartRun
<1>3. countBar' = 0 /\ ctxBar' = regs'
  BY <1>2 DEF countBar, ResetStatus, ctxBar, InHand
<1>4. Played(tids, instr_nums, 0)' = PlayStart
  BY <1>2, PlayedUnchanged, PlayedFacts
<1>5. Reaches(PlayStart)'
  <2>1. /\ PlayStart.ctx = regs' /\ PlayStart.mem = mem' /\ PlayStart.seg = 1 /\ PlayStart.count = 0
    BY <1>2 DEF PlayStart
  <2>2. ctx_switch_status'.ctx_switch = 0 /\ ~ (0 = instr_nums'[0 + 1])
    BY <1>1, <1>2 DEF ResetStatus
  <2>. QED
    BY <1>2, <1>3, <2>1, <2>2 DEF Reaches
<1>6. (\E n \in Nat : Reaches(Played(tids, instr_nums, n)))'
  BY <1>4, <1>5
<1>7. schedule' # NoSchedule
  <2>1. schedule'.instr_counts = instr_nums /\ NoSchedule.instr_counts = <<>>
    BY <1>2 DEF NoSchedule
  <2>2. instr_nums # <<>>
    BY <1>1
  <2>. QED
    BY <2>1, <2>2
<1>. QED
  BY <1>1, <1>2, <1>6, <1>7 DEF PlayInv, ResetStatus

-----------------------------------------------------------------------------
\* What is known of the schedules that were run.
Outcome(e) ==
  /\ e.made = ncs => Through(e.tids, e.instr_counts)
  /\ e.made < ncs => Stuck(e.tids, e.instr_counts, e.made)

OutcomeInv ==
  /\ ipc = "running" => PlayInv
  /\ \A e : (\E i \in DOMAIN explored : explored[i] = e) => Outcome(e)

\* What was known of a schedule stays known.
LEMMA OutcomesStay ==
  ASSUME UNCHANGED <<text, shared, ncs>> PROVE \A e : Outcome(e) => Outcome(e)'
BY PlayedUnchanged DEF Outcome

\* The end of a run tells the outcome of its schedule.
LEMMA FinishRunPlays ==
  ASSUME ILInv, OrderInv, PrintInv, OutcomeInv, FinishRun PROVE OutcomeInv'
<1>. DEFINE made == ctx_switch_status.ctx_switch
            e == [tids |-> tids, instr_counts |-> instr_nums, made |-> made]
<1>1. /\ ipc = "running" /\ ipc' # "running" /\ kpc = "stopped"
      /\ explored' = Append(explored, e) /\ UNCHANGED <<text, shared, ncs>>
  BY DEF FinishRun
<1>2. Outcome(e)
  <2>1. made \in 0..ncs
    BY <1>1, PlayFacts DEF OutcomeInv
  <2>. QED
    BY <1>1, <2>1 DEF Outcome, OutcomeInv, PlayInv
<1>. HIDE DEF e
<1>3. /\ DOMAIN explored' = 1..(Len(explored) + 1) /\ DOMAIN explored = 1..Len(explored)
      /\ explored'[Len(explored) + 1] = e /\ Len(explored) \in Nat
      /\ \A i \in 1..Len(explored) : explored'[i] = explored[i]
  <2>1. explored \in Seq(Explorations(ncs))
    BY DEF OrderInv
  <2>. QED
    BY <1>1, <2>1
<1>4. ASSUME NEW f, NEW i \in DOMAIN explored', explored'[i] = f PROVE Outcome(f)
  <2>1. i = Len(explored) + 1 \/ i \in 1..Len(explored)
    BY <1>3
  <2>2. CASE i = Len(explored) + 1
    BY <1>2, <1>3, <1>4, <2>2
  <2>3. CASE i \in 1..Len(explored)
    BY <1>3, <1>4, <2>3 DEF OutcomeInv
  <2>. QED
    BY <2>1, <2>2, <2>3
<1>. QED
  BY <1>1, <1>4, OutcomesStay DEF OutcomeInv

\* Every step of run_interleavings ...
LEMMA OutcomeSteps ==
  ASSUME ILInv, OrderInv, PrintInv, OutcomeInv, [ILNext]_allVars PROVE OutcomeInv'
<1>1. CASE Call \/ NextTid \/ StartRun
  <2>1. UNCHANGED <<text, shared, ncs, explored>>
    BY <1>1 DEF Call, NextTid, StartRun, vars
  <2>2. ipc' = "running" => PlayInv'
    <3>1. ipc' = "running" => StartRun
      BY <1>1 DEF Call, NextTid
    <3>. QED
      BY <3>1, StartRunPlays
  <2>. QED
    BY <2>1, <2>2, OutcomesStay DEF OutcomeInv
<1>2. CASE Run
  <2>1. UNCHANGED <<text, shared, ncs, explored>> /\ ipc = "running"
    BY <1>2, RunLeaves DEF Run, ileavVars
  <2>2. PlayInv'
    BY <1>2, <2>1, RunPlays DEF OutcomeInv
  <2>. QED
    BY <2>1, <2>2, OutcomesStay DEF OutcomeInv
<1>3. CASE FinishRun
  BY <1>3, FinishRunPlays
<1>4. CASE UNCHANGED allVars
  <2>1. /\ UNCHANGED <<text, mem, regs, cur_thread, cpu, bvr, schedule, shared_memory,
                        ctx_switch_status, kpc>>
        /\ UNCHANGED <<shared, ncs, tids, instr_nums, explored, ipc>>
    BY <1>4 DEF allVars, vars, threadVars, schedVars, ileavVars
  <2>2. PlayInv => PlayInv'
    <3>1. /\ \A n : Played(tids, instr_nums, n)' = Played(tids, instr_nums, n)
          /\ Through(tids, instr_nums)' = Through(tids, instr_nums)
          /\ \A made : Stuck(tids, instr_nums, made)' = Stuck(tids, instr_nums, made)
      BY <2>1, PlayedUnchanged
    <3>2. countBar' = countBar /\ ctxBar' = ctxBar
      BY <2>1 DEF countBar, ctxBar, InHand
    <3>3. \A s : Reaches(s)' <=> Reaches(s)
      BY <2>1, <3>2 DEF Reaches
    <3>4. (\E n \in Nat : Reaches(Played(tids, instr_nums, n)))
            => (\E n \in Nat : Reaches(Played(tids, instr_nums, n)))'
      <4>. SUFFICES ASSUME NEW n \in Nat, Reaches(Played(tids, instr_nums, n))
                    PROVE  (\E l \in Nat : Reaches(Played(tids, instr_nums, l)))'
        OBVIOUS
      <4>1. Reaches(Played(tids, instr_nums, n))'
        <5>1. PICK s : s = Played(tids, instr_nums, n) /\ s = Played(tids, instr_nums, n)'
          BY <3>1
        <5>2. Reaches(s)'
          BY <3>3, <5>1
        <5>. QED
          BY <5>1, <5>2
      <4>. QED
        BY <4>1
    <3>. QED
      BY <2>1, <3>1, <3>4 DEF PlayInv, Active, n_ctx_switches
  <2>. QED
    BY <2>1, <2>2, OutcomesStay DEF OutcomeInv
<1>. QED
  BY <1>1, <1>2, <1>3, <1>4 DEF ILNext

CheckerOutcomeInv == cpc \in {"calls", "done"} => OutcomeInv

\* ... and of equiv_checker_run.
LEMMA CheckerOutcomes ==
  ASSUME CheckerInv, CheckerPrintInv, CheckerOutcomeInv, [CheckerNext]_everyVar
  PROVE  CheckerOutcomeInv'
<1>. USE DEF CheckerOutcomeInv
<1>1. CASE Interleavings
  BY <1>1, OutcomeSteps DEF Interleavings, checkerVars, CheckerInv, CheckerPrintInv
<1>2. CASE FirstCall
  BY <1>2 DEF FirstCall, OutcomeInv, CheckerInv, FindInv
<1>3. CASE NextCall
  <2>1. CASE ncs < MaxSwitches
    BY <1>3, <2>1 DEF NextCall, OutcomeInv
  <2>2. CASE ~ (ncs < MaxSwitches)
    <3>1. UNCHANGED <<ncs, ipc, explored, text, shared>> /\ cpc = "calls" /\ ipc # "running"
      BY <1>3, <2>2 DEF NextCall, vars
    <3>. QED
      BY <3>1, OutcomesStay DEF OutcomeInv
  <2>. QED
    BY <2>1, <2>2
<1>4. CASE UNCHANGED everyVar
  <2>1. UNCHANGED allVars /\ cpc' = cpc
    BY <1>4 DEF everyVar, checkerVars
  <2>. QED
    BY <2>1, OutcomeSteps DEF CheckerInv, CheckerPrintInv
<1>5. CASE \/ FindRwSet \/ RunFunction \/ FoundRwSet \/ FindSharedMemory
           \/ SerialCall \/ SerialStep \/ SerialReturn
  BY <1>5 DEF FindRwSet, RunFunction, FoundRwSet, FindSharedMemory, SerialCall, SerialStep,
     SerialReturn, checkerVars
<1>. QED
  BY <1>1, <1>2, <1>3, <1>4, <1>5 DEF CheckerNext

\* The outcome of every schedule that was run is that of its play.
LEMMA OutcomeInvariant ==
  CheckerSpec => [](CheckerInv /\ CheckerCoverInv /\ CheckerOutcomeInv)
<1>1. CheckerInit => CheckerCoverInv /\ CheckerOutcomeInv
  BY DEF CheckerInit, CheckerCoverInv, CheckerOutcomeInv
<1>2. CheckerInv /\ CheckerCoverInv /\ [CheckerNext]_everyVar => CheckerCoverInv'
  BY CheckerCovers
<1>3. CheckerInv /\ CheckerPrintInv /\ CheckerOutcomeInv /\ [CheckerNext]_everyVar
        => CheckerOutcomeInv'
  BY CheckerOutcomes
<1>. QED
  BY <1>1, <1>2, <1>3, CheckerInvariant, PrintInvariant, PTL DEF CheckerSpec

RanToItsEnd(ts, d) ==
  \E i \in DOMAIN explored :
    explored[i].tids = ts /\ explored[i].instr_counts = d /\ explored[i].made = ncs

\* A schedule that gets through was run: a run that fell short instead of it
\* would have got stuck, and it with it.
LEMMA ThroughRan ==
  ASSUME CheckerInv, CheckerCoverInv, CheckerOutcomeInv, cpc \in {"calls", "done"}, ipc = "returned",
         NEW ts \in [1..(ncs + 1) -> Tids], NEW d \in [1..ncs -> Nat \ {0}], Adjacent(ts)
  PROVE  Through(ts, d) <=> RanToItsEnd(ts, d)
<1>1. /\ ncs \in Nat \ {0} /\ explored \in Seq(Explorations(ncs))
      /\ CoverInv /\ OutcomeInv
  BY SwitchesFacts DEF CheckerInv, ILInv, OrderInv, CheckerCoverInv, CheckerOutcomeInv
<1>2. RanToItsEnd(ts, d) => Through(ts, d)
  BY <1>1 DEF RanToItsEnd, OutcomeInv, Outcome
<1>3. ASSUME Through(ts, d) PROVE RanToItsEnd(ts, d)
  <2>1. Answered(ts, d)
    BY <1>1 DEF CoverInv
  <2>2. PICK i \in DOMAIN explored : Answers(explored[i], ts, d)
    BY <2>1 DEF Answered
  <2>3. PICK e : e = explored[i]
    OBVIOUS
  <2>4. e \in Explorations(ncs) /\ Outcome(e)
    BY <1>1, <2>3 DEF OutcomeInv
  <2>5. e.made \in Nat /\ e.made <= ncs /\ e.instr_counts \in [1..ncs -> Nat \ {0}]
    BY <1>1, <2>4 DEF Explorations
  <2>6. e.tids = ts
    BY <2>2, <2>3 DEF Answers
  <2>7. CASE e.made < ncs
    <3>1. Stuck(ts, e.instr_counts, e.made)
      BY <2>4, <2>6, <2>7 DEF Outcome
    <3>2. CASE e.instr_counts = d
      BY <1>1, <1>3, <2>5, <2>7, <3>1, <3>2, StuckIsNotThrough
    <3>3. CASE /\ \A j \in 1..e.made : e.instr_counts[j] = d[j]
               /\ e.instr_counts[e.made + 1] <= d[e.made + 1]
      <4>1. PICK c \in [1..ncs -> Nat \ {0}], m \in Nat : c = e.instr_counts /\ m = e.made
        BY <2>5
      <4>2. Stuck(ts, d, m)
        BY <1>1, <2>7, <3>1, <3>3, <4>1, StuckTogether
      <4>. QED
        BY <1>1, <1>3, <2>7, <4>1, <4>2, StuckIsNotThrough
    <3>. QED
      BY <2>2, <2>3, <3>2, <3>3 DEF Answers
  <2>8. CASE e.made = ncs
    <3>1. e.instr_counts = d
      BY <1>1, <2>2, <2>3, <2>8 DEF Answers
    <3>. QED
      BY <2>3, <2>6, <2>8, <3>1 DEF RanToItsEnd
  <2>. QED
    BY <1>1, <2>5, <2>7, <2>8
<1>. QED
  BY <1>2, <1>3

\* When a call of run_interleavings returns, the schedules that were run to
\* their last switch are exactly those that get through when they are played
\* instruction by instruction, whatever the functions are and however many
\* accesses they make.
THEOREM EverySchedule ==
  CheckerSpec => [](cpc \in {"calls", "done"} /\ ipc = "returned" =>
                      \A ts \in [1..(ncs + 1) -> Tids], d \in [1..ncs -> Nat \ {0}] :
                        Adjacent(ts) => (Through(ts, d) <=> RanToItsEnd(ts, d)))
<1>1. CheckerInv /\ CheckerCoverInv /\ CheckerOutcomeInv =>
        (cpc \in {"calls", "done"} /\ ipc = "returned" =>
           \A ts \in [1..(ncs + 1) -> Tids], d \in [1..ncs -> Nat \ {0}] :
             Adjacent(ts) => (Through(ts, d) <=> RanToItsEnd(ts, d)))
  BY ThroughRan
<1>. QED
  BY <1>1, OutcomeInvariant, PTL

-----------------------------------------------------------------------------
\* With more than one function, no legal schedule is left out and no other is
\* run.
LegalInv ==
  cpc \in {"calls", "done"} => \A i \in DOMAIN explored : Adjacent(explored[i].tids)

\* Every schedule that is run is legal.
LEMMA LegalSteps ==
  ASSUME CheckerInv, cpc \in {"calls", "done"} => PlansInv, LegalInv, [CheckerNext]_everyVar
  PROVE  LegalInv'
<1>. USE DEF LegalInv
<1>1. CASE Interleavings
  <2>1. /\ cpc' = cpc /\ cpc = "calls" /\ ILNext
        /\ explored \in Seq(Explorations(ncs)) /\ PlansInv
    BY <1>1 DEF Interleavings, checkerVars, CheckerInv, OrderInv
  <2>2. CASE FinishRun
    <3>1. PICK e : e.tids = tids /\ explored' = Append(explored, e)
      <4>1. PICK f : f = [tids |-> tids, instr_counts |-> instr_nums,
                          made |-> ctx_switch_status.ctx_switch]
        OBVIOUS
      <4>2. f.tids = tids /\ explored' = Append(explored, f)
        BY <2>2, <4>1 DEF FinishRun
      <4>. QED
        BY <4>2
    <3>2. Adjacent(tids)
      BY <2>1, <2>2 DEF PlansInv, FinishRun
    <3>3. /\ DOMAIN explored' = 1..(Len(explored) + 1) /\ DOMAIN explored = 1..Len(explored)
          /\ explored'[Len(explored) + 1] = e /\ Len(explored) \in Nat
          /\ \A i \in 1..Len(explored) : explored'[i] = explored[i]
      BY <2>1, <3>1
    <3>4. ASSUME NEW i \in DOMAIN explored' PROVE Adjacent(explored'[i].tids)
      <4>1. i = Len(explored) + 1 \/ i \in 1..Len(explored)
        BY <3>3
      <4>2. CASE i = Len(explored) + 1
        BY <3>1, <3>2, <3>3, <4>2
      <4>3. CASE i \in 1..Len(explored)
        BY <2>1, <3>3, <4>3
      <4>. QED
        BY <4>1, <4>2, <4>3
    <3>. QED
      BY <3>4 DEF Adjacent
  <2>3. CASE Call \/ NextTid \/ StartRun \/ Run
    <3>1. explored' = explored
      BY <2>3 DEF Call, NextTid, StartRun, Run, ileavVars
    <3>. QED
      BY <2>1, <3>1 DEF Adjacent
  <2>. QED
    BY <2>1, <2>2, <2>3 DEF ILNext
<1>2. CASE FirstCall
  <2>1. explored' = <<>>
    BY <1>2 DEF FirstCall, CheckerInv, FindInv
  <2>. QED
    BY <2>1
<1>3. CASE NextCall
  <2>1. cpc = "calls" /\ explored' \in {explored, <<>>}
    BY <1>3 DEF NextCall
  <2>. QED
    BY <2>1 DEF Adjacent
<1>4. CASE UNCHANGED everyVar
  <2>1. UNCHANGED <<cpc, explored>>
    BY <1>4 DEF everyVar, checkerVars, allVars, ileavVars
  <2>. QED
    BY <2>1 DEF Adjacent
<1>5. CASE \/ FindRwSet \/ RunFunction \/ FoundRwSet \/ FindSharedMemory
           \/ SerialCall \/ SerialStep \/ SerialReturn
  BY <1>5 DEF FindRwSet, RunFunction, FoundRwSet, FindSharedMemory, SerialCall, SerialStep,
     SerialReturn, checkerVars
<1>. QED
  BY <1>1, <1>2, <1>3, <1>4, <1>5 DEF CheckerNext

\* The bounds of the reference are large enough for the functions and the
\* shared memory at hand: what TLC can enumerate is all there is.
BoundsSuffice ==
  \A ts \in [1..(ncs + 1) -> Tids], d \in [1..ncs -> Nat \ {0}] :
    Adjacent(ts) /\ Through(ts, d) => Feasible(ts, d) /\ d \in [1..ncs -> 1..MaxAccesses]

\* What was run to its last switch is what the reference enumerates.
LEMMA FeasibleRan ==
  ASSUME CheckerInv, CheckerCoverInv, CheckerOutcomeInv, LegalInv, BoundsSuffice
  PROVE  EveryFeasibleScheduleRan
<1>. SUFFICES ASSUME ipc = "returned" PROVE EveryFeasibleScheduleRan
  BY DEF EveryFeasibleScheduleRan
<1>. DEFINE ran == {<<e.tids, e.instr_counts>> :
                      e \in {explored[i] : i \in {k \in DOMAIN explored : explored[k].made = ncs}}}
            feasible == {s \in [1..(ncs+1) -> Tids] \X [1..ncs -> 1..MaxAccesses] :
                           Adjacent(s[1]) /\ Feasible(s[1], s[2])}
<1>1. cpc \in {"calls", "done"}
  BY DEF CheckerInv, FindInv
<1>2. explored \in Seq(Explorations(ncs)) /\ OutcomeInv
      /\ \A i \in DOMAIN explored : Adjacent(explored[i].tids)
  BY <1>1 DEF CheckerInv, OrderInv, CheckerOutcomeInv, LegalInv
<1>3. ASSUME NEW s \in ran PROVE s \in feasible
  <2>1. PICK i \in DOMAIN explored : explored[i].made = ncs
                                     /\ s = <<explored[i].tids, explored[i].instr_counts>>
    OBVIOUS
  <2>2. PICK e : e = explored[i]
    OBVIOUS
  <2>3. e \in Explorations(ncs) /\ Outcome(e) /\ Adjacent(e.tids) /\ e.made = ncs
    BY <1>2, <2>1, <2>2 DEF OutcomeInv
  <2>4. e.tids \in [1..(ncs + 1) -> Tids] /\ e.instr_counts \in [1..ncs -> Nat \ {0}]
    BY <2>3 DEF Explorations
  <2>5. Feasible(e.tids, e.instr_counts) /\ e.instr_counts \in [1..ncs -> 1..MaxAccesses]
    BY <2>3, <2>4 DEF Outcome, BoundsSuffice
  <2>. QED
    BY <2>1, <2>2, <2>3, <2>4, <2>5
<1>4. ASSUME NEW s \in feasible PROVE s \in ran
  <2>1. PICK ts \in [1..(ncs + 1) -> Tids], d \in [1..ncs -> 1..MaxAccesses] :
          s = <<ts, d>> /\ Adjacent(ts) /\ Feasible(ts, d)
    OBVIOUS
  <2>2. d \in [1..ncs -> Nat \ {0}]
    BY DEF MaxAccesses
  <2>3. MaxSteps \in Nat
    BY NumFuncsAssumption DEF MaxSteps
  <2>4. Through(ts, d)
    BY <2>1, <2>3 DEF Feasible, Through
  <2>5. RanToItsEnd(ts, d)
    BY <1>1, <2>1, <2>2, <2>4, ThroughRan
  <2>6. PICK i \in DOMAIN explored :
          explored[i].tids = ts /\ explored[i].instr_counts = d /\ explored[i].made = ncs
    BY <2>5 DEF RanToItsEnd
  <2>. QED
    BY <2>1, <2>6
<1>. QED
  BY <1>3, <1>4 DEF EveryFeasibleScheduleRan

\* The search that learns how many accesses a thread makes only by exceeding
\* it misses no feasible schedule and runs no other to its end.
THEOREM FeasibleSchedulesRan ==
  ASSUME NumFuncs > 1
  PROVE  CheckerSpec => [](BoundsSuffice => EveryFeasibleScheduleRan)
<1>1. CheckerInit => LegalInv
  BY DEF CheckerInit, LegalInv
<1>2. CheckerInv /\ (cpc \in {"calls", "done"} => PlansInv) /\ LegalInv /\ [CheckerNext]_everyVar
        => LegalInv'
  BY LegalSteps
<1>3. CheckerInv /\ CheckerCoverInv /\ CheckerOutcomeInv /\ LegalInv
        => (BoundsSuffice => EveryFeasibleScheduleRan)
  BY FeasibleRan
<1>. QED
  BY <1>1, <1>2, <1>3, OutcomeInvariant, PlansInvariant, PTL DEF CheckerSpec
=============================================================================
