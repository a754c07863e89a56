----------------------- MODULE EquivThreadsProofs -----------------------
(***************************************************************************)
(* Theorems about EquivThreads, for every number of threads, every program *)
(* and every schedule.                                                     *)
(*                                                                         *)
(* The first part is about the traps: ThreadsInv is inductive, and the     *)
(* safety properties of the counting and tracking machinery follow from    *)
(* it.  The second is about the run queue: popping and appending change    *)
(* the intrusive list of RunQueue as they should, as long as no thread is  *)
(* appended that is on it.  The third shows that this is so, that no       *)
(* thread is ever lost, and that retrieve_tid_from_queue finds the         *)
(* scheduled thread before it comes round.                                 *)
(***************************************************************************)
EXTENDS EquivThreads, FiniteSetTheorems, TLAPS

USE DEF Statuses, Settled, CountsHere, TrackerAfter

\* The program text: what an instruction at a legal address can be.
LEMMA InstrFacts ==
  ASSUME NEW f \in Functions, NEW pc \in Pcs(f)
  PROVE  /\ Instr(f, pc).op \in {"ld", "st"} => Instr(f, pc).a \in Addrs
         /\ Instr(f, pc).op \in {"add", "mov"} => Instr(f, pc).a \in Words
         /\ Instr(f, pc).op \in {"b", "bz"} => Instr(f, pc).a \in (1..(Len(f)+1)) \ {pc}
         /\ Instr(f, pc).op = "bx_lr" => pc = Len(f) + 4
         /\ Instr(f, pc).op \notin Syscalls /\ Instr(f, pc).op # "bx_lr" => pc <= Len(f)
         /\ Instr(f, pc).op \in Syscalls => pc < Len(f) + 4
<1>1. f \in Seq(Instructions) /\ Len(f) \in Nat /\ Len(Runtime) = 4
  BY DEF Functions, Runtime
<1>2. pc \in 1..(Len(f) + 4)
  BY <1>1 DEF Pcs
<1>3. CASE pc <= Len(f)
  <2>1. pc \in DOMAIN f /\ f[pc] \in Instructions /\ Instr(f, pc) = f[pc]
    BY <1>1, <1>2, <1>3 DEF Instr
  <2>2. f[pc].op \in {"b", "bz"} => f[pc].a \in (1..(Len(f)+1)) \ {pc}
    BY <2>1 DEF Functions
  <2>3. /\ f[pc].op \in {"ld", "st", "add", "mov", "b", "bz", "putc", "yield"}
        /\ f[pc].op \in {"ld", "st"} => f[pc].a \in Addrs
        /\ f[pc].op \in {"add", "mov"} => f[pc].a \in Words
    BY <2>1 DEF Instructions
  <2>. QED
    BY <1>1, <1>2, <1>3, <2>1, <2>2, <2>3
<1>4. CASE pc > Len(f)
  <2>1. pc - Len(f) \in 1..4 /\ Instr(f, pc) = Runtime[pc - Len(f)]
    BY <1>1, <1>2, <1>4 DEF Instr
  <2>2. /\ Instr(f, pc).op \in {"exit", "yield", "putc", "bx_lr"}
        /\ Instr(f, pc).op = "bx_lr" <=> pc - Len(f) = 4
    BY <2>1 DEF Runtime
  <2>. QED
    BY <1>1, <1>2, <2>1, <2>2 DEF Syscalls
<1>. QED
  BY <1>1, <1>2, <1>3, <1>4

\* A committed instruction leaves registers and memory of the right type, at
\* another address of the text: the next one traps on the mismatch.
LEMMA CommitFacts ==
  ASSUME NEW f \in Functions, NEW r \in Regs, r.pc \in Pcs(f),
         Instr(f, r.pc).op \notin Syscalls, NEW m \in [Addrs -> Words]
  PROVE  /\ NextRegs(f, r, m) \in Regs
         /\ NextRegs(f, r, m).pc \in Pcs(f)
         /\ NextRegs(f, r, m).pc # r.pc
         /\ NextMem(f, r, m) \in [Addrs -> Words]
<1>. DEFINE i == Instr(f, r.pc)
            n == NextRegs(f, r, m)
<1>1. Len(f) \in Nat /\ Pcs(f) = 1..(Len(f) + 4) /\ r.pc \in Nat /\ r.acc \in Words
  BY DEF Functions, Pcs, Runtime, Regs
<1>2. /\ i.op \in {"ld", "st"} => i.a \in Addrs
      /\ i.op \in {"add", "mov"} => i.a \in Words
      /\ i.op \in {"b", "bz"} => i.a \in (1..(Len(f)+1)) \ {r.pc}
      /\ i.op = "bx_lr" => r.pc = Len(f) + 4
      /\ i.op # "bx_lr" => r.pc <= Len(f)
  BY InstrFacts
<1>3. n.pc \in Pcs(f) /\ n.pc # r.pc
  <2>1. CASE i.op = "bx_lr"
    <3>1. n.pc = Len(f) + 1
      BY <2>1 DEF NextRegs, NextPc, ExitPc
    <3>. QED
      BY <2>1, <3>1, <1>1, <1>2
  <2>2. CASE i.op # "bx_lr" /\ Taken(i, r)
    <3>1. n.pc = i.a
      BY <2>2 DEF NextRegs, NextPc
    <3>. QED
      BY <2>2, <3>1, <1>1, <1>2 DEF Taken
  <2>3. CASE i.op # "bx_lr" /\ ~ Taken(i, r)
    <3>1. n.pc = r.pc + 1
      BY <2>3 DEF NextRegs, NextPc
    <3>. QED
      BY <2>3, <3>1, <1>1, <1>2
  <2>. QED
    BY <2>1, <2>2, <2>3
<1>4. n.acc \in Words
  <2>1. CASE i.op = "ld"
    BY <2>1, <1>2 DEF NextRegs, NextAcc
  <2>2. CASE i.op = "add"
    <3>1. r.acc + i.a \in Nat
      BY <2>2, <1>1, <1>2, WordLimitAssumption DEF Words
    <3>2. (r.acc + i.a) % WordLimit \in 0..(WordLimit - 1)
      BY <3>1, WordLimitAssumption
    <3>. QED
      BY <2>2, <3>2 DEF NextRegs, NextAcc, Words
  <2>3. CASE i.op \notin {"ld", "add"}
    BY <2>3, <1>1, <1>2 DEF NextRegs, NextAcc
  <2>. QED
    BY <2>1, <2>2, <2>3
<1>5. n \in Regs
  <2>1. n = [pc |-> n.pc, acc |-> n.acc]
    BY DEF NextRegs
  <2>2. n.pc \in Nat \ {0}
    BY <1>1, <1>3
  <2>. QED
    BY <1>4, <2>1, <2>2 DEF Regs
<1>6. NextMem(f, r, m) \in [Addrs -> Words]
  BY <1>1, <1>2 DEF NextMem, Writes
<1>. QED
  BY <1>3, <1>5, <1>6

\* Only loads and stores touch memory.
LEMMA SyscallsTouchNothing ==
  ASSUME NEW f, NEW pc, Instr(f, pc).op \in Syscalls
  PROVE  Touched(f, pc) = {}
BY DEF Touched, Syscalls

\* The intrusive list never points outside the threads, and its head is
\* there whenever its tail is.
LEMMA QueueFacts ==
  ASSUME NEW qq \in RunQueues, qq.tail # NULL => qq.head # NULL
  PROVE  /\ Popped(qq) \in RunQueues
         /\ Popped(qq).tail # NULL => Popped(qq).head # NULL
         /\ \A t \in Tids :
              /\ Appended(qq, t) \in RunQueues
              /\ Appended(qq, t).head # NULL
              /\ Pushed(qq, t) \in RunQueues
              /\ Pushed(qq, t).head # NULL
<1>. NULL \notin Tids /\ NULL \in Links /\ Tids \subseteq Links
  BY NumFuncsAssumption DEF Tids, NULL, Links
<1>1. Popped(qq) \in RunQueues /\ (Popped(qq).tail # NULL => Popped(qq).head # NULL)
  BY DEF Popped, RunQueues, Links
<1>2. ASSUME NEW t \in Tids PROVE Pushed(qq, t) \in RunQueues /\ Pushed(qq, t).head # NULL
  BY DEF Pushed, RunQueues
<1>3. ASSUME NEW t \in Tids PROVE Appended(qq, t) \in RunQueues /\ Appended(qq, t).head # NULL
  BY DEF Appended, RunQueues
<1>. QED
  BY <1>1, <1>2, <1>3

-----------------------------------------------------------------------------
\* Indexing the schedule while context switches remain stays inside it.
LEMMA ScheduleFacts ==
  ASSUME TypeOK, Active
  PROVE  LET k == ctx_switch_status.ctx_switch IN
         /\ IsSchedule(schedule)
         /\ k \in Nat /\ k < Len(schedule.instr_counts)
         /\ schedule.instr_counts[k + 1] \in Nat \ {0}
         /\ schedule.tids[k + 2] \in Tids
<1>. DEFINE k == ctx_switch_status.ctx_switch
<1>1. IsSchedule(schedule) /\ k \in Nat /\ k < Len(schedule.instr_counts)
  BY DEF TypeOK, Active, n_ctx_switches
<1>2. /\ schedule.instr_counts \in Seq(Nat \ {0}) /\ schedule.tids \in Seq(Tids)
      /\ Len(schedule.tids) = Len(schedule.instr_counts) + 1
  BY <1>1 DEF IsSchedule, ScheduleShape
<1>3. k + 1 \in 1..Len(schedule.instr_counts) /\ k + 2 \in 1..Len(schedule.tids)
  BY <1>1, <1>2
<1>. QED
  BY <1>1, <1>2, <1>3

\* The report has a cell for the first access of every segment, and for
\* the next access as long as the segment is not complete.
LEMMA CellFacts ==
  ASSUME NEW s, IsSchedule(s), NEW i \in Nat, i < Len(s.instr_counts),
         NEW j \in Nat, j < s.instr_counts[i + 1]
  PROVE  <<i, j>> \in Cells(s)
<1>1. s.instr_counts \in Seq(Nat \ {0})
  BY DEF IsSchedule, ScheduleShape
<1>2. i + 1 \in DOMAIN s.instr_counts /\ j + 1 \in 1..s.instr_counts[i + 1]
  BY <1>1
<1>3. <<i, j>> = <<(i + 1) - 1, (j + 1) - 1>>
  OBVIOUS
<1>4. <<i, j>> \in {<<(i + 1) - 1, jj - 1>> : jj \in 1..s.instr_counts[i + 1]}
  BY <1>2, <1>3
<1>. QED
  BY <1>2, <1>4 DEF Cells

-----------------------------------------------------------------------------
\* The invariant holds when equiv_run is called.
LEMMA InitInv == Init => ThreadsInv
<1>. SUFFICES ASSUME Init PROVE ThreadsInv
  OBVIOUS
<1>. USE DEF Init, Fresh
<1>1. q \in RunQueues /\ q.head # NULL
  <2>1. /\ 1 \in Tids /\ NumFuncs \in Tids /\ NULL \notin Tids /\ Tids \subseteq Links
        /\ \A t \in Tids : t = 1 \/ t - 1 \in Tids
    BY NumFuncsAssumption DEF Tids, NULL, Links
  <2>2. EmptyQueue.head = NULL /\ EmptyQueue.tail = NULL /\ NULL \in Links
    BY DEF EmptyQueue, Links
  <2>. QED
    BY <2>1, <2>2 DEF PushedAll, RunQueues
<1>2. \A f \in Functions : Len(f) \in Nat /\ 1 \in Pcs(f)
  BY DEF Functions, Pcs, Runtime
<1>3. text \in [Tids -> Functions]
  BY ProgramsAssumption
<1>4. InitRegs \in Regs /\ 0 \in Words
  BY WordLimitAssumption DEF InitRegs, Regs, Words
<1>5. schedule = NoSchedule \/ IsSchedule(schedule)
  BY SchedulesAssumption
<1>6. TypeOK
  BY <1>1, <1>3, <1>4, <1>5 DEF TypeOK, Links, ResetStatus, Idle
<1>7. ControlInv
  BY <1>1, <1>2, <1>3 DEF ControlInv, ResetStatus, InitRegs, EmptyReport
<1>8. TrackerInv
  BY DEF TrackerInv, InstructionStart
<1>9. CountPendingOnlyWhenActive
  BY DEF CountPendingOnlyWhenActive, ResetStatus
<1>10. ReportInBounds
  <2>. SUFFICES ASSUME Active PROVE <<0, 0>> \in Cells(schedule)
    BY DEF ReportInBounds, ResetStatus, EmptyReport
  <2>1. /\ IsSchedule(schedule) /\ 0 < Len(schedule.instr_counts)
        /\ schedule.instr_counts[0 + 1] \in Nat \ {0}
    BY <1>6, ScheduleFacts DEF ResetStatus
  <2>. QED
    BY <2>1, CellFacts
<1>. QED
  BY <1>6, <1>7, <1>8, <1>9, <1>10 DEF ThreadsInv

-----------------------------------------------------------------------------
\* A switch that goes through RunThread: the next thread starts armed and
\* with nothing pending, so nothing is claimed of its first instruction.
LEMMA RunThreadInv ==
  ASSUME ThreadsInv, NEW t \in Tids, NEW saved \in [Tids -> Regs],
         RunThread(t, saved), regs' = saved,
         \A u \in Tids : saved[u].pc \in Pcs(text[u]),
         text' = text, mem' = mem, trackVars' = trackVars, report' = report,
         shared_memory' = shared_memory,
         armed, ctx_switch_status'.do_instr_count = 0,
         ctx_switch_status' \in Statuses,
         ctx_switch_status'.ctx_switch = ctx_switch_status.ctx_switch,
         ctx_switch_status'.instr_count = ctx_switch_status.instr_count,
         schedule' \in {schedule, NoSchedule},
         q' \in RunQueues, q'.tail # NULL => q'.head # NULL,
         loop' \in [th : Links, first : Links, tid : Links, then : {"none", "enter", "switch"}]
  PROVE  ThreadsInv'
<1>. USE DEF ThreadsInv
<1>1. TypeOK'
  BY DEF TypeOK, RunThread, trackVars, Links, Regs
<1>2. ControlInv'
  BY DEF ControlInv, RunThread
<1>3. TrackerInv'
  BY DEF TrackerInv, InstructionStart, trackVars, RunThread
<1>4. CountPendingOnlyWhenActive'
  BY DEF CountPendingOnlyWhenActive
<1>5. ReportInBounds'
  BY DEF ReportInBounds, Active, n_ctx_switches
<1>. QED
  BY <1>1, <1>2, <1>3, <1>4, <1>5

\* At a system call the tracker is armed and no count is pending: a swi
\* touches no memory, and the mismatch before it settled earlier accesses.
LEMMA AtSwi ==
  ASSUME ThreadsInv, kpc = "user", cpu.pc = bvr, At(Syscalls)
  PROVE  /\ armed /\ ctx_switch_status.do_instr_count = 0
         /\ cur_thread \in Tids
         /\ SavedAtSwi \in [Tids -> Regs]
         /\ \A u \in Tids : SavedAtSwi[u].pc \in Pcs(text[u])
<1>1. Here = {}
  BY SyscallsTouchNothing DEF Here, At
<1>2. armed
  BY <1>1 DEF ThreadsInv, TrackerInv, InstructionStart
<1>3. ctx_switch_status.do_instr_count = 0
  BY <1>2 DEF ThreadsInv, TypeOK, TrackerInv, InstructionStart
<1>4. /\ cur_thread \in Tids /\ cpu.pc \in Pcs(text[cur_thread])
      /\ text[cur_thread] \in Functions /\ cpu \in Regs /\ regs \in [Tids -> Regs]
      /\ \A u \in Tids : regs[u].pc \in Pcs(text[u])
  BY DEF ThreadsInv, TypeOK, ControlInv
<1>5. cpu.pc < Len(text[cur_thread]) + 4
  BY <1>4, InstrFacts DEF At
<1>6. cpu.pc + 1 \in Pcs(text[cur_thread]) /\ cpu.pc + 1 \in Nat \ {0}
  BY <1>4, <1>5 DEF Pcs, Runtime, Functions, Regs
<1>. QED
  BY <1>2, <1>3, <1>4, <1>6 DEF SavedAtSwi, Regs

\* Every step preserves the invariant: one step per action.
LEMMA NextInv == ThreadsInv /\ [Next]_vars => ThreadsInv'
<1>. SUFFICES ASSUME ThreadsInv, [Next]_vars PROVE ThreadsInv'
  OBVIOUS
<1>types. /\ TypeOK /\ ControlInv /\ TrackerInv
          /\ CountPendingOnlyWhenActive /\ ReportInBounds
          /\ q \in RunQueues /\ (q.tail # NULL => q.head # NULL)
          /\ q.head \in Links
  BY DEF ThreadsInv, TypeOK, ControlInv, RunQueues
<1>links. NULL \notin Tids /\ Links = Tids \cup {NULL}
  BY DEF Tids, Links, NULL
<1>1. CASE EquivRun
  <2>. USE <1>1 DEF EquivRun
  <2>1. q' \in RunQueues /\ (q'.tail # NULL => q'.head # NULL)
    BY <1>types, QueueFacts DEF Retrieve
  <2>2. schedule # NoSchedule => schedule.tids[1] \in Tids
    BY <1>types DEF TypeOK, IsSchedule, ScheduleShape
  <2>3. TypeOK'
    BY <1>types, <1>links, <2>1, <2>2 DEF TypeOK, Retrieve, trackVars, schedVars
  <2>4. ControlInv'
    BY <1>types, <1>links, <2>1, <2>2 DEF ControlInv, Retrieve, trackVars, schedVars, TypeOK
  <2>5. TrackerInv'
    <3>1. \A t \in Tids : regs[t].pc # 0
      BY <1>types DEF TypeOK, Regs
    <3>2. ~ InstructionStart' /\ ~ (kpc' = "retrieve" /\ loop'.then = "switch")
      BY <1>types, <1>links, <3>1 DEF InstructionStart, Retrieve
    <3>. QED
      BY <1>types, <3>2 DEF TrackerInv, trackVars
  <2>6. CountPendingOnlyWhenActive' /\ ReportInBounds'
    BY <1>types DEF CountPendingOnlyWhenActive, ReportInBounds, Active, n_ctx_switches, schedVars
  <2>. QED
    BY <2>3, <2>4, <2>5, <2>6 DEF ThreadsInv
<1>2. CASE Rotate
  <2>. USE <1>2 DEF Rotate
  <2>1. loop.th \in Tids
    BY <1>types DEF ControlInv
  <2>2. q' \in RunQueues /\ (q'.tail # NULL => q'.head # NULL)
    BY <1>types, <2>1, QueueFacts
  <2>3. TypeOK'
    BY <1>types, <1>links, <2>2 DEF TypeOK, trackVars, schedVars
  <2>4. ControlInv'
    BY <1>types, <1>links, <2>2 DEF ControlInv, trackVars, schedVars, TypeOK
  <2>5. TrackerInv'
    BY <1>types DEF TrackerInv, InstructionStart, trackVars, TypeOK
  <2>6. CountPendingOnlyWhenActive' /\ ReportInBounds'
    BY <1>types DEF CountPendingOnlyWhenActive, ReportInBounds, Active, n_ctx_switches, schedVars
  <2>. QED
    BY <2>3, <2>4, <2>5, <2>6 DEF ThreadsInv
<1>3. CASE EnterFirst
  <2>. USE <1>3 DEF EnterFirst
  <2>1. TypeOK'
    BY <1>types, <1>links DEF TypeOK, trackVars, schedVars, ControlInv, Idle
  <2>2. ControlInv'
    BY <1>types, <1>links DEF ControlInv, trackVars, schedVars, TypeOK
  <2>3. TrackerInv'
    <3>1. regs[loop.th] \in Regs
      BY <1>types DEF TypeOK, ControlInv
    <3>2. ~ InstructionStart'
      BY <3>1 DEF InstructionStart, Regs
    <3>. QED
      BY <1>types, <3>2 DEF TrackerInv, trackVars
  <2>4. CountPendingOnlyWhenActive' /\ ReportInBounds'
    BY <1>types DEF CountPendingOnlyWhenActive, ReportInBounds, Active, n_ctx_switches, schedVars
  <2>. QED
    BY <2>1, <2>2, <2>3, <2>4 DEF ThreadsInv
<1>4. CASE SwitchTo
  <2>. USE <1>4 DEF SwitchTo
  <2>1. loop.th \in Tids /\ cur_thread \in Tids /\ armed
        /\ ctx_switch_status.do_instr_count = 0
    BY <1>types DEF ControlInv, TrackerInv, TypeOK
  <2>2. q' \in RunQueues /\ (q'.tail # NULL => q'.head # NULL)
    BY <1>types, <2>1, QueueFacts
  <2>. QED
    BY <1>types, <1>links, <2>1, <2>2, RunThreadInv
    DEF TypeOK, ControlInv, trackVars, schedVars, Idle
<1>5. CASE StepOnly
  <2>. USE <1>5 DEF StepOnly, MismatchFault
  <2>1. TypeOK'
    BY <1>types DEF TypeOK, ControlInv, Regs
  <2>2. ControlInv'
    BY <1>types DEF ControlInv, TypeOK
  <2>3. TrackerInv'
    BY <1>types DEF TrackerInv, InstructionStart
  <2>4. CountPendingOnlyWhenActive' /\ ReportInBounds'
    BY <1>types DEF CountPendingOnlyWhenActive, ReportInBounds, Active, n_ctx_switches
  <2>. QED
    BY <2>1, <2>2, <2>3, <2>4 DEF ThreadsInv
<1>6. CASE StepCount
  <2>. USE <1>6 DEF StepCount, MismatchFault
  <2>0. Active
    BY <1>types DEF CountPendingOnlyWhenActive
  <2>a. ctx_switch_status' \in Statuses
    BY <1>types DEF TypeOK, Counted
  <2>1. TypeOK'
    BY <1>types, <2>a DEF TypeOK, ControlInv, Regs
  <2>2. ControlInv'
    BY <1>types DEF ControlInv, TypeOK
  <2>3. TrackerInv'
    BY <1>types DEF TrackerInv, InstructionStart, TypeOK
  <2>4. CountPendingOnlyWhenActive'
    BY <1>types DEF CountPendingOnlyWhenActive, TypeOK
  <2>5. ReportInBounds'
    <3>1. <<ctx_switch_status.ctx_switch, Counted>> \in Cells(schedule)
      BY <1>types, <2>0, ScheduleFacts, CellFacts DEF Counted, SegmentLength, TypeOK
    <3>. QED
      BY <1>types, <2>0, <3>1 DEF ReportInBounds, ControlInv, Active, TypeOK
  <2>. QED
    BY <2>1, <2>2, <2>3, <2>4, <2>5 DEF ThreadsInv
<1>7. CASE StepSwitch
  <2>. USE <1>7 DEF StepSwitch, MismatchFault
  <2>. DEFINE k == ctx_switch_status.ctx_switch
  <2>0. Active /\ cur_thread \in Tids /\ k \in Nat
    BY <1>types DEF CountPendingOnlyWhenActive, ControlInv, TypeOK
  <2>1. schedule.tids[k + 2] \in Tids
    BY <1>types, <2>0, ScheduleFacts
  <2>2. q' \in RunQueues /\ (q'.tail # NULL => q'.head # NULL)
    BY <1>types, QueueFacts DEF Retrieve
  <2>3. ctx_switch_status' \in Statuses
        /\ ctx_switch_status'.do_instr_count = 0
        /\ ctx_switch_status'.instr_count = 0
        /\ ctx_switch_status'.ctx_switch = k + 1
    BY <1>types DEF TypeOK
  <2>4. TypeOK'
    BY <1>types, <1>links, <2>0, <2>1, <2>2, <2>3 DEF TypeOK, Retrieve
  <2>5. ControlInv'
    BY <1>types, <1>links, <2>0, <2>1, <2>2, <2>3 DEF ControlInv, Retrieve, TypeOK
  <2>6. TrackerInv'
    BY <1>types, <2>3 DEF TrackerInv, InstructionStart, Retrieve
  <2>7. CountPendingOnlyWhenActive'
    BY <2>3 DEF CountPendingOnlyWhenActive
  <2>8. ReportInBounds'
    <3>. SUFFICES ASSUME Active' PROVE <<k + 1, 0>> \in DOMAIN report
      BY <2>3 DEF ReportInBounds
    <3>1. IsSchedule(schedule) /\ k + 1 < Len(schedule.instr_counts)
      BY <2>3, <2>0, <1>types, ScheduleFacts DEF Active, n_ctx_switches
    <3>2. schedule.instr_counts[(k + 1) + 1] \in Nat \ {0}
      BY <3>1, <2>0 DEF IsSchedule, ScheduleShape
    <3>3. <<k + 1, 0>> \in Cells(schedule)
      BY <3>1, <3>2, <2>0, CellFacts
    <3>. QED
      BY <3>3, <2>0, <1>types DEF ControlInv, Active
  <2>. QED
    BY <2>4, <2>5, <2>6, <2>7, <2>8 DEF ThreadsInv
<1>8. CASE DataAbort
  <2>. USE <1>8 DEF DataAbort
  <2>0. /\ cur_thread \in Tids /\ cpu.pc \in Pcs(text[cur_thread])
        /\ text[cur_thread] \in Functions /\ Here' = Here /\ Here \subseteq Addrs
    <3>1. /\ cur_thread \in Tids /\ cpu.pc \in Pcs(text[cur_thread]) /\ text \in [Tids -> Functions]
      BY <1>types DEF ControlInv, TypeOK
    <3>2. text[cur_thread] \in Functions
      BY <3>1
    <3>3. Here \subseteq Addrs
      BY <3>1, <3>2, InstrFacts DEF Here, Touched
    <3>4. Here' = Here
      BY DEF Here, threadVars
    <3>. QED
      BY <3>1, <3>2, <3>3, <3>4
  <2>1. ctx_switch_status' \in Statuses
        /\ ctx_switch_status'.instr_count = ctx_switch_status.instr_count
        /\ ctx_switch_status'.ctx_switch = ctx_switch_status.ctx_switch
        /\ DOMAIN report' = DOMAIN report /\ Active' = Active
        /\ (Active /\ Here \cap shared_memory # {} => ctx_switch_status'.do_instr_count = 1)
        /\ (~ (Active /\ Here \cap shared_memory # {}) =>
              ctx_switch_status'.do_instr_count = ctx_switch_status.do_instr_count)
    BY <1>types DEF TypeOK, Active, n_ctx_switches
  <2>2. tracker' \in [read : SUBSET Addrs, write : SUBSET Addrs]
        /\ Here \subseteq IF Writes(text[cur_thread], cpu.pc) THEN tracker'.write ELSE tracker'.read
    BY <1>types, <2>0 DEF TypeOK
  <2>3. TypeOK'
    BY <1>types, <2>1, <2>2 DEF TypeOK, threadVars
  <2>4. ControlInv'
    BY <1>types, <2>1 DEF ControlInv, threadVars
  <2>5. TrackerInv'
    <3>1. ctx_switch_status.do_instr_count = 0
      BY <1>types DEF TrackerInv, InstructionStart, TypeOK
    <3>2. TrackedBeforeCommit'
      BY <2>0, <2>2 DEF TrackedBeforeCommit, threadVars
    <3>. QED
      BY <1>types, <2>0, <2>1, <3>1, <3>2 DEF TrackerInv, InstructionStart, threadVars
  <2>6. CountPendingOnlyWhenActive' /\ ReportInBounds'
    BY <1>types, <2>1 DEF CountPendingOnlyWhenActive, ReportInBounds
  <2>. QED
    BY <2>3, <2>4, <2>5, <2>6 DEF ThreadsInv
<1>9. CASE Commit
  <2>. USE <1>9 DEF Commit
  <2>0. /\ cur_thread \in Tids /\ cpu.pc \in Pcs(text[cur_thread]) /\ cpu \in Regs
        /\ text[cur_thread] \in Functions /\ mem \in [Addrs -> Words]
        /\ Instr(text[cur_thread], cpu.pc).op \notin Syscalls
    BY <1>types DEF ControlInv, TypeOK, At
  <2>1. /\ cpu' \in Regs /\ cpu'.pc \in Pcs(text[cur_thread])
        /\ cpu'.pc # cpu.pc /\ mem' \in [Addrs -> Words]
    BY <2>0, CommitFacts
  <2>2. TypeOK'
    BY <1>types, <2>1 DEF TypeOK, trackVars, schedVars
  <2>3. ControlInv'
    BY <1>types, <2>1 DEF ControlInv, trackVars, schedVars
  <2>4. TrackerInv'
    BY <1>types, <2>1 DEF TrackerInv, InstructionStart, trackVars, schedVars
  <2>5. CountPendingOnlyWhenActive' /\ ReportInBounds'
    BY <1>types DEF CountPendingOnlyWhenActive, ReportInBounds, Active, n_ctx_switches, schedVars
  <2>. QED
    BY <2>2, <2>3, <2>4, <2>5 DEF ThreadsInv
<1>10. CASE SysPutc
  <2>. USE <1>10 DEF SysPutc, Swi
  <2>1. /\ armed /\ ctx_switch_status.do_instr_count = 0 /\ cur_thread \in Tids
        /\ SavedAtSwi \in [Tids -> Regs]
        /\ \A u \in Tids : SavedAtSwi[u].pc \in Pcs(text[u])
    BY AtSwi DEF At, Syscalls
  <2>2. q' \in RunQueues /\ (q'.tail # NULL => q'.head # NULL)
    BY <1>types, <2>1, QueueFacts
  <2>3. CASE Active
    BY <2>3, <1>types, <2>1 DEF ThreadsInv, TypeOK, ControlInv, TrackerInv, InstructionStart,
       CountPendingOnlyWhenActive, ReportInBounds, n_ctx_switches, Active, trackVars
  <2>4. CASE ~ Active
    <3>1. PICK t \in Tids : RunThread(t, SavedAtSwi)
      BY <2>4, <1>types, <1>links, <2>1
    <3>. QED
      BY <3>1, <1>types, <2>1, <2>2, RunThreadInv DEF TypeOK
  <2>. QED
    BY <2>3, <2>4
<1>11. CASE SysYield
  <2>. USE <1>11 DEF SysYield, Swi
  <2>1. /\ armed /\ ctx_switch_status.do_instr_count = 0 /\ cur_thread \in Tids
        /\ SavedAtSwi \in [Tids -> Regs]
        /\ \A u \in Tids : SavedAtSwi[u].pc \in Pcs(text[u])
    BY AtSwi DEF At, Syscalls
  <2>2. /\ Appended(q, cur_thread) \in RunQueues
        /\ Appended(q, cur_thread).head # NULL
    BY <1>types, <2>1, QueueFacts
  <2>3. q' \in RunQueues /\ (q'.tail # NULL => q'.head # NULL)
    BY <2>2, QueueFacts
  <2>4. Appended(q, cur_thread).head \in Tids
    BY <2>2, <1>links DEF RunQueues
  <2>. QED
    BY <1>types, <2>1, <2>3, <2>4, RunThreadInv DEF TypeOK
<1>12. CASE SysExit
  <2>. USE <1>12 DEF SysExit, Swi
  <2>1. /\ armed /\ ctx_switch_status.do_instr_count = 0 /\ cur_thread \in Tids
        /\ SavedAtSwi \in [Tids -> Regs]
        /\ \A u \in Tids : SavedAtSwi[u].pc \in Pcs(text[u])
    BY AtSwi DEF At, Syscalls
  <2>2. q' \in RunQueues /\ (q'.tail # NULL => q'.head # NULL)
    BY <1>types, QueueFacts
  <2>3. CASE q.head = NULL
    <3>1. TypeOK'
      BY <2>3, <1>types, <2>1, <2>2 DEF TypeOK, trackVars
    <3>2. ControlInv' /\ TrackerInv'
      BY <2>3, <1>types, <2>1, <2>2 DEF ControlInv, TrackerInv, InstructionStart, trackVars
    <3>3. CountPendingOnlyWhenActive' /\ ReportInBounds'
      BY <2>3, <2>1 DEF CountPendingOnlyWhenActive, ReportInBounds, Active
    <3>. QED
      BY <3>1, <3>2, <3>3 DEF ThreadsInv
  <2>4. CASE q.head # NULL
    BY <2>4, <1>types, <1>links, <2>1, <2>2, RunThreadInv DEF TypeOK
  <2>. QED
    BY <2>3, <2>4
<1>13. CASE UNCHANGED vars
  BY <1>13 DEF vars, threadVars, trackVars, schedVars, ThreadsInv, TypeOK, ControlInv, TrackerInv,
     InstructionStart, TrackedBeforeCommit, Here, CountPendingOnlyWhenActive, ReportInBounds,
     Active, n_ctx_switches
<1>. QED
  BY <1>1, <1>2, <1>3, <1>4, <1>5, <1>6, <1>7, <1>8, <1>9, <1>10, <1>11, <1>12, <1>13
  DEF Next, KernelStep, UserStep, Syscall

-----------------------------------------------------------------------------
\* In every run, whatever the threads, the schedule and the shared memory:
\* control, tracker and pending count fit together, and no schedule, report or
\* thread is accessed outside its bounds by the trap handlers.
THEOREM ThreadsInvariant == Spec => []ThreadsInv
<1>1. Init => ThreadsInv
  BY InitInv
<1>2. ThreadsInv /\ [Next]_vars => ThreadsInv'
  BY NextInv
<1>. QED
  BY <1>1, <1>2, PTL DEF Spec

\* Every variable keeps its type, whatever the threads run.
THEOREM TypeCorrectness == Spec => []TypeOK
<1>1. ThreadsInv => TypeOK
  BY DEF ThreadsInv
<1>. QED
  BY <1>1, ThreadsInvariant, PTL

\* equiv_hash_handler never counts without a schedule, nor past its end.
THEOREM NoCountWithoutSchedule == Spec => []CountPendingOnlyWhenActive
<1>1. ThreadsInv => CountPendingOnlyWhenActive
  BY DEF ThreadsInv
<1>. QED
  BY <1>1, ThreadsInvariant, PTL

\* ctx_switch_handler writes inside the report.
THEOREM ReportStaysInBounds == Spec => []ReportInBounds
<1>1. ThreadsInv => ReportInBounds
  BY DEF ThreadsInv
<1>. QED
  BY <1>1, ThreadsInvariant, PTL

\* What a pending count means when an instruction commits.
LEMMA CountedCommits == ThreadsInv => CommitsAreCounted
<1>. SUFFICES ASSUME ThreadsInv, kpc = "user", cpu.pc = bvr, ~ (armed /\ Here # {})
              PROVE  ctx_switch_status.do_instr_count = 1 <=> Active /\ Here \cap shared_memory # {}
  BY DEF CommitsAreCounted
<1>1. CASE armed
  <2>1. Here = {} /\ ctx_switch_status.do_instr_count # 1
    BY <1>1 DEF ThreadsInv, TrackerInv, InstructionStart
  <2>. QED
    BY <2>1
<1>2. CASE ~ armed
  BY <1>2 DEF ThreadsInv, TrackerInv, InstructionStart, CountPendingOnlyWhenActive
<1>. QED
  BY <1>1, <1>2

\* Every shared access is counted once, and nothing else is.
THEOREM EveryCommitIsCounted == Spec => []CommitsAreCounted
BY CountedCommits, ThreadsInvariant, PTL

\* The tracker has seen every access that commits.
THEOREM EveryAccessIsTracked == Spec => []TrackedBeforeCommit
<1>1. ThreadsInv => TrackedBeforeCommit
  BY DEF ThreadsInv, TrackerInv, InstructionStart, TrackedBeforeCommit
<1>. QED
  BY <1>1, ThreadsInvariant, PTL

-----------------------------------------------------------------------------
HIDE DEF Statuses, Settled, CountsHere, TrackerAfter

\* NULL is no thread.
LEMMA NullFacts == NULL \notin Tids /\ NULL \in Links /\ \A t \in Tids : t # NULL
BY NumFuncsAssumption DEF Tids, NULL, Links

\* The head of a list that has a tail is there.
LEMMA ListHasHead ==
  ASSUME NEW r \in RunQueues, NEW s \in Seq(Tids), IsList(r, s)
  PROVE  /\ r.tail # NULL => r.head # NULL
         /\ s # <<>> => Len(s) \in Nat \ {0} /\ s[1] \in Tids /\ r.head = s[1]
                        /\ r.tail = s[Len(s)] /\ r.tail \in Tids
<1>1. s # <<>> => Len(s) \in Nat \ {0} /\ s[1] \in Tids /\ s[Len(s)] \in Tids
  OBVIOUS
<1>2. QED
  BY <1>1, NullFacts DEF IsList

\* A list of distinct threads is no longer than there are threads.
LEMMA ListIsShort ==
  ASSUME NEW s \in Seq(Tids), IsInjective(s)
  PROVE  s \in Lists
<1>1. s \in [1..Len(s) -> Tids] /\ Len(s) \in Nat
  OBVIOUS
<1>2. s \in Injection(1..Len(s), Tids)
  BY <1>1 DEF Injection
<1>3. IsFiniteSet(Tids) /\ Cardinality(Tids) = NumFuncs
  BY FS_Interval, NumFuncsAssumption DEF Tids
<1>4. Cardinality(1..Len(s)) <= NumFuncs
  BY <1>2, <1>3, FS_Injection
<1>5. Cardinality(1..Len(s)) = Len(s)
  <2>1. Len(s) \in Int /\ Len(s) >= 0
    BY <1>1
  <2>2. Cardinality(1..Len(s)) = IF 1 > Len(s) THEN 0 ELSE Len(s) - 1 + 1
    BY <2>1, FS_Interval
  <2>3. QED
    BY <2>1, <2>2
<1>6. Len(s) \in 0..NumFuncs
  BY <1>1, <1>4, <1>5, NumFuncsAssumption
<1>7. QED
  BY <1>1, <1>6 DEF Lists

\* eq_pop: the rest of the list stays.
LEMMA PoppedList ==
  ASSUME NEW r \in RunQueues, NEW s \in Seq(Tids), IsList(r, s), s # <<>>
  PROVE  /\ r.head = s[1] /\ r.head \in Tids
         /\ Popped(r) \in RunQueues
         /\ IsList(Popped(r), Tail(s))
         /\ Tail(s) \in Seq(Tids)
         /\ Range(Tail(s)) = Range(s) \ {s[1]}
<1> DEFINE p == Popped(r)
           u == Tail(s)
<1>1. Len(s) \in Nat \ {0} /\ s[1] \in Tids /\ r.head = s[1] /\ r.head # NULL
  BY ListHasHead, NullFacts
<1>2. /\ u \in Seq(Tids) /\ Len(u) = Len(s) - 1 /\ DOMAIN u = 1..(Len(s) - 1)
      /\ \A i \in 1..(Len(s) - 1) : u[i] = s[i+1]
  BY <1>1
<1>3. p.head = r.next[r.head] /\ p.next = r.next
      /\ p.tail = IF r.next[r.head] = NULL THEN NULL ELSE r.tail
  BY <1>1 DEF Popped
<1>4. p \in RunQueues
  BY QueueFacts, ListHasHead
<1> HIDE DEF p, u
<1>5. Range(u) = Range(s) \ {s[1]}
  <2>1. \A i \in 2..Len(s) : i - 1 \in DOMAIN u /\ u[i-1] = s[i] /\ s[i] # s[1]
    BY <1>1, <1>2 DEF IsList, IsInjective
  <2>2. \A i \in DOMAIN u : i + 1 \in 2..Len(s) /\ u[i] = s[i+1]
    BY <1>1, <1>2
  <2>3. DOMAIN s = 1..Len(s) /\ \A i \in DOMAIN s : i = 1 \/ i \in 2..Len(s)
    BY <1>1
  <2>4. ASSUME NEW v \in Range(u) PROVE v \in Range(s) \ {s[1]}
    BY <1>1, <2>1, <2>2, <2>3 DEF Range
  <2>5. ASSUME NEW v \in Range(s), v # s[1] PROVE v \in Range(u)
    BY <2>1, <2>3, <2>5 DEF Range
  <2>6. QED
    BY <2>4, <2>5
<1>6. IsInjective(u)
  BY <1>1, <1>2 DEF IsList, IsInjective
<1>7. IsList(p, u)
  <2>1. CASE Len(s) = 1
    <3>1. r.next[r.head] = NULL
      BY <1>1, <2>1 DEF IsList
    <3>2. u = <<>> /\ Len(u) = 0
      BY <1>2, <2>1
    <3>3. p.head = NULL /\ p.tail = NULL
      BY <1>3, <3>1
    <3>4. QED
      BY <1>6, <3>2, <3>3 DEF IsList
  <2>2. CASE Len(s) > 1
    <3>1. r.next[r.head] = s[2] /\ s[2] \in Tids /\ s[2] # NULL
      BY <1>1, <2>2, NullFacts DEF IsList
    <3>2. u[1] = s[2] /\ u[Len(u)] = s[Len(s)] /\ u # <<>>
      BY <1>1, <1>2, <2>2
    <3>3. p.head = u[1] /\ p.tail = u[Len(u)] /\ p.next[p.tail] = NULL
      BY <1>1, <1>3, <2>2, <3>1, <3>2 DEF IsList
    <3>4. \A i \in 1..(Len(u) - 1) : p.next[u[i]] = u[i+1]
      <4> SUFFICES ASSUME NEW i \in 1..(Len(u) - 1) PROVE p.next[u[i]] = u[i+1]
        OBVIOUS
      <4>1. i + 1 \in 1..(Len(s) - 1) /\ u[i] = s[i+1] /\ u[i+1] = s[(i+1)+1]
        BY <1>1, <1>2
      <4>2. QED
        BY <1>3, <4>1 DEF IsList
    <3>5. QED
      BY <1>6, <3>2, <3>3, <3>4 DEF IsList
  <2>3. Len(s) = 1 \/ Len(s) > 1
    BY <1>1
  <2>4. QED
    BY <2>1, <2>2, <2>3
<1>8. QED
  BY <1>1, <1>2, <1>4, <1>5, <1>7 DEF p, u

\* eq_append: a thread that is not on the list becomes its last.
LEMMA AppendedList ==
  ASSUME NEW r \in RunQueues, NEW s \in Seq(Tids), IsList(r, s),
         NEW t \in Tids, t \notin Range(s)
  PROVE  /\ Appended(r, t) \in RunQueues
         /\ IsList(Appended(r, t), Append(s, t))
         /\ Append(s, t) \in Seq(Tids) /\ Append(s, t) # <<>>
         /\ Range(Append(s, t)) = Range(s) \cup {t}
<1> DEFINE a == Appended(r, t)
           u == Append(s, t)
<1>1. /\ u \in Seq(Tids) /\ Len(u) = Len(s) + 1 /\ Len(s) \in Nat
      /\ u[Len(u)] = t /\ \A i \in 1..Len(s) : u[i] = s[i] /\ s[i] \in Tids /\ s[i] # t
  BY DEF Range
<1>2. a \in RunQueues
  BY QueueFacts, ListHasHead
<1>3. Range(u) = Range(s) \cup {t}
  <2>1. DOMAIN s = 1..Len(s) /\ DOMAIN u = 1..(Len(s) + 1)
    BY <1>1
  <2> HIDE DEF u
  <2>2. \A i \in DOMAIN u : i = Len(s) + 1 \/ i \in DOMAIN s
    BY <1>1, <2>1
  <2>3. \A i \in DOMAIN s : i \in DOMAIN u
    BY <1>1, <2>1
  <2>4. QED
    BY <1>1, <2>1, <2>2, <2>3 DEF Range
<1>4. IsInjective(u)
  BY <1>1 DEF IsList, IsInjective
<1>5. r.next \in [Tids -> Links]
  BY DEF RunQueues
<1>6. CASE s = <<>>
  <2>1. r.tail = NULL
    BY <1>6 DEF IsList
  <2>2. a.head = t /\ a.tail = t /\ a.next[t] = NULL
    BY <1>5, <2>1 DEF Appended
  <2>3. QED
    BY <1>1, <1>2, <1>3, <1>4, <1>6, <2>2 DEF IsList
<1>7. CASE s # <<>>
  <2>1. r.head = s[1] /\ r.tail = s[Len(s)] /\ r.tail \in Tids /\ r.tail # NULL /\ r.tail # t
        /\ Len(s) \in Nat \ {0}
    BY <1>1, <1>7, ListHasHead, NullFacts
  <2>2. a.head = r.head /\ a.tail = t
        /\ a.next = [[r.next EXCEPT ![t] = NULL] EXCEPT ![r.tail] = t]
    BY <2>1 DEF Appended
  <2>3. a.next[t] = NULL /\ a.next[r.tail] = t
        /\ \A v \in Tids : v # t /\ v # r.tail => a.next[v] = r.next[v]
    BY <1>5, <2>1, <2>2
  <2>4. \A i \in 1..(Len(s) - 1) : s[i] # r.tail
    BY <1>1, <2>1 DEF IsList, IsInjective
  <2>5. \A i \in 1..(Len(u) - 1) : a.next[u[i]] = u[i+1]
    <3> SUFFICES ASSUME NEW i \in 1..(Len(u) - 1) PROVE a.next[u[i]] = u[i+1]
      OBVIOUS
    <3>1. CASE i = Len(s)
      BY <1>1, <2>1, <2>3, <3>1
    <3>2. CASE i # Len(s)
      <4>1. i \in 1..(Len(s) - 1) /\ i + 1 \in 1..Len(s)
        BY <1>1, <3>2
      <4>2. r.next[s[i]] = s[i+1]
        BY <4>1 DEF IsList
      <4>3. QED
        BY <1>1, <2>3, <2>4, <4>1, <4>2
    <3>3. QED
      BY <3>1, <3>2
  <2>6. QED
    BY <1>1, <1>2, <1>3, <1>4, <2>1, <2>2, <2>3, <2>5 DEF IsList
<1>8. QED
  BY <1>6, <1>7

\* equiv_refresh: the queue holds every thread, the last tid first.
LEMMA PushedAllList ==
  \E s \in Seq(Tids) : IsList(PushedAll(EmptyQueue), s) /\ Range(s) = Tids
<1> DEFINE s == [i \in 1..NumFuncs |-> NumFuncs - i + 1]
           r == PushedAll(EmptyQueue)
<1>1. NumFuncs \in Nat \ {0}
  BY NumFuncsAssumption
<1>2. s \in Seq(Tids) /\ Len(s) = NumFuncs /\ s # <<>>
  BY <1>1 DEF Tids
<1>3. Range(s) = Tids
  <2>1. \A t \in Tids : NumFuncs - t + 1 \in 1..NumFuncs /\ s[NumFuncs - t + 1] = t
    BY <1>1 DEF Tids
  <2>2. \A i \in 1..NumFuncs : s[i] \in Tids
    BY <1>1 DEF Tids
  <2>3. QED
    BY <2>1, <2>2 DEF Range
<1>4. IsInjective(s)
  BY <1>1 DEF IsInjective
<1>5. r.head = NumFuncs /\ r.tail = 1 /\ r.next = [t \in Tids |-> IF t = 1 THEN NULL ELSE t - 1]
  BY DEF PushedAll, EmptyQueue
<1>6. r.head = s[1] /\ r.tail = s[Len(s)] /\ r.next[r.tail] = NULL
  BY <1>1, <1>2, <1>5 DEF Tids
<1>7. \A i \in 1..(Len(s) - 1) : r.next[s[i]] = s[i+1]
  BY <1>1, <1>2, <1>5 DEF Tids
<1>8. QED
  BY <1>2, <1>3, <1>4, <1>6, <1>7 DEF IsList

-----------------------------------------------------------------------------
\* Where a thread can be while it has not exited.
LEMMA OpFacts ==
  ASSUME NEW f \in Functions, NEW pc \in Nat \ {0}, pc <= ExitPc(f)
  PROVE  /\ Instr(f, pc).op = "exit" <=> pc = ExitPc(f)
         /\ pc \in Pcs(f) /\ ExitPc(f) \in Nat
<1>1. f \in Seq(Instructions) /\ Len(f) \in Nat /\ ExitPc(f) = Len(f) + 1
      /\ Pcs(f) = 1..(Len(f) + 4)
  BY DEF Functions, ExitPc, Pcs, Runtime
<1>2. CASE pc = Len(f) + 1
  <2>1. Instr(f, pc) = Runtime[1]
    BY <1>1, <1>2 DEF Instr
  <2>2. QED
    BY <1>1, <1>2, <2>1 DEF Runtime
<1>3. CASE pc <= Len(f)
  <2>1. Instr(f, pc) = f[pc] /\ f[pc] \in Instructions
    BY <1>1, <1>3 DEF Instr
  <2>2. f[pc].op # "exit"
    BY <2>1 DEF Instructions
  <2>3. QED
    BY <1>1, <1>3, <2>1, <2>2
<1>4. QED
  BY <1>1, <1>2, <1>3

\* A committed instruction leads no further than to the exit.
LEMMA NextPcFacts ==
  ASSUME NEW f \in Functions, NEW r \in Regs, r.pc <= ExitPc(f),
         Instr(f, r.pc).op \notin Syscalls
  PROVE  NextPc(f, r) \in Nat \ {0} /\ NextPc(f, r) <= ExitPc(f)
<1>1. r.pc \in Nat \ {0} /\ Len(f) \in Nat /\ ExitPc(f) = Len(f) + 1
  BY DEF Regs, Functions, ExitPc
<1>2. r.pc \in Pcs(f) /\ r.pc # Len(f) + 1
  BY <1>1, OpFacts DEF Syscalls
<1>3. r.pc <= Len(f)
  BY <1>1, <1>2
<1>4. /\ Instr(f, r.pc).op # "bx_lr"
      /\ Instr(f, r.pc).op \in {"b", "bz"} => Instr(f, r.pc).a \in 1..(Len(f)+1)
  BY <1>1, <1>2, <1>3, InstrFacts
<1>5. NextPc(f, r) = IF Taken(Instr(f, r.pc), r) THEN Instr(f, r.pc).a ELSE r.pc + 1
  BY <1>4 DEF NextPc
<1>6. CASE Taken(Instr(f, r.pc), r)
  BY <1>1, <1>4, <1>5, <1>6 DEF Taken
<1>7. CASE ~ Taken(Instr(f, r.pc), r)
  BY <1>1, <1>3, <1>5, <1>7
<1>8. QED
  BY <1>6, <1>7

-----------------------------------------------------------------------------
(***************************************************************************)
(* The inductive invariant.                                                *)
(***************************************************************************)
NoneExited == \A t \in Tids : ~ Exited(t)

\* While a schedule is in force nobody has exited, and it says who runs.
PlanInv ==
  schedule # NoSchedule =>
    /\ Adjacent(schedule.tids)
    /\ NoneExited
    /\ kpc = "user" /\ Active =>
         cur_thread = schedule.tids[ctx_switch_status.ctx_switch + 1]

RunnerInv ==
  kpc = "user" => ~ Exited(cur_thread) /\ cpu.pc <= ExitPc(text[cur_thread])

\* In the loop of retrieve_tid_from_queue the scheduled thread is in hand,
\* or on the queue ahead of the first thread that was popped.
Ahead(s) ==
  \/ loop.tid = loop.th
  \/ \E i \in DOMAIN s :
       /\ s[i] = loop.tid
       /\ loop.first = loop.th \/ \E j \in DOMAIN s : i < j /\ s[j] = loop.first

LoopInv(s) ==
  kpc = "retrieve" =>
    /\ schedule # NoSchedule
    /\ loop.tid = schedule.tids[ctx_switch_status.ctx_switch + 1]
    /\ loop.then \in {"enter", "switch"}
    /\ loop.th \notin Range(s)
    /\ Range(s) \cup {loop.th} = Tids \ (IF loop.then = "switch" THEN {cur_thread} ELSE {})
    /\ Ahead(s)

\* s is what is on the queue.
QueueInv(s) ==
  /\ IsList(q, s)
  /\ kpc = "start" => Range(s) = Tids /\ NoneExited /\ ctx_switch_status = ResetStatus
  /\ kpc = "user" => Range(s) = {t \in Tids \ {cur_thread} : ~ Exited(t)}
  /\ LoopInv(s)

RunInv ==
  /\ PlanInv
  /\ RunnerInv
  /\ OnlyPutcPanics
  /\ \E s \in Seq(Tids) : QueueInv(s)

\* What the invariants say of the types of what follows.
LEMMA Types ==
  ASSUME ThreadsInv
  PROVE  /\ q \in RunQueues /\ regs \in [Tids -> Regs] /\ cpu \in Regs
         /\ text \in [Tids -> Functions]
         /\ \A t \in Tids : regs[t].pc \in Nat \ {0} /\ ExitPc(text[t]) \in Nat
                            /\ (~ Exited(t) <=> regs[t].pc <= ExitPc(text[t]))
         /\ cpu.pc \in Nat \ {0}
         /\ ctx_switch_status.ctx_switch \in Nat
         /\ schedule # NoSchedule => IsSchedule(schedule)
         /\ kpc = "user" => cur_thread \in Tids
<1>1. TypeOK /\ ControlInv
  BY DEF ThreadsInv
<1>2. \A f \in Functions : ExitPc(f) \in Nat
  BY DEF Functions, ExitPc
<1>3. /\ q \in RunQueues /\ regs \in [Tids -> Regs] /\ cpu \in Regs
      /\ text \in [Tids -> Functions]
      /\ schedule # NoSchedule => IsSchedule(schedule)
      /\ kpc = "user" => cur_thread \in Tids
  BY <1>1 DEF TypeOK, ControlInv
<1>4. ctx_switch_status.ctx_switch \in Nat
  BY <1>1 DEF TypeOK, Statuses
<1>5. cpu.pc \in Nat \ {0} /\ \A t \in Tids : regs[t].pc \in Nat \ {0}
  BY <1>3 DEF Regs
<1>6. \A t \in Tids : ExitPc(text[t]) \in Nat
  BY <1>2, <1>3
<1>7. \A t \in Tids : ~ Exited(t) <=> regs[t].pc <= ExitPc(text[t])
  BY <1>5, <1>6 DEF Exited
<1>8. QED
  BY <1>3, <1>4, <1>5, <1>6, <1>7

\* The queue as run_interleavings leaves it for equiv_run satisfies the
\* invariant.
LEMMA RunInit == Init => RunInv
<1> SUFFICES ASSUME Init PROVE RunInv
  OBVIOUS
<1>1. PICK s \in Seq(Tids) : IsList(q, s) /\ Range(s) = Tids
  BY PushedAllList DEF Init
<1>2. text \in [Tids -> Functions]
  BY ProgramsAssumption DEF Init, Fresh
<1>3. NoneExited
  BY <1>2 DEF Init, Fresh, NoneExited, Exited, ExitPc, InitRegs, Functions
<1>4. PlanInv
  BY <1>3, SchedulesAssumption DEF Init, PlanInv
<1>5. QueueInv(s)
  BY <1>1, <1>3 DEF Init, Fresh, QueueInv, LoopInv
<1>6. QED
  BY <1>4, <1>5 DEF Init, RunInv, RunnerInv, OnlyPutcPanics

-----------------------------------------------------------------------------
\* The first pop of retrieve_tid_from_queue: the scheduled thread is on the
\* queue, hence in hand or behind.
LEMMA RetrieveBegins ==
  ASSUME ThreadsInv, NEW s \in Seq(Tids), IsList(q, s),
         NEW tid \in Range(s), NEW then, Retrieve(tid, then)
  PROVE  /\ kpc' = "retrieve"
         /\ loop' = [th |-> s[1], first |-> s[1], tid |-> tid, then |-> then]
         /\ Tail(s) \in Seq(Tids) /\ IsList(q', Tail(s))
         /\ s[1] \in Range(s) /\ Range(Tail(s)) = Range(s) \ {s[1]}
         /\ Ahead(Tail(s))'
<1>1. s # <<>> /\ q \in RunQueues
  BY Types DEF Range
<1>2. /\ q.head = s[1] /\ q.head \in Tids /\ q.head # NULL
      /\ Tail(s) \in Seq(Tids) /\ IsList(Popped(q), Tail(s))
      /\ Range(Tail(s)) = Range(s) \ {s[1]}
  BY <1>1, PoppedList, NullFacts
<1>3. /\ kpc' = "retrieve" /\ q' = Popped(q)
      /\ loop' = [th |-> s[1], first |-> s[1], tid |-> tid, then |-> then]
  BY <1>2 DEF Retrieve
<1>4. s[1] \in Range(s)
  BY <1>1 DEF Range
<1>5. Ahead(Tail(s))'
  <2>1. CASE tid = s[1]
    BY <1>3, <2>1 DEF Ahead
  <2>2. CASE tid # s[1]
    <3>1. tid \in Range(Tail(s))
      BY <1>2, <2>2
    <3>2. PICK i \in DOMAIN Tail(s) : Tail(s)[i] = tid
      BY <3>1 DEF Range
    <3>3. QED
      BY <1>3, <3>2 DEF Ahead
  <2>3. QED
    BY <2>1, <2>2
<1>6. QED
  BY <1>2, <1>3, <1>4, <1>5

\* equiv_run: the queue holds all threads, the first of the schedule too.
LEMMA RunEquivRun ==
  ASSUME ThreadsInv, RunInv, EquivRun
  PROVE  RunInv'
<1>1. PICK s \in Seq(Tids) : QueueInv(s)
  BY DEF RunInv
<1>2. /\ IsList(q, s) /\ Range(s) = Tids /\ NoneExited
      /\ ctx_switch_status.ctx_switch = 0
      /\ UNCHANGED <<text, regs, schedule, ctx_switch_status>>
  BY <1>1 DEF EquivRun, QueueInv, ResetStatus, trackVars, schedVars
<1>3. NoneExited'
  BY <1>2 DEF NoneExited, Exited
<1>4. schedule # NoSchedule => Adjacent(schedule.tids)
  BY DEF RunInv, PlanInv
<1>5. CASE schedule # NoSchedule
  <2>1. IsSchedule(schedule) /\ schedule.tids[1] \in Tids
    <3>1. IsSchedule(schedule)
      BY <1>5, Types
    <3>2. QED
      BY <3>1 DEF IsSchedule, ScheduleShape
  <2>2. Retrieve(schedule.tids[1], "enter")
    BY <1>5 DEF EquivRun
  <2>3. /\ kpc' = "retrieve"
        /\ loop' = [th |-> s[1], first |-> s[1], tid |-> schedule.tids[1], then |-> "enter"]
        /\ Tail(s) \in Seq(Tids) /\ IsList(q', Tail(s))
        /\ s[1] \in Range(s) /\ Range(Tail(s)) = Range(s) \ {s[1]}
        /\ Ahead(Tail(s))'
    BY <1>2, <2>1, <2>2, RetrieveBegins
  <2>4. LoopInv(Tail(s))'
    BY <1>2, <1>5, <2>3 DEF LoopInv
  <2>5. QueueInv(Tail(s))'
    BY <2>3, <2>4 DEF QueueInv
  <2>6. PlanInv' /\ RunnerInv' /\ OnlyPutcPanics'
    BY <1>2, <1>3, <1>4, <2>3 DEF PlanInv, RunnerInv, OnlyPutcPanics
  <2>7. QED
    BY <2>3, <2>5, <2>6 DEF RunInv
<1>6. CASE schedule = NoSchedule
  <2>1. s # <<>>
    <3>1. 1 \in Range(s)
      BY <1>2, NumFuncsAssumption DEF Tids
    <3>2. QED
      BY <3>1 DEF Range
  <2>2. /\ q.head = s[1] /\ s[1] \in Tids /\ q.head # NULL
        /\ Tail(s) \in Seq(Tids) /\ IsList(Popped(q), Tail(s))
        /\ Range(Tail(s)) = Tids \ {s[1]}
    BY <1>2, <2>1, PoppedList, NullFacts, Types
  <2>3. q' = Popped(q) /\ cur_thread' = s[1] /\ kpc' = "user" /\ cpu' = regs[s[1]]
    BY <1>6, <2>2 DEF EquivRun
  <2>4. QueueInv(Tail(s))'
    BY <1>3, <2>2, <2>3 DEF QueueInv, LoopInv, NoneExited
  <2>5. RunnerInv'
    BY <1>2, <1>3, <2>2, <2>3, Types DEF RunnerInv, NoneExited, Exited
  <2>6. PlanInv' /\ OnlyPutcPanics'
    BY <1>2, <1>6, <2>3 DEF PlanInv, OnlyPutcPanics
  <2>7. QED
    BY <2>2, <2>4, <2>5, <2>6 DEF RunInv
<1>7. QED
  BY <1>5, <1>6

\* The loop meets the scheduled thread before it comes round: it neither
\* panics nor empties the queue.
LEMMA RotateGoesOn ==
  ASSUME ThreadsInv, RunInv, Rotate
  PROVE  q.head # loop.first /\ kpc' = "retrieve"
<1>1. PICK s \in Seq(Tids) : QueueInv(s)
  BY DEF RunInv
<1>2. kpc = "retrieve" /\ loop.th # loop.tid /\ IsList(q, s) /\ LoopInv(s)
  BY <1>1 DEF Rotate, QueueInv
<1>3. PICK i \in DOMAIN s :
        s[i] = loop.tid /\ (loop.first = loop.th \/ \E j \in DOMAIN s : i < j /\ s[j] = loop.first)
  BY <1>2 DEF LoopInv, Ahead
<1>4. loop.th \notin Range(s) /\ q \in RunQueues /\ s # <<>>
  BY <1>2, <1>3, Types DEF LoopInv
<1>5. q.head = s[1] /\ q.head # NULL /\ 1 \in DOMAIN s /\ s[1] \in Range(s)
  BY <1>2, <1>4, PoppedList, NullFacts DEF Range
<1>6. q.head # loop.first
  <2>1. CASE loop.first = loop.th
    BY <1>4, <1>5, <2>1
  <2>2. CASE loop.first # loop.th
    <3>1. PICK j \in DOMAIN s : i < j /\ s[j] = loop.first
      BY <1>3, <2>2
    <3>2. j # 1
      BY <1>5, <3>1
    <3>3. QED
      BY <1>2, <1>5, <3>1, <3>2 DEF IsList, IsInjective
  <2>3. QED
    BY <2>1, <2>2
<1>7. QED
  BY <1>5, <1>6 DEF Rotate

\* One iteration of the loop: what was popped goes behind the others.
LEMMA RunRotate ==
  ASSUME ThreadsInv, RunInv, Rotate
  PROVE  RunInv'
<1>1. PICK s \in Seq(Tids) : QueueInv(s)
  BY DEF RunInv
<1>2. /\ kpc = "retrieve" /\ loop.th # loop.tid /\ IsList(q, s)
      /\ UNCHANGED <<text, regs, schedule, ctx_switch_status, cur_thread>>
      /\ q' = Appended(Popped(q), loop.th)
  BY <1>1 DEF Rotate, QueueInv, schedVars
<1>3. LoopInv(s)
  BY <1>1 DEF QueueInv
<1>4. PICK i \in DOMAIN s :
        s[i] = loop.tid /\ (loop.first = loop.th \/ \E j \in DOMAIN s : i < j /\ s[j] = loop.first)
  BY <1>2, <1>3 DEF LoopInv, Ahead
<1>5. loop.th \in Tids /\ loop.th \notin Range(s) /\ q \in RunQueues
  BY <1>2, <1>3, Types DEF LoopInv, ThreadsInv, ControlInv
<1>6. s # <<>>
  BY <1>4
<1>7. /\ q.head = s[1] /\ s[1] \in Tids /\ q.head # NULL
      /\ Popped(q) \in RunQueues
      /\ Tail(s) \in Seq(Tids) /\ IsList(Popped(q), Tail(s))
      /\ Range(Tail(s)) = Range(s) \ {s[1]}
  BY <1>2, <1>5, <1>6, PoppedList, NullFacts
<1>8. PICK u \in Seq(Tids) :
        /\ u = Append(Tail(s), loop.th) /\ IsList(q', u)
        /\ Range(u) = (Range(s) \ {s[1]}) \cup {loop.th}
  <2>1. loop.th \notin Range(Tail(s))
    BY <1>5, <1>7
  <2>2. LET u == Append(Tail(s), loop.th) IN
          /\ u \in Seq(Tids) /\ IsList(Appended(Popped(q), loop.th), u)
          /\ Range(u) = Range(Tail(s)) \cup {loop.th}
    BY <1>5, <1>7, <2>1, AppendedList
  <2>3. QED
    BY <1>2, <1>7, <2>2
<1>9. Len(s) \in Nat \ {0} /\ DOMAIN s = 1..Len(s) /\ s[1] \in Range(s)
  BY <1>6 DEF Range
<1>10. DOMAIN u = 1..Len(s) /\ u[Len(s)] = loop.th /\ \A k \in 2..Len(s) : u[k - 1] = s[k]
  BY <1>5, <1>8, <1>9
<1>11. q.head # loop.first /\ kpc' = "retrieve"
  BY RotateGoesOn
<1>12. /\ kpc' = "retrieve" /\ loop'.th = s[1] /\ loop'.tid = loop.tid
       /\ loop'.first = loop.first /\ loop'.then = loop.then
  BY <1>7, <1>11 DEF Rotate, ThreadsInv, TypeOK
<1>13. Ahead(u)'
  <2>1. CASE i = 1
    BY <1>4, <1>12, <2>1 DEF Ahead
  <2>2. CASE i # 1
    <3>1. i \in 2..Len(s) /\ i - 1 \in DOMAIN u /\ u[i - 1] = loop.tid
      BY <1>4, <1>9, <1>10, <2>2
    <3>2. \E j \in DOMAIN u : i - 1 < j /\ u[j] = loop.first
      <4>1. CASE loop.first = loop.th
        BY <1>9, <1>10, <3>1, <4>1
      <4>2. CASE loop.first # loop.th
        <5>1. PICK j \in DOMAIN s : i < j /\ s[j] = loop.first
          BY <1>4, <4>2
        <5>2. j \in 2..Len(s) /\ j - 1 \in DOMAIN u /\ u[j - 1] = loop.first /\ i - 1 < j - 1
          BY <1>9, <1>10, <3>1, <5>1
        <5>3. QED
          BY <5>2
      <4>3. QED
        BY <4>1, <4>2
    <3>3. QED
      BY <1>12, <3>1, <3>2 DEF Ahead
  <2>3. QED
    BY <2>1, <2>2
<1>14. s[1] \notin Range(u)
  BY <1>5, <1>8, <1>9
<1>15. LoopInv(u)'
  <2>1. Range(u) \cup {s[1]} = Range(s) \cup {loop.th}
    BY <1>8, <1>9
  <2>2. QED
    BY <1>2, <1>3, <1>12, <1>13, <1>14, <2>1 DEF LoopInv
<1>16. QueueInv(u)'
  BY <1>8, <1>12, <1>15 DEF QueueInv
<1>17. PlanInv' /\ RunnerInv' /\ OnlyPutcPanics'
  BY <1>2, <1>12 DEF RunInv, PlanInv, RunnerInv, OnlyPutcPanics, NoneExited, Exited
<1>18. QED
  BY <1>8, <1>16, <1>17 DEF RunInv

\* The loop ends with the scheduled thread, which is on the queue no more.
LEMMA RunEnterFirst ==
  ASSUME ThreadsInv, RunInv, EnterFirst
  PROVE  RunInv'
<1>1. PICK s \in Seq(Tids) : QueueInv(s)
  BY DEF RunInv
<1>2. /\ kpc = "retrieve" /\ loop.th = loop.tid /\ loop.then = "enter" /\ kpc' = "user"
      /\ cur_thread' = loop.th /\ cpu' = regs[loop.th] /\ IsList(q, s)
      /\ UNCHANGED <<text, regs, q, schedule, ctx_switch_status>>
  BY <1>1 DEF EnterFirst, QueueInv, schedVars
<1>3. LoopInv(s)
  BY <1>1 DEF QueueInv
<1>4. NoneExited /\ NoneExited' /\ Adjacent(schedule.tids)
  BY <1>2, <1>3 DEF RunInv, PlanInv, LoopInv, NoneExited, Exited
<1>5. loop.th \in Tids /\ Range(s) = Tids \ {loop.th}
  BY <1>2, <1>3 DEF LoopInv, ThreadsInv, ControlInv
<1>6. QueueInv(s)'
  BY <1>2, <1>4, <1>5 DEF QueueInv, LoopInv, NoneExited
<1>7. PlanInv'
  BY <1>2, <1>3, <1>4 DEF PlanInv, LoopInv
<1>8. RunnerInv'
  BY <1>2, <1>4, <1>5, Types DEF RunnerInv, NoneExited, Exited
<1>9. QED
  BY <1>2, <1>6, <1>7, <1>8 DEF RunInv, OnlyPutcPanics

\* The end of equiv_hash_handler after the rotation keeps the invariant.
LEMMA RunSwitchTo ==
  ASSUME ThreadsInv, RunInv, SwitchTo
  PROVE  RunInv'
<1>1. PICK s \in Seq(Tids) : QueueInv(s)
  BY DEF RunInv
<1>2. /\ kpc = "retrieve" /\ loop.th = loop.tid /\ loop.then = "switch" /\ kpc' = "user"
      /\ cur_thread' = loop.th /\ cpu' = regs[loop.th] /\ IsList(q, s)
      /\ q' = Appended(q, cur_thread)
      /\ UNCHANGED <<text, regs, schedule, ctx_switch_status>>
  BY <1>1 DEF SwitchTo, RunThread, QueueInv, schedVars
<1>3. LoopInv(s)
  BY <1>1 DEF QueueInv
<1>4. NoneExited /\ NoneExited' /\ Adjacent(schedule.tids)
  BY <1>2, <1>3 DEF RunInv, PlanInv, LoopInv, NoneExited, Exited
<1>5. /\ loop.th \in Tids /\ cur_thread \in Tids /\ q \in RunQueues
      /\ cur_thread \notin Range(s) /\ Range(s) \cup {cur_thread} = Tids \ {loop.th}
  <2>1. loop.th \in Tids /\ cur_thread \in Tids /\ q \in RunQueues
    BY <1>2, Types DEF ThreadsInv, ControlInv
  <2>2. loop.th \notin Range(s) /\ Range(s) \cup {loop.th} = Tids \ {cur_thread}
    BY <1>2, <1>3 DEF LoopInv
  <2>3. QED
    BY <2>1, <2>2
<1>6. PICK u \in Seq(Tids) : IsList(q', u) /\ Range(u) = Tids \ {loop.th}
  BY <1>2, <1>5, AppendedList
<1>7. QueueInv(u)'
  BY <1>2, <1>4, <1>6 DEF QueueInv, LoopInv, NoneExited
<1>8. PlanInv'
  BY <1>2, <1>3, <1>4 DEF PlanInv, LoopInv
<1>9. RunnerInv'
  BY <1>2, <1>4, <1>5, Types DEF RunnerInv, NoneExited, Exited
<1>10. QED
  BY <1>2, <1>6, <1>7, <1>8, <1>9 DEF RunInv, OnlyPutcPanics

-----------------------------------------------------------------------------
\* The saved registers of one thread change, those of the others do not.
LEMMA Resaved ==
  ASSUME ThreadsInv, NEW c \in Tids, NEW v,
         regs' = [regs EXCEPT ![c] = v], UNCHANGED text
  PROVE  \A t \in Tids :
           Exited(t)' <=> IF t = c THEN v.pc > ExitPc(text[c]) ELSE Exited(t)
BY Types DEF Exited

\* What is known when a thread runs.
LEMMA Running ==
  ASSUME ThreadsInv, RunInv, kpc = "user"
  PROVE  \E c \in Tids, s \in Seq(Tids) :
           /\ c = cur_thread
           /\ IsList(q, s) /\ Range(s) = {t \in Tids \ {c} : ~ Exited(t)}
           /\ ~ Exited(c) /\ cpu.pc \in Nat \ {0} /\ cpu.pc <= ExitPc(text[c])
           /\ text[c] \in Functions
           /\ \A i \in DOMAIN s : s[i] \in Range(s) /\ s[i] \in Tids
<1>1. PICK s \in Seq(Tids) : QueueInv(s)
  BY DEF RunInv
<1>2. cur_thread \in Tids /\ text[cur_thread] \in Functions /\ cpu.pc \in Nat \ {0}
  BY Types
<1>3. \A i \in DOMAIN s : s[i] \in Range(s) /\ s[i] \in Tids
  BY DEF Range
<1>4. QED
  BY <1>1, <1>2, <1>3 DEF RunInv, RunnerInv, QueueInv

\* The thread goes on: faults, counts and instructions.
LEMMA RunGoesOn ==
  ASSUME ThreadsInv, RunInv, kpc = "user",
         UNCHANGED <<text, q, cur_thread, schedule, kpc>>,
         ctx_switch_status'.ctx_switch = ctx_switch_status.ctx_switch,
         UNCHANGED regs \/ regs' = [regs EXCEPT ![cur_thread] = cpu],
         cpu'.pc \in Nat /\ cpu'.pc <= ExitPc(text[cur_thread])
  PROVE  RunInv'
<1>1. PICK c \in Tids, s \in Seq(Tids) :
        /\ c = cur_thread
        /\ IsList(q, s) /\ Range(s) = {t \in Tids \ {c} : ~ Exited(t)}
        /\ ~ Exited(c) /\ cpu.pc \in Nat \ {0} /\ cpu.pc <= ExitPc(text[c])
  BY Running
<1>2. \A t \in Tids : Exited(t)' <=> Exited(t)
  <2>1. CASE UNCHANGED regs
    BY <2>1 DEF Exited
  <2>2. CASE regs' = [regs EXCEPT ![c] = cpu]
    <3>1. \A t \in Tids : Exited(t)' <=> IF t = c THEN cpu.pc > ExitPc(text[c]) ELSE Exited(t)
      BY <2>2, Resaved
    <3>2. ~ (cpu.pc > ExitPc(text[c]))
      BY <1>1, Types
    <3>3. QED
      BY <1>1, <3>1, <3>2
  <2>3. QED
    BY <1>1, <2>1, <2>2
<1>3. QueueInv(s)'
  BY <1>1, <1>2 DEF QueueInv, LoopInv
<1>4. RunnerInv'
  BY <1>1, <1>2 DEF RunnerInv
<1>5. PlanInv'
  BY <1>2 DEF RunInv, PlanInv, NoneExited, Active, n_ctx_switches
<1>6. QED
  BY <1>3, <1>4, <1>5 DEF RunInv, OnlyPutcPanics

\* The context switch: the scheduled thread is another one, which waits.
LEMMA RunStepSwitch ==
  ASSUME ThreadsInv, RunInv, StepSwitch
  PROVE  RunInv'
<1> DEFINE n == ctx_switch_status.ctx_switch
<1>1. kpc = "user" /\ ctx_switch_status.do_instr_count = 1
  BY DEF StepSwitch, MismatchFault
<1>2. PICK c \in Tids, s \in Seq(Tids) :
        /\ c = cur_thread
        /\ IsList(q, s) /\ Range(s) = {t \in Tids \ {c} : ~ Exited(t)}
        /\ ~ Exited(c) /\ cpu.pc \in Nat \ {0} /\ cpu.pc <= ExitPc(text[c])
  BY <1>1, Running
<1>3. Active
  BY <1>1 DEF ThreadsInv, CountPendingOnlyWhenActive
<1>4. /\ schedule # NoSchedule /\ Adjacent(schedule.tids) /\ NoneExited
      /\ c = schedule.tids[n + 1]
  BY <1>1, <1>2, <1>3 DEF Active, RunInv, PlanInv
<1>5. schedule.tids[n + 2] \in Tids /\ schedule.tids[n + 2] # c
  <2>1. schedule.tids \in Seq(Tids) /\ Len(schedule.tids) = Len(schedule.instr_counts) + 1
        /\ schedule.instr_counts \in Seq(Nat \ {0})
    BY <1>4, Types DEF IsSchedule, ScheduleShape
  <2>2. n \in Nat /\ n < Len(schedule.instr_counts)
    BY <1>3, Types DEF Active, n_ctx_switches
  <2>3. n + 1 \in 1..(Len(schedule.tids) - 1) /\ (n + 1) + 1 = n + 2 /\ n + 2 \in 1..Len(schedule.tids)
    <3>1. PICK m, k, l : m = n /\ k = Len(schedule.instr_counts) /\ l = Len(schedule.tids)
      OBVIOUS
    <3>2. m \in Nat /\ k \in Nat /\ m < k /\ l = k + 1
      BY <2>1, <2>2, <3>1
    <3>3. m + 1 \in 1..(l - 1) /\ (m + 1) + 1 = m + 2 /\ m + 2 \in 1..l
      BY <3>2
    <3>. QED
      BY <3>1, <3>3
  <2>4. QED
    BY <1>4, <2>1, <2>3 DEF Adjacent
<1>6. Range(s) = Tids \ {c}
  BY <1>2, <1>4 DEF NoneExited
<1>7. /\ UNCHANGED <<text, cur_thread, schedule>>
      /\ regs' = [regs EXCEPT ![c] = cpu]
      /\ ctx_switch_status' = Settled(n + 1, 0)
      /\ Retrieve(schedule.tids[n + 2], "switch")
  BY <1>2 DEF StepSwitch, MismatchFault
<1>8. NoneExited'
  <2>1. ~ (cpu.pc > ExitPc(text[c]))
    BY <1>2, Types
  <2>2. \A t \in Tids : Exited(t)' <=> IF t = c THEN cpu.pc > ExitPc(text[c]) ELSE Exited(t)
    BY <1>7, Resaved
  <2>3. QED
    BY <1>4, <2>1, <2>2 DEF NoneExited
<1>9. PICK k \in Tids : k = schedule.tids[n + 2]
  BY <1>5
<1>10. /\ kpc' = "retrieve"
       /\ loop' = [th |-> s[1], first |-> s[1], tid |-> k, then |-> "switch"]
       /\ Tail(s) \in Seq(Tids) /\ IsList(q', Tail(s))
       /\ s[1] \in Range(s) /\ Range(Tail(s)) = Range(s) \ {s[1]}
       /\ Ahead(Tail(s))'
  BY <1>2, <1>5, <1>6, <1>7, <1>9, RetrieveBegins
<1>11. ctx_switch_status'.ctx_switch + 1 = n + 2
  <2>1. n \in Nat /\ ctx_switch_status'.ctx_switch = n + 1
    BY <1>7, Types DEF Settled
  <2>2. QED
    BY <2>1
<1>12. LoopInv(Tail(s))'
  BY <1>2, <1>4, <1>6, <1>7, <1>9, <1>10, <1>11 DEF LoopInv
<1>13. QueueInv(Tail(s))'
  BY <1>10, <1>12 DEF QueueInv
<1>14. PlanInv' /\ RunnerInv' /\ OnlyPutcPanics'
  BY <1>4, <1>7, <1>8, <1>10 DEF PlanInv, RunnerInv, OnlyPutcPanics
<1>15. QED
  BY <1>10, <1>13, <1>14 DEF RunInv

-----------------------------------------------------------------------------
\* The system calls.  A thread that prints or yields is not at its exit yet,
\* so that it is alive behind its swi, and waits at the end of the queue.
LEMMA SwiFacts ==
  ASSUME ThreadsInv, NEW op \in {"putc", "yield", "exit"}, Swi(op),
         NEW c \in Tids, c = cur_thread, cpu.pc <= ExitPc(text[c])
  PROVE  /\ kpc = "user" /\ UNCHANGED text
         /\ regs'[c].pc = cpu.pc + 1 /\ regs' \in [Tids -> Regs]
         /\ \A t \in Tids : t # c => regs'[t] = regs[t]
         /\ regs' = SavedAtSwi
         /\ \A t \in Tids : Exited(t)' <=> IF t = c THEN op = "exit" ELSE Exited(t)
         /\ op # "exit" => cpu.pc + 1 <= ExitPc(text[c])
<1> DEFINE v == [cpu EXCEPT !.pc = cpu.pc + 1]
<1>1. /\ text[c] \in Functions /\ cpu.pc \in Nat \ {0} /\ cpu \in Regs
      /\ ExitPc(text[c]) \in Nat /\ regs \in [Tids -> Regs]
  BY Types
<1>2. /\ kpc = "user" /\ UNCHANGED text /\ regs' = SavedAtSwi
      /\ Instr(text[c], cpu.pc).op = op
  BY DEF Swi, At
<1>3. regs' = [regs EXCEPT ![c] = v]
  BY <1>2 DEF SavedAtSwi
<1>4. v \in Regs /\ v.pc = cpu.pc + 1
  BY <1>1 DEF Regs
<1>5. op = "exit" <=> cpu.pc = ExitPc(text[c])
  BY <1>1, <1>2, OpFacts
<1>6. v.pc > ExitPc(text[c]) <=> op = "exit"
  BY <1>1, <1>4, <1>5
<1>7. \A t \in Tids : Exited(t)' <=> IF t = c THEN v.pc > ExitPc(text[c]) ELSE Exited(t)
  BY <1>2, <1>3, Resaved
<1> HIDE DEF v
<1>8. /\ regs'[c].pc = cpu.pc + 1 /\ regs' \in [Tids -> Regs]
      /\ \A t \in Tids : t # c => regs'[t] = regs[t]
  BY <1>1, <1>3, <1>4
<1>9. op # "exit" => cpu.pc + 1 <= ExitPc(text[c])
  BY <1>1, <1>5
<1>10. QED
  BY <1>2, <1>6, <1>7, <1>8, <1>9

\* Type correctness bounds the saved program counters after the step too.
LEMMA AliveAfter ==
  ThreadsInv' => (\A t \in Tids : ~ Exited(t) => regs[t].pc <= ExitPc(text[t]))'
<1>1. ThreadsInv => \A t \in Tids : ~ Exited(t) => regs[t].pc <= ExitPc(text[t])
  BY Types
<1>2. QED
  BY <1>1, PTL

\* A thread k is taken from the queue and runs, with its saved registers.
LEMMA RunsAnother ==
  ASSUME ThreadsInv', NEW k \in Tids, NEW u \in Seq(Tids),
         kpc' = "user", cur_thread' = k, cpu' = regs'[k],
         IsList(q', u), Range(u) = {t \in Tids \ {k} : ~ Exited(t)'}, ~ Exited(k)',
         schedule' = NoSchedule \/ (PlanInv /\ NoneExited' /\ ~ Active' /\ UNCHANGED schedule)
  PROVE  RunInv'
<1>1. QueueInv(u)'
  BY DEF QueueInv, LoopInv
<1>2. \A t \in Tids : ~ Exited(t)' => regs'[t].pc <= ExitPc(text[t])'
  BY AliveAfter
<1>3. cpu'.pc <= ExitPc(text[k])'
  BY <1>2
<1>4. RunnerInv'
  BY <1>3 DEF RunnerInv
<1>5. PlanInv'
  BY DEF PlanInv
<1>6. QED
  BY <1>1, <1>4, <1>5 DEF RunInv, OnlyPutcPanics

\* The head of the queue runs, the caller waits behind the others or, having
\* exited, is gone.
LEMMA RunSysExit ==
  ASSUME ThreadsInv, ThreadsInv', RunInv, SysExit
  PROVE  RunInv'
<1>1. Swi("exit") /\ kpc = "user"
  BY DEF SysExit, Swi
<1>2. PICK c \in Tids, s \in Seq(Tids) :
        /\ c = cur_thread
        /\ IsList(q, s) /\ Range(s) = {t \in Tids \ {c} : ~ Exited(t)}
        /\ cpu.pc <= ExitPc(text[c])
        /\ \A i \in DOMAIN s : s[i] \in Range(s) /\ s[i] \in Tids
  BY <1>1, Running
<1>3. \A t \in Tids : Exited(t)' <=> t = c \/ Exited(t)
  BY <1>1, <1>2, SwiFacts
<1>4. regs' = SavedAtSwi /\ schedule' = NoSchedule /\ q' = Popped(q) /\ q \in RunQueues
  BY Types DEF SysExit, Swi
<1>5. CASE s = <<>>
  <2>1. q.head = NULL
    BY <1>2, <1>5 DEF IsList
  <2>2. kpc' = "stopped" /\ q' = q
    BY <1>4, <2>1 DEF SysExit, Popped
  <2>3. QED
    BY <1>2, <1>4, <2>2
    DEF RunInv, PlanInv, RunnerInv, OnlyPutcPanics, QueueInv, LoopInv
<1>6. CASE s # <<>>
  <2>1. /\ q.head = s[1] /\ s[1] \in Tids /\ q.head # NULL
        /\ Tail(s) \in Seq(Tids) /\ IsList(q', Tail(s))
        /\ Range(Tail(s)) = Range(s) \ {s[1]} /\ s[1] \in Range(s)
    BY <1>2, <1>4, <1>6, PoppedList, NullFacts
  <2>2. kpc' = "user" /\ cur_thread' = s[1] /\ cpu' = regs'[s[1]]
    BY <1>4, <2>1 DEF SysExit, RunThread
  <2>3. Range(Tail(s)) = {t \in Tids \ {s[1]} : ~ Exited(t)'} /\ ~ Exited(s[1])'
    BY <1>2, <1>3, <2>1
  <2>4. QED
    BY <1>4, <2>1, <2>2, <2>3, RunsAnother
<1>7. QED
  BY <1>5, <1>6

\* A yield keeps the invariant: the thread goes to the end of the queue.
LEMMA RunSysYield ==
  ASSUME ThreadsInv, ThreadsInv', RunInv, SysYield
  PROVE  RunInv'
<1>1. Swi("yield") /\ kpc = "user"
  BY DEF SysYield, Swi
<1>2. PICK c \in Tids, s \in Seq(Tids) :
        /\ c = cur_thread
        /\ IsList(q, s) /\ Range(s) = {t \in Tids \ {c} : ~ Exited(t)}
        /\ ~ Exited(c) /\ cpu.pc <= ExitPc(text[c])
  BY <1>1, Running
<1>3. \A t \in Tids : Exited(t)' <=> Exited(t)
  BY <1>1, <1>2, SwiFacts
<1>4. regs' = SavedAtSwi /\ schedule' = NoSchedule /\ q \in RunQueues
  BY Types DEF SysYield, Swi
<1>5. PICK u \in Seq(Tids) :
        /\ IsList(Appended(q, c), u) /\ u # <<>> /\ Appended(q, c) \in RunQueues
        /\ Range(u) = {t \in Tids : ~ Exited(t)}
  <2>1. c \notin Range(s)
    BY <1>2
  <2>2. LET u == Append(s, c) IN
          /\ u \in Seq(Tids) /\ u # <<>>
          /\ Appended(q, c) \in RunQueues /\ IsList(Appended(q, c), u)
          /\ Range(u) = Range(s) \cup {c}
    BY <1>2, <1>4, <2>1, AppendedList
  <2>3. Range(s) \cup {c} = {t \in Tids : ~ Exited(t)}
    BY <1>2
  <2>4. QED
    BY <2>2, <2>3
<1>6. /\ Appended(q, c).head = u[1] /\ u[1] \in Tids
      /\ Tail(u) \in Seq(Tids) /\ IsList(Popped(Appended(q, c)), Tail(u))
      /\ Range(Tail(u)) = Range(u) \ {u[1]}
  BY <1>5, PoppedList
<1>7. u[1] \in Range(u)
  BY <1>5, ListHasHead DEF Range
<1>8. kpc' = "user" /\ cur_thread' = u[1] /\ cpu' = regs'[u[1]] /\ q' = Popped(Appended(q, c))
  BY <1>2, <1>4, <1>6 DEF SysYield, RunThread
<1>9. Range(Tail(u)) = {t \in Tids \ {u[1]} : ~ Exited(t)'} /\ ~ Exited(u[1])'
  BY <1>3, <1>5, <1>6, <1>7
<1>10. QED
  BY <1>4, <1>6, <1>8, <1>9, RunsAnother

\* A putc keeps the invariant: it panics or goes on.
LEMMA RunSysPutc ==
  ASSUME ThreadsInv, ThreadsInv', RunInv, SysPutc
  PROVE  RunInv'
<1>1. Swi("putc") /\ kpc = "user" /\ UNCHANGED <<schedule, ctx_switch_status>>
  BY DEF SysPutc, Swi
<1>2. PICK c \in Tids, s \in Seq(Tids) :
        /\ c = cur_thread
        /\ IsList(q, s) /\ Range(s) = {t \in Tids \ {c} : ~ Exited(t)}
        /\ ~ Exited(c) /\ cpu.pc <= ExitPc(text[c])
        /\ \A i \in DOMAIN s : s[i] \in Range(s) /\ s[i] \in Tids
  BY <1>1, Running
<1>3. /\ \A t \in Tids : Exited(t)' <=> Exited(t)
      /\ UNCHANGED text
  BY <1>1, <1>2, SwiFacts
<1>4. regs' = SavedAtSwi /\ q \in RunQueues
  BY Types DEF SysPutc, Swi
<1>5. PlanInv /\ (NoneExited => NoneExited')
  BY <1>3 DEF RunInv, NoneExited
<1>6. CASE Active
  <2>1. kpc' = "panic" /\ UNCHANGED <<q, cur_thread, cpu>> /\ At({"putc"})
    BY <1>6 DEF SysPutc, Swi
  <2>2. At({"putc"})' /\ Active' /\ cur_thread' # NULL
    BY <1>1, <1>2, <1>3, <1>6, <2>1, NullFacts DEF At, Active, n_ctx_switches
  <2>3. PlanInv' /\ RunnerInv' /\ OnlyPutcPanics'
    BY <1>1, <1>5, <2>1, <2>2 DEF PlanInv, RunnerInv, OnlyPutcPanics
  <2>4. QueueInv(s)'
    BY <1>2, <2>1 DEF QueueInv, LoopInv
  <2>5. QED
    BY <2>3, <2>4 DEF RunInv
<1>7. CASE ~ Active
  <2>1. ~ Active'
    BY <1>1, <1>7 DEF Active, n_ctx_switches
  <2>2. schedule' = NoSchedule \/ (PlanInv /\ NoneExited' /\ ~ Active' /\ UNCHANGED schedule)
    BY <1>1, <1>5, <2>1 DEF PlanInv
  <2>3. CASE s = <<>>
    <3>1. q.head = NULL
      BY <1>2, <2>3 DEF IsList
    <3>2. kpc' = "user" /\ cur_thread' = c /\ cpu' = regs'[c] /\ UNCHANGED q
      BY <1>2, <1>4, <1>7, <3>1 DEF SysPutc, RunThread
    <3>3. Range(s) = {t \in Tids \ {c} : ~ Exited(t)'} /\ ~ Exited(c)' /\ IsList(q', s)
      BY <1>2, <1>3, <3>2
    <3>4. QED
      BY <2>2, <3>2, <3>3, RunsAnother
  <2>4. CASE s # <<>>
    <3>1. /\ q.head = s[1] /\ s[1] \in Tids /\ q.head # NULL /\ s[1] \in Range(s)
          /\ Tail(s) \in Seq(Tids) /\ IsList(Popped(q), Tail(s)) /\ Popped(q) \in RunQueues
          /\ Range(Tail(s)) = Range(s) \ {s[1]}
      BY <1>2, <1>4, <2>4, PoppedList, NullFacts
    <3>2. /\ kpc' = "user" /\ cur_thread' = s[1] /\ cpu' = regs'[s[1]]
          /\ q' = Appended(Popped(q), c)
      BY <1>2, <1>4, <1>7, <3>1 DEF SysPutc, RunThread
    <3>3. PICK u \in Seq(Tids) : IsList(q', u) /\ Range(u) = Range(Tail(s)) \cup {c}
      <4>1. c \notin Range(Tail(s))
        BY <1>2, <3>1
      <4>2. QED
        BY <3>1, <3>2, <4>1, AppendedList
    <3>4. Range(u) = {t \in Tids \ {s[1]} : ~ Exited(t)'} /\ ~ Exited(s[1])'
      BY <1>2, <1>3, <3>1, <3>3
    <3>5. QED
      BY <2>2, <3>1, <3>2, <3>3, <3>4, RunsAnother
  <2>5. QED
    BY <2>3, <2>4
<1>8. QED
  BY <1>6, <1>7

-----------------------------------------------------------------------------
\* The steps within one thread: none moves it beyond its exit.
LEMMA RunSteps ==
  ASSUME ThreadsInv, ThreadsInv', RunInv, StepOnly \/ StepCount \/ DataAbort \/ Commit
  PROVE  RunInv'
<1>1. kpc = "user"
  BY DEF StepOnly, StepCount, MismatchFault, DataAbort, Commit
<1>2. PICK c \in Tids, s \in Seq(Tids) :
        c = cur_thread /\ cpu.pc \in Nat \ {0} /\ cpu.pc <= ExitPc(text[c]) /\ text[c] \in Functions
  BY <1>1, Running
<1>3. CASE StepOnly \/ StepCount
  <2>1. /\ UNCHANGED <<text, q, cur_thread, schedule, kpc, cpu>>
        /\ regs' = [regs EXCEPT ![cur_thread] = cpu]
    BY <1>1, <1>3 DEF StepOnly, StepCount, MismatchFault
  <2>2. ctx_switch_status'.ctx_switch = ctx_switch_status.ctx_switch
    BY <1>3 DEF StepOnly, StepCount, Settled
  <2>3. QED
    BY <1>1, <1>2, <2>1, <2>2, RunGoesOn
<1>4. CASE DataAbort
  <2>1. UNCHANGED <<text, q, cur_thread, schedule, kpc, cpu, regs>>
    BY <1>4 DEF DataAbort, threadVars
  <2>2. ctx_switch_status'.ctx_switch = ctx_switch_status.ctx_switch
    BY <1>4 DEF DataAbort, ThreadsInv, TypeOK, Statuses
  <2>3. QED
    BY <1>1, <1>2, <2>1, <2>2, RunGoesOn
<1>5. CASE Commit
  <2>1. UNCHANGED <<text, q, cur_thread, schedule, kpc, regs, ctx_switch_status>>
    BY <1>5 DEF Commit, schedVars
  <2>2. cpu' = NextRegs(text[c], cpu, mem) /\ Instr(text[c], cpu.pc).op \notin Syscalls
    BY <1>2, <1>5 DEF Commit, At
  <2>3. cpu'.pc = NextPc(text[c], cpu)
    BY <2>2 DEF NextRegs
  <2>4. cpu'.pc \in Nat /\ cpu'.pc <= ExitPc(text[c])
    BY <1>2, <2>2, <2>3, NextPcFacts, Types
  <2>5. QED
    BY <1>1, <1>2, <2>1, <2>4, RunGoesOn
<1>6. QED
  BY <1>3, <1>4, <1>5

\* Nothing happens.
LEMMA RunStutter == ASSUME RunInv, UNCHANGED vars PROVE RunInv'
<1>1. PICK s \in Seq(Tids) : QueueInv(s)
  BY DEF RunInv
<1> USE DEF vars, threadVars, schedVars, trackVars
<1>2. UNCHANGED <<text, q, cur_thread, regs, cpu, schedule, ctx_switch_status, kpc, loop>>
  BY DEF vars
<1>3. QueueInv(s)'
  BY <1>1, <1>2 DEF QueueInv, LoopInv, Ahead, NoneExited, Exited
<1>4. PlanInv' /\ RunnerInv' /\ OnlyPutcPanics'
  BY <1>2 DEF RunInv, PlanInv, RunnerInv, OnlyPutcPanics, NoneExited, Exited, Active,
              n_ctx_switches, At
<1>5. QED
  BY <1>3, <1>4 DEF RunInv

\* Every step preserves it.
LEMMA RunNext ==
  ASSUME ThreadsInv, ThreadsInv', RunInv, [Next]_vars
  PROVE  RunInv'
<1>1. CASE EquivRun
  BY <1>1, RunEquivRun
<1>2. CASE Rotate
  BY <1>2, RunRotate
<1>3. CASE EnterFirst
  BY <1>3, RunEnterFirst
<1>4. CASE SwitchTo
  BY <1>4, RunSwitchTo
<1>5. CASE StepOnly \/ StepCount \/ DataAbort \/ Commit
  BY <1>5, RunSteps
<1>6. CASE StepSwitch
  BY <1>6, RunStepSwitch
<1>7. CASE SysPutc
  BY <1>7, RunSysPutc
<1>8. CASE SysYield
  BY <1>8, RunSysYield
<1>9. CASE SysExit
  BY <1>9, RunSysExit
<1>10. CASE UNCHANGED vars
  BY <1>10, RunStutter
<1>11. QED
  BY <1>1, <1>2, <1>3, <1>4, <1>5, <1>6, <1>7, <1>8, <1>9, <1>10
  DEF Next, KernelStep, UserStep, Syscall

\* The run queue, the schedule and the running thread agree in every state.
THEOREM RunInvariant == Spec => []RunInv
<1>1. ThreadsInv /\ ThreadsInv' /\ RunInv /\ [Next]_vars => RunInv'
  BY RunNext
<1>2. QED
  BY RunInit, ThreadsInvariant, <1>1, PTL DEF Spec

\* The invariant implies the properties of the queue.
LEMMA RunHolds == RunInv => QueueHoldsTheOthers /\ OnlyPutcPanics /\ ExitedNeverRuns
<1> SUFFICES ASSUME RunInv PROVE QueueHoldsTheOthers /\ OnlyPutcPanics /\ ExitedNeverRuns
  OBVIOUS
<1>1. ASSUME kpc = "user" PROVE Holds(q, {t \in Tids \ {cur_thread} : ~ Exited(t)})
  <2>1. PICK s \in Seq(Tids) : QueueInv(s)
    BY DEF RunInv
  <2>2. IsList(q, s) /\ Range(s) = {t \in Tids \ {cur_thread} : ~ Exited(t)}
    BY <1>1, <2>1 DEF QueueInv
  <2>3. s \in Lists
    BY <2>2, ListIsShort DEF IsList
  <2>4. QED
    BY <2>2, <2>3 DEF Holds
<1>2. OnlyPutcPanics /\ ExitedNeverRuns
  BY DEF RunInv, RunnerInv, ExitedNeverRuns
<1>3. QED
  BY <1>1, <1>2 DEF QueueHoldsTheOthers

\* No thread is lost, queued twice or queued after its exit, however often
\* the queue is rotated and whatever the threads call.
THEOREM QueueIsComplete == Spec => []QueueHoldsTheOthers
BY RunHolds, RunInvariant, PTL

\* retrieve_tid_from_queue always finds the scheduled thread: the checker
\* dereferences no null thread, and panics only on a function that prints
\* before its schedule is used up.
THEOREM ScheduledThreadIsFound == Spec => []OnlyPutcPanics
BY RunHolds, RunInvariant, PTL

\* A run that starts on a queue filled once executes no instruction of a
\* thread that has exited.  (run_interleavings fills it three times before its
\* first run: see ExitedNeverRuns in the runs of Interleaver.)
THEOREM NothingRunsAfterExit == Spec => []ExitedNeverRuns
BY RunHolds, RunInvariant, PTL

\* Functions that print nothing.
Silent(f) == \A i \in DOMAIN f : f[i].op # "putc"

\* Functions that print nothing never make the checker panic, whatever the
\* schedule: retrieve_tid_from_queue and equiv_schedule have no other reason.
THEOREM SilentCodeNeverPanics ==
  ASSUME \A p \in Programs : \A t \in Tids : Silent(p[t])
  PROVE  Spec => []NoPanic
<1> DEFINE Quiet == NoPanic /\ \A t \in Tids : Silent(text[t])
<1>1. Init => Quiet
  BY DEF Init, Fresh, NoPanic
<1>2. ThreadsInv /\ RunInv /\ RunInv' /\ Quiet /\ [Next]_vars => Quiet'
  <2> SUFFICES ASSUME ThreadsInv, RunInv, RunInv', Quiet, [Next]_vars PROVE Quiet'
    OBVIOUS
  <2>1. UNCHANGED text
    BY DEF Next, KernelStep, EquivRun, Rotate, EnterFirst, SwitchTo,
           UserStep, StepOnly, StepCount, StepSwitch, MismatchFault, DataAbort, Commit,
           Syscall, SysPutc, SysYield, SysExit, Swi, vars
  <2>2. kpc' # "null" /\ (kpc' = "panic" => Active')
    BY DEF RunInv, OnlyPutcPanics
  <2>3. CASE EquivRun
    <3>1. schedule' = NoSchedule => ~ Active'
      BY DEF Active
    <3>2. QED
      BY <2>1, <2>2, <2>3, <3>1 DEF EquivRun, Retrieve, schedVars, NoPanic
  <2>4. CASE Rotate
    BY <2>1, <2>4, RotateGoesOn DEF NoPanic
  <2>5. CASE SysPutc
    <3>1. kpc = "user" /\ At({"putc"})
      BY <2>5 DEF SysPutc, Swi
    <3>2. PICK c \in Tids : /\ c = cur_thread /\ text[c] \in Functions
                            /\ cpu.pc \in Nat \ {0} /\ cpu.pc <= ExitPc(text[c])
      BY <3>1, Running
    <3>3. Instr(text[c], cpu.pc).op = "putc"
      BY <3>1, <3>2 DEF At
    <3>4. cpu.pc # ExitPc(text[c])
      BY <3>2, <3>3, OpFacts
    <3>5. cpu.pc \in DOMAIN text[c] /\ text[c][cpu.pc].op = "putc"
      BY <3>2, <3>3, <3>4 DEF Functions, ExitPc, Instr
    <3>6. QED
      BY <3>2, <3>5 DEF Silent
  <2>6. CASE [EnterFirst \/ SwitchTo \/ UserStep \/ SysYield \/ SysExit]_vars
    BY <2>1, <2>2, <2>6 DEF EnterFirst, SwitchTo, RunThread, UserStep, StepOnly, StepCount,
       StepSwitch, Retrieve, MismatchFault, DataAbort, Commit, SysYield, SysExit, NoPanic, vars
  <2>7. QED
    BY <2>3, <2>4, <2>5, <2>6 DEF Next, KernelStep, Syscall
<1>3. Quiet => NoPanic
  OBVIOUS
<1>4. QED
  BY <1>1, <1>2, <1>3, ThreadsInvariant, RunInvariant, PTL DEF Spec
=============================================================================
