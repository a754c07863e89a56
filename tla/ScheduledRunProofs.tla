----------------------- MODULE ScheduledRunProofs -----------------------
(***************************************************************************)
(* equiv_run keeps its promise: the steps of EquivThreads, seen through    *)
(* the mapping of Abs, are steps of ScheduledRun or leave it unchanged,    *)
(* for every number of threads, every program and every schedule.          *)
(***************************************************************************)
EXTENDS EquivThreadsProofs

\* The abstract run executes the same code.
LEMMA SameCode ==
  /\ \A f, r, m : /\ Abs!NextRegs(f, r, m) = NextRegs(f, r, m)
                  /\ Abs!NextMem(f, r, m) = NextMem(f, r, m)
  /\ \A f, pc : Abs!Instr(f, pc) = Instr(f, pc) /\ Abs!Touched(f, pc) = Touched(f, pc)
  /\ \A f : Abs!ExitPc(f) = ExitPc(f)
  /\ Abs!InitRegs = InitRegs /\ Abs!Syscalls = Syscalls
  /\ Abs!Tids = Tids /\ Abs!NoOne = NULL /\ Abs!NoPlan = NoSchedule
<1>1. \A f, pc : Abs!Instr(f, pc) = Instr(f, pc)
  BY DEF Abs!Instr, Instr, Abs!Runtime, Runtime
<1>2. \A f, pc : Abs!Touched(f, pc) = Touched(f, pc)
  BY <1>1 DEF Abs!Touched, Touched
<1>3. \A f : Abs!ExitPc(f) = ExitPc(f)
  BY DEF Abs!ExitPc, ExitPc
<1>4. \A f, r, m : Abs!NextRegs(f, r, m) = NextRegs(f, r, m)
  BY <1>1, <1>3 DEF Abs!NextRegs, NextRegs, Abs!NextPc, NextPc, Abs!NextAcc, NextAcc,
                    Abs!Taken, Taken
<1>5. \A f, r, m : Abs!NextMem(f, r, m) = NextMem(f, r, m)
  BY <1>1 DEF Abs!NextMem, NextMem, Abs!Writes, Writes
<1>6. QED
  BY <1>1, <1>2, <1>3, <1>4, <1>5
  DEF Abs!InitRegs, InitRegs, Abs!Syscalls, Syscalls, Abs!Tids, Tids, Abs!NoOne, NULL,
      Abs!NoPlan, NoSchedule

-----------------------------------------------------------------------------
\* What the mapping needs beside the invariants: the locals of
\* retrieve_tid_from_queue mean something only inside its loop, and nothing
\* has run before equiv_run enters its first thread.
MapInv ==
  /\ kpc \in {"start", "user", "stopped"} => loop.tid = NULL
  /\ kpc = "start" => cur_thread = NULL /\ regs = [t \in Tids |-> InitRegs]

\* They hold at the start.
LEMMA MapInit == Init => MapInv
BY DEF Init, Fresh, MapInv, Idle

\* Every step keeps them.
LEMMA MapStep == ThreadsInv /\ MapInv /\ [Next]_vars => MapInv'
<1> SUFFICES ASSUME ThreadsInv, MapInv, [Next]_vars PROVE MapInv'
  OBVIOUS
<1> USE DEF MapInv
<1>1. CASE KernelStep
  BY <1>1 DEF KernelStep, EquivRun, Retrieve, Rotate, EnterFirst, SwitchTo, RunThread, Idle
<1>2. CASE UserStep
  BY <1>2 DEF UserStep, StepOnly, StepCount, StepSwitch, MismatchFault, Retrieve, DataAbort, Commit
<1>3. CASE Syscall
  BY <1>3 DEF Syscall, SysPutc, SysYield, SysExit, Swi, RunThread
<1>4. CASE UNCHANGED vars
  BY <1>4 DEF vars, threadVars
<1>5. QED
  BY <1>1, <1>2, <1>3, <1>4 DEF Next

\* While user code runs the mapping is this.
LEMMA MapUser ==
  ASSUME ThreadsInv, RunInv, MapInv, kpc = "user", NEW c, c = cur_thread
  PROVE  /\ c \in Tids /\ runnerBar = c /\ runnerBar # NULL
         /\ ctxBar = [t \in Tids |-> IF t = c THEN cpu ELSE regs[t]]
         /\ ctxBar[c] = cpu
         /\ \A t \in Tids : Abs!Exited(t) <=> Exited(t)
         /\ ~ Abs!Exited(c)
<1>1. /\ c \in Tids /\ c # NULL /\ loop.tid = NULL
      /\ cpu.pc \in Nat /\ ExitPc(text[c]) \in Nat
      /\ \A t \in Tids : ~ Exited(t) <=> regs[t].pc <= ExitPc(text[t])
  BY Types, NullFacts DEF MapInv
<1>2. runnerBar = c
  BY <1>1 DEF runnerBar
<1>3. ctxBar = [t \in Tids |-> IF t = c THEN cpu ELSE regs[t]]
  BY DEF ctxBar, InHand
<1>4. ctxBar[c] = cpu /\ \A t \in Tids : t # c => ctxBar[t] = regs[t]
  BY <1>1, <1>3
<1>5. ~ Exited(c) /\ cpu.pc <= ExitPc(text[c])
  BY DEF RunInv, RunnerInv
<1>6. ~ (cpu.pc > ExitPc(text[c]))
  BY <1>1, <1>5
<1>7. \A t \in Tids : Abs!Exited(t) <=> ctxBar[t].pc > ExitPc(text[t])
  BY SameCode DEF Abs!Exited
<1>8. \A t \in Tids : Abs!Exited(t) <=> Exited(t)
  BY <1>4, <1>5, <1>6, <1>7 DEF Exited
<1>9. QED
  BY <1>1, <1>2, <1>3, <1>4, <1>5, <1>8

\* The accesses counted are fewer than the segment has, until the last one
\* has committed: no switch of the plan is due, except at the mismatch after
\* that access.
LEMMA NotDue ==
  ASSUME ThreadsInv
  PROVE  /\ Abs!OnPlan <=> Active
         /\ Active => ctx_switch_status.instr_count < SegmentLength /\ SegmentLength \in Nat
         /\ ctx_switch_status.do_instr_count = 0 \/ cpu.pc = bvr =>
               countBar = ctx_switch_status.instr_count /\ ~ Abs!Due
<1> DEFINE st == ctx_switch_status
<1>1. /\ st.instr_count \in Nat /\ st.ctx_switch \in Nat
      /\ TypeOK /\ ControlInv /\ ReportInBounds
  BY DEF ThreadsInv, TypeOK, Statuses
<1>2. Abs!OnPlan <=> Active
  BY SameCode DEF Abs!OnPlan, Active, n_ctx_switches
<1>3. ASSUME Active PROVE st.instr_count < SegmentLength /\ SegmentLength \in Nat
  <2>1. IsSchedule(schedule) /\ schedule.instr_counts \in Seq(Nat \ {0})
    BY <1>1, <1>3, ScheduleFacts DEF IsSchedule, ScheduleShape
  <2>2. SegmentLength \in Nat
    BY <1>1, <1>3, ScheduleFacts DEF SegmentLength
  <2>3. <<st.ctx_switch, st.instr_count>> \in Cells(schedule)
    BY <1>1, <1>3 DEF ReportInBounds, ControlInv, Active
  <2>4. PICK i \in DOMAIN schedule.instr_counts :
          <<st.ctx_switch, st.instr_count>> \in {<<i - 1, j - 1>> : j \in 1..schedule.instr_counts[i]}
    BY <2>3 DEF Cells
  <2>5. PICK j \in 1..schedule.instr_counts[i] : st.ctx_switch = i - 1 /\ st.instr_count = j - 1
    BY <2>4
  <2>6. i \in Nat /\ schedule.instr_counts[i] \in Nat
    BY <2>1
  <2>7. SegmentLength = schedule.instr_counts[i] /\ st.instr_count < schedule.instr_counts[i]
    BY <1>1, <2>5, <2>6 DEF SegmentLength
  <2>8. QED
    BY <2>2, <2>7
<1>4. ASSUME st.do_instr_count = 0 \/ cpu.pc = bvr
      PROVE  countBar = st.instr_count /\ ~ Abs!Due
  <2>1. countBar = st.instr_count
    BY <1>1, <1>4 DEF countBar
  <2>2. QED
    BY <1>1, <1>2, <1>3, <2>1 DEF Abs!Due, SegmentLength
<1>5. QED
  BY <1>2, <1>3, <1>4

-----------------------------------------------------------------------------
\* equiv_run chooses the first thread: of the schedule, or of the queue.
LEMMA EquivRunBegins ==
  ASSUME ThreadsInv, RunInv, RunInv', MapInv, EquivRun
  PROVE  Abs!Begin
<1>1. /\ kpc = "start" /\ loop.tid = NULL /\ cur_thread = NULL
      /\ regs = [t \in Tids |-> InitRegs]
      /\ UNCHANGED <<text, mem, regs, shared_memory, schedule, ctx_switch_status>>
  BY DEF MapInv, EquivRun, schedVars
<1>2. ctx_switch_status.do_instr_count = 0
  BY <1>1 DEF ThreadsInv, TypeOK, Statuses, ControlInv
<1>3. runnerBar = NULL /\ ctxBar = regs
  BY <1>1 DEF runnerBar, ctxBar, InHand
<1>4. countBar' = countBar
  BY <1>1, <1>2 DEF countBar
<1>5. kpc' \notin {"panic", "null"} \/ (kpc' = "panic" /\ Active')
  BY DEF RunInv, OnlyPutcPanics
<1>6. CASE schedule # NoSchedule
  <2>1. IsSchedule(schedule) /\ schedule.tids[1] \in Tids
    BY <1>6, Types DEF IsSchedule, ScheduleShape
  <2>2. /\ loop'.tid = schedule.tids[1] /\ kpc' = "retrieve" /\ UNCHANGED <<cur_thread, cpu>>
    BY <1>5, <1>6 DEF EquivRun, Retrieve
  <2>3. runnerBar' = schedule.tids[1] /\ ctxBar' = regs'
    BY <1>1, <2>1, <2>2, NullFacts DEF runnerBar, ctxBar, InHand
  <2>4. QED
    BY <1>1, <1>3, <1>4, <1>6, <2>3, SameCode DEF Abs!Begin
<1>7. CASE schedule = NoSchedule
  <2>1. kpc' # "panic"
    BY <1>1, <1>5, <1>7 DEF Active
  <2>2. /\ kpc' = "user" /\ cur_thread' = q.head /\ q.head # NULL /\ cpu' = regs[q.head]
        /\ UNCHANGED loop
    BY <1>7, <2>1 DEF EquivRun
  <2>3. q.head \in Tids
    BY <2>2, Types, NullFacts DEF RunQueues, Links
  <2>4. runnerBar' = q.head
    BY <1>1, <2>2 DEF runnerBar
  <2>5. ctxBar' = [t \in Tids |-> IF t = q.head THEN regs[q.head] ELSE regs[t]]
    BY <1>1, <2>2 DEF ctxBar, InHand
  <2>6. ctxBar' = regs
    BY <2>5, Types
  <2>7. QED
    BY <1>1, <1>3, <1>4, <1>7, <2>3, <2>4, <2>6, SameCode DEF Abs!Begin
<1>8. QED
  BY <1>6, <1>7

\* The loop of retrieve_tid_from_queue, and what leads out of it, change
\* nothing: the thread being looked for runs already.
LEMMA RetrieveStutters ==
  ASSUME ThreadsInv, RunInv, MapInv, Rotate \/ EnterFirst \/ SwitchTo
  PROVE  UNCHANGED Abs!vars
<1>1. /\ kpc = "retrieve" /\ loop.tid \in Tids /\ loop.tid # NULL /\ regs \in [Tids -> Regs]
      /\ UNCHANGED <<text, mem, regs, shared_memory, schedule, ctx_switch_status>>
  BY Types, NullFacts DEF Rotate, EnterFirst, SwitchTo, ThreadsInv, ControlInv, schedVars
<1>2. ctx_switch_status.do_instr_count = 0
  BY <1>1 DEF ThreadsInv, TypeOK, Statuses, ControlInv
<1>3. runnerBar = loop.tid /\ ctxBar = regs
  BY <1>1 DEF runnerBar, ctxBar, InHand
<1>4. countBar' = countBar
  BY <1>1, <1>2 DEF countBar
<1>5. CASE Rotate
  <2>1. kpc' = "retrieve" /\ loop'.tid = loop.tid
    BY <1>5, RotateGoesOn DEF Rotate, ThreadsInv, TypeOK
  <2>2. runnerBar' = loop.tid /\ ctxBar' = regs
    BY <1>1, <2>1 DEF runnerBar, ctxBar, InHand
  <2>3. QED
    BY <1>1, <1>3, <1>4, <2>2 DEF Abs!vars
<1>6. CASE EnterFirst \/ SwitchTo
  <2>1. /\ kpc' = "user" /\ cur_thread' = loop.tid /\ cpu' = regs[loop.tid] /\ loop'.tid = NULL
    BY <1>6 DEF EnterFirst, SwitchTo, RunThread, Idle
  <2>2. runnerBar' = loop.tid
    BY <2>1 DEF runnerBar
  <2>3. ctxBar' = [t \in Tids |-> IF t = loop.tid THEN regs[loop.tid] ELSE regs[t]]
    BY <1>1, <2>1 DEF ctxBar, InHand
  <2>4. ctxBar' = regs
    BY <1>1, <2>3
  <2>5. QED
    BY <1>1, <1>3, <1>4, <2>2, <2>4 DEF Abs!vars
<1>7. QED
  BY <1>5, <1>6

\* Faults and counts change nothing: the access was counted when it committed.
LEMMA FaultStutters ==
  ASSUME ThreadsInv, RunInv, MapInv, StepOnly \/ StepCount \/ DataAbort
  PROVE  UNCHANGED Abs!vars
<1>1. kpc = "user" /\ UNCHANGED <<text, mem, cur_thread, cpu, kpc, loop, shared_memory, schedule>>
  BY DEF StepOnly, StepCount, MismatchFault, DataAbort, threadVars
<1>2. /\ cur_thread \in Tids /\ regs \in [Tids -> Regs]
      /\ ctx_switch_status \in Statuses
  BY <1>1, Types DEF ThreadsInv, TypeOK
<1>3. regs' = regs \/ regs' = [regs EXCEPT ![cur_thread] = cpu]
  BY DEF StepOnly, StepCount, MismatchFault, DataAbort, threadVars
<1>4. \A t \in Tids : t # cur_thread => regs'[t] = regs[t]
  BY <1>2, <1>3
<1>5. ctxBar' = ctxBar /\ runnerBar' = runnerBar
  BY <1>1, <1>4 DEF ctxBar, InHand, runnerBar
<1>6. ctx_switch_status'.ctx_switch = ctx_switch_status.ctx_switch /\ countBar' = countBar
  <2>1. CASE StepOnly
    BY <1>2, <2>1 DEF StepOnly, MismatchFault, countBar
  <2>2. CASE StepCount
    BY <1>2, <2>2 DEF StepCount, MismatchFault, Settled, Counted, countBar, Statuses
  <2>3. CASE DataAbort
    BY <1>2, <2>3 DEF DataAbort, threadVars, countBar, Statuses
  <2>4. QED
    BY <2>1, <2>2, <2>3
<1>7. QED
  BY <1>1, <1>5, <1>6 DEF Abs!vars

\* The mismatch after the last access of a segment is the planned switch.
LEMMA SwitchIsPlanned ==
  ASSUME ThreadsInv, RunInv, RunInv', MapInv, StepSwitch
  PROVE  Abs!ContextSwitch
<1> DEFINE n == ctx_switch_status.ctx_switch
<1>1. /\ kpc = "user" /\ cpu.pc # bvr /\ ctx_switch_status.do_instr_count = 1
      /\ Counted >= SegmentLength
      /\ UNCHANGED <<text, mem, cur_thread, cpu, bvr, shared_memory, schedule>>
      /\ regs' = [regs EXCEPT ![cur_thread] = cpu]
      /\ ctx_switch_status' = Settled(n + 1, 0)
      /\ Retrieve(schedule.tids[n + 2], "switch")
  BY DEF StepSwitch, MismatchFault
<1>2. ctx_switch_status \in Statuses /\ regs \in [Tids -> Regs] /\ cur_thread \in Tids
  BY <1>1, Types DEF ThreadsInv, TypeOK
<1>3. Active /\ schedule.tids[n + 2] \in Tids
  BY <1>1, ScheduleFacts DEF ThreadsInv, CountPendingOnlyWhenActive
<1>4. ctx_switch_status.instr_count < SegmentLength /\ SegmentLength \in Nat /\ Abs!OnPlan
  BY <1>3, NotDue
<1>5. Abs!Due
  <2>1. countBar = Counted /\ countBar = SegmentLength
    BY <1>1, <1>2, <1>4 DEF countBar, Counted, Statuses
  <2>2. QED
    BY <1>4, <2>1 DEF Abs!Due, SegmentLength
<1>6. kpc' = "retrieve" /\ loop'.tid = schedule.tids[n + 2]
  <2>1. kpc' # "null"
    BY DEF RunInv, OnlyPutcPanics
  <2>2. QED
    BY <1>1, <2>1 DEF Retrieve
<1>7. runnerBar' = schedule.tids[n + 2]
  BY <1>3, <1>6, NullFacts DEF runnerBar
<1>8. ctxBar' = ctxBar
  BY <1>1, <1>2, <1>6 DEF ctxBar, InHand
<1>9. countBar' = 0 /\ ctx_switch_status'.ctx_switch = n + 1
  BY <1>1 DEF countBar, Settled
<1>10. QED
  BY <1>1, <1>5, <1>7, <1>8, <1>9 DEF Abs!ContextSwitch

\* An instruction commits: it is executed, and counted if it is due.
LEMMA CommitExecutes ==
  ASSUME ThreadsInv, RunInv, MapInv, Commit
  PROVE  Abs!Execute
<1> DEFINE c == cur_thread
<1>1. /\ kpc = "user" /\ cpu.pc = bvr /\ ~ At(Syscalls) /\ ~ (armed /\ Here # {})
      /\ cpu' = NextRegs(text[c], cpu, mem)
      /\ mem' = NextMem(text[c], cpu, mem)
      /\ UNCHANGED <<text, cur_thread, regs, bvr, shared_memory, schedule, ctx_switch_status,
                     kpc, loop>>
  BY DEF Commit, schedVars
<1>2. /\ c \in Tids /\ runnerBar = c /\ runnerBar # NULL /\ ~ Abs!Exited(c)
      /\ ctxBar = [t \in Tids |-> IF t = c THEN cpu ELSE regs[t]] /\ ctxBar[c] = cpu
  BY <1>1, MapUser
<1>3. /\ ctx_switch_status \in Statuses /\ text[c] \in Functions /\ cpu \in Regs
      /\ cpu.pc \in Pcs(text[c]) /\ mem \in [Addrs -> Words]
  BY <1>1, <1>2 DEF ThreadsInv, TypeOK, ControlInv
<1>4. runnerBar' = c /\ ctxBar' = [ctxBar EXCEPT ![c] = NextRegs(text[c], cpu, mem)]
  BY <1>1, <1>2 DEF runnerBar, MapInv, ctxBar, InHand
<1>5. countBar = ctx_switch_status.instr_count /\ ~ Abs!Due /\ (Abs!OnPlan <=> Active)
  BY <1>1, NotDue
<1>6. countBar' = countBar + ctx_switch_status.do_instr_count
  <2>1. cpu'.pc # bvr
    BY <1>1, <1>3, CommitFacts DEF At
  <2>2. QED
    BY <1>1, <1>5, <2>1 DEF countBar
<1>7. ctx_switch_status.do_instr_count = 1 <=> Active /\ Here \cap shared_memory # {}
  BY <1>1, CountedCommits DEF CommitsAreCounted
<1>8. countBar' = IF Abs!OnPlan /\ Abs!Touched(text[c], cpu.pc) \cap shared_memory # {}
                  THEN countBar + 1 ELSE countBar
  <2>1. Here = Abs!Touched(text[c], cpu.pc)
    BY SameCode DEF Here
  <2>2. ctx_switch_status.do_instr_count \in {0, 1} /\ countBar \in Nat
    BY <1>3, <1>5 DEF Statuses
  <2>3. QED
    BY <1>5, <1>6, <1>7, <2>1, <2>2
<1>9. ~ Abs!At(Abs!Syscalls)
  BY <1>1, <1>2, SameCode DEF Abs!At, At
<1>10. QED
  BY <1>1, <1>2, <1>4, <1>5, <1>8, <1>9, SameCode DEF Abs!Execute

-----------------------------------------------------------------------------
\* A system call, up to the choice of the thread that runs next.
LEMMA SwiMaps ==
  ASSUME ThreadsInv, RunInv, MapInv, NEW op \in {"putc", "yield", "exit"}, Swi(op),
         NEW c, c = cur_thread
  PROVE  /\ kpc = "user" /\ c \in Tids /\ runnerBar = c /\ runnerBar # NULL
         /\ Abs!At({op}) /\ ~ Abs!Exited(c) /\ ~ Abs!Due /\ loop'.tid = NULL
         /\ ctxBar = [t \in Tids |-> IF t = c THEN cpu ELSE regs[t]]
         /\ \A t \in Tids : Abs!Exited(t) <=> Exited(t)
         /\ \A t \in Tids : Exited(t)' <=> IF t = c THEN op = "exit" ELSE Exited(t)
         /\ regs' = SavedAtSwi /\ Abs!Past = SavedAtSwi
         /\ ctx_switch_status.do_instr_count = 0
         /\ countBar = ctx_switch_status.instr_count
         /\ UNCHANGED <<text, mem, shared_memory>>
<1>1. /\ kpc = "user" /\ cpu.pc = bvr /\ At({op}) /\ regs' = SavedAtSwi
      /\ UNCHANGED <<text, mem, shared_memory, loop>>
  BY DEF Swi
<1>2. /\ c \in Tids /\ runnerBar = c /\ runnerBar # NULL /\ ~ Abs!Exited(c)
      /\ ctxBar = [t \in Tids |-> IF t = c THEN cpu ELSE regs[t]] /\ ctxBar[c] = cpu
      /\ \A t \in Tids : Abs!Exited(t) <=> Exited(t)
  BY <1>1, MapUser
<1>3. cpu.pc <= ExitPc(text[c]) /\ regs \in [Tids -> Regs]
  BY <1>1, Types DEF RunInv, RunnerInv
<1>4. \A t \in Tids : Exited(t)' <=> IF t = c THEN op = "exit" ELSE Exited(t)
  BY <1>2, <1>3, SwiFacts
<1>5. countBar = ctx_switch_status.instr_count /\ ~ Abs!Due
  BY <1>1, NotDue
<1>6. ctx_switch_status.do_instr_count = 0
  BY <1>1, AtSwi DEF At, Syscalls
<1>7. Abs!At({op})
  BY <1>1, <1>2, SameCode DEF Abs!At, At
<1>8. Abs!Past = SavedAtSwi
  BY <1>2, <1>3 DEF Abs!Past, SavedAtSwi
<1>9. loop'.tid = NULL
  BY <1>1 DEF MapInv
<1>10. QED
  BY <1>1, <1>2, <1>4, <1>5, <1>6, <1>7, <1>8, <1>9

\* Whoever runs next continues with the registers that were saved.
LEMMA NextOneMaps ==
  ASSUME ThreadsInv, NEW c \in Tids, c = cur_thread, regs' = SavedAtSwi,
         ctx_switch_status.do_instr_count = 0, loop'.tid = NULL,
         ctx_switch_status'.instr_count = ctx_switch_status.instr_count,
         ctx_switch_status'.do_instr_count = ctx_switch_status.do_instr_count,
         NEW k, RunThread(k, SavedAtSwi)
  PROVE  /\ runnerBar' = k /\ ctxBar' = SavedAtSwi
         /\ countBar' = ctx_switch_status.instr_count
<1>1. kpc' = "user" /\ cur_thread' = k /\ cpu' = SavedAtSwi[k]
  BY DEF RunThread
<1>2. runnerBar' = k
  BY <1>1 DEF runnerBar
<1>3. ctxBar' = SavedAtSwi
  <2>1. ctxBar' = [t \in Tids |-> IF t = k THEN SavedAtSwi[k] ELSE SavedAtSwi[t]]
    BY <1>1 DEF ctxBar, InHand
  <2>2. SavedAtSwi = [t \in Tids |-> SavedAtSwi[t]]
    BY Types DEF SavedAtSwi
  <2>3. QED
    BY <2>1, <2>2
<1>4. countBar' = ctx_switch_status.instr_count
  BY DEF countBar, ThreadsInv, TypeOK, Statuses
<1>5. QED
  BY <1>2, <1>3, <1>4

\* The threads on the queue are those that may run next.
LEMMA QueuedAreAlive ==
  ASSUME ThreadsInv, RunInv, kpc = "user"
  PROVE  /\ q.head # NULL => q.head \in Tids \ {cur_thread} /\ ~ Exited(q.head)
         /\ q.head = NULL => \A t \in Tids \ {cur_thread} : Exited(t)
<1>1. PICK c \in Tids, s \in Seq(Tids) :
        c = cur_thread /\ IsList(q, s) /\ Range(s) = {t \in Tids \ {c} : ~ Exited(t)}
  BY Running
<1>2. CASE s = <<>>
  <2>1. q.head = NULL /\ Range(s) = {}
    BY <1>1, <1>2 DEF IsList, Range
  <2>2. QED
    BY <1>1, <2>1
<1>3. CASE s # <<>>
  <2>1. q.head = s[1] /\ q.head # NULL /\ s[1] \in Range(s)
    BY <1>1, <1>3, Types, ListHasHead, NullFacts DEF Range
  <2>2. QED
    BY <1>1, <2>1
<1>4. QED
  BY <1>2, <1>3

\* exit: another thread runs, or none is left.
LEMMA ExitExits ==
  ASSUME ThreadsInv, RunInv, MapInv, SysExit
  PROVE  Abs!Exit
<1> DEFINE c == cur_thread
           alive == {t \in Abs!Tids \ {runnerBar} : ~ Abs!Exited(t)}
<1>1. Swi("exit") /\ schedule' = Abs!NoPlan /\ UNCHANGED ctx_switch_status
  BY SameCode DEF SysExit
<1>2. /\ kpc = "user" /\ c \in Tids /\ runnerBar = c /\ Abs!At({"exit"}) /\ ~ Abs!Due
      /\ loop'.tid = NULL /\ regs' = SavedAtSwi /\ Abs!Past = SavedAtSwi
      /\ ctx_switch_status.do_instr_count = 0 /\ countBar = ctx_switch_status.instr_count
      /\ UNCHANGED <<text, mem, shared_memory>>
      /\ \A t \in Tids : Abs!Exited(t) <=> Exited(t)
  BY <1>1, SwiMaps
<1>3. alive = {t \in Tids \ {c} : ~ Exited(t)}
  BY <1>2, SameCode
<1>4. /\ ctxBar' = SavedAtSwi /\ countBar' = countBar
      /\ runnerBar' \in IF alive = {} THEN {NULL} ELSE alive
  <2>1. CASE q.head = NULL
    <3>1. kpc' = "stopped" /\ UNCHANGED <<cpu, bvr>>
      BY <2>1 DEF SysExit
    <3>2. runnerBar' = NULL /\ countBar' = countBar
      BY <1>1, <3>1 DEF runnerBar, countBar
    <3>3. ctxBar' = SavedAtSwi
      BY <1>2, <3>1, Types DEF ctxBar, InHand, SavedAtSwi
    <3>4. alive = {}
      BY <1>2, <1>3, <2>1, QueuedAreAlive
    <3>5. QED
      BY <3>2, <3>3, <3>4
  <2>2. CASE q.head # NULL
    <3>1. RunThread(q.head, SavedAtSwi)
      BY <2>2 DEF SysExit
    <3>2. runnerBar' = q.head /\ ctxBar' = SavedAtSwi /\ countBar' = countBar
      BY <1>1, <1>2, <3>1, NextOneMaps
    <3>3. q.head \in alive
      BY <1>2, <1>3, <2>2, QueuedAreAlive
    <3>4. QED
      BY <3>2, <3>3
  <2>3. QED
    BY <2>1, <2>2
<1>5. QED
  BY <1>1, <1>2, <1>4, SameCode DEF Abs!Exit

\* yield: any thread that is alive may run, the caller among them.
LEMMA YieldYields ==
  ASSUME ThreadsInv, ThreadsInv', RunInv, RunInv', MapInv, SysYield
  PROVE  Abs!Yield
<1> DEFINE c == cur_thread
<1>1. Swi("yield") /\ schedule' = Abs!NoPlan
  BY SameCode DEF SysYield
<1>2. /\ kpc = "user" /\ c \in Tids /\ runnerBar = c /\ Abs!At({"yield"}) /\ ~ Abs!Due
      /\ ~ Abs!Exited(c)
      /\ loop'.tid = NULL /\ regs' = SavedAtSwi /\ Abs!Past = SavedAtSwi
      /\ ctx_switch_status.do_instr_count = 0 /\ countBar = ctx_switch_status.instr_count
      /\ UNCHANGED <<text, mem, shared_memory>>
      /\ \A t \in Tids : Abs!Exited(t) <=> Exited(t)
      /\ \A t \in Tids : Exited(t)' <=> Exited(t)
  BY <1>1, SwiMaps
<1>3. PICK k : k = cur_thread' /\ RunThread(k, SavedAtSwi) /\ kpc' = "user"
  BY DEF SysYield, RunThread
<1>4. /\ ctx_switch_status'.instr_count = ctx_switch_status.instr_count
      /\ ctx_switch_status'.do_instr_count = ctx_switch_status.do_instr_count
      /\ ctx_switch_status'.ctx_switch = ctx_switch_status.ctx_switch
  BY DEF SysYield, ThreadsInv, TypeOK, Statuses
<1>5. runnerBar' = k /\ ctxBar' = SavedAtSwi /\ countBar' = countBar
  BY <1>2, <1>3, <1>4, NextOneMaps
<1>6. k \in Tids /\ ~ Abs!Exited(k)
  <2>1. ~ Exited(k)'
    BY <1>3 DEF RunInv, RunnerInv
  <2>2. k \in Tids
    BY <1>3 DEF ThreadsInv, ControlInv
  <2>3. QED
    BY <1>2, <2>1, <2>2
<1>7. QED
  BY <1>1, <1>2, <1>4, <1>5, <1>6, SameCode DEF Abs!Yield

\* putc: the same, unless the plan is in force, where the checker stops.
LEMMA PutcGoesOn ==
  ASSUME ThreadsInv, ThreadsInv', RunInv, RunInv', MapInv, SysPutc
  PROVE  Abs!Putc \/ UNCHANGED Abs!vars
<1> DEFINE c == cur_thread
<1>1. Swi("putc") /\ UNCHANGED <<schedule, ctx_switch_status>>
  BY DEF SysPutc
<1>2. /\ kpc = "user" /\ c \in Tids /\ runnerBar = c /\ Abs!At({"putc"})
      /\ ~ Abs!Exited(c) /\ runnerBar # NULL
      /\ ctxBar = [t \in Tids |-> IF t = c THEN cpu ELSE regs[t]]
      /\ loop'.tid = NULL /\ regs' = SavedAtSwi /\ Abs!Past = SavedAtSwi
      /\ ctx_switch_status.do_instr_count = 0 /\ countBar = ctx_switch_status.instr_count
      /\ UNCHANGED <<text, mem, shared_memory>>
      /\ \A t \in Tids : Abs!Exited(t) <=> Exited(t)
      /\ \A t \in Tids : Exited(t)' <=> Exited(t)
  BY <1>1, SwiMaps
<1>3. CASE Active
  <2>1. kpc' = "panic" /\ UNCHANGED <<cur_thread, cpu, bvr>>
    BY <1>3 DEF SysPutc
  <2>2. runnerBar' = c /\ countBar' = countBar
    BY <1>1, <1>2, <2>1 DEF runnerBar, countBar
  <2>3. ctxBar' = ctxBar
    BY <1>2, <2>1, Types DEF ctxBar, InHand, SavedAtSwi
  <2>4. QED
    BY <1>1, <1>2, <2>2, <2>3 DEF Abs!vars
<1>4. CASE ~ Active
  <2>1. PICK k : k = cur_thread' /\ RunThread(k, SavedAtSwi) /\ kpc' = "user"
    BY <1>4 DEF SysPutc, RunThread
  <2>2. runnerBar' = k /\ ctxBar' = SavedAtSwi /\ countBar' = countBar
    BY <1>1, <1>2, <2>1, NextOneMaps
  <2>3. k \in Tids /\ ~ Abs!Exited(k)
    <3>1. ~ Exited(k)' /\ k \in Tids
      BY <2>1 DEF RunInv, RunnerInv, ThreadsInv, ControlInv
    <3>2. QED
      BY <1>2, <3>1
  <2>4. ~ Abs!OnPlan
    BY <1>4, NotDue
  <2>5. QED
    BY <1>1, <1>2, <2>2, <2>3, <2>4, SameCode DEF Abs!Putc
<1>5. QED
  BY <1>3, <1>4

-----------------------------------------------------------------------------
\* The start of equiv_run is that of the abstract run.
LEMMA AbsInit == Init => Abs!Init
<1> SUFFICES ASSUME Init PROVE Abs!Init
  OBVIOUS
<1>1. /\ kpc = "start" /\ loop.tid = NULL /\ cur_thread = NULL
      /\ regs = [t \in Tids |-> InitRegs]
      /\ ctx_switch_status.ctx_switch = 0 /\ ctx_switch_status.instr_count = 0
      /\ ctx_switch_status.do_instr_count = 0
  BY DEF Init, Fresh, Idle, ResetStatus
<1>2. runnerBar = NULL /\ ctxBar = regs /\ countBar = 0
  BY <1>1 DEF runnerBar, ctxBar, InHand, countBar
<1>3. QED
  BY <1>1, <1>2, SameCode DEF Abs!Init, Init, Fresh

\* Every step of equiv_run is a step of the abstract run or none.
LEMMA AbsStep ==
  ThreadsInv /\ ThreadsInv' /\ RunInv /\ RunInv' /\ MapInv /\ [Next]_vars => [Abs!Next]_(Abs!vars)
<1> SUFFICES ASSUME ThreadsInv, ThreadsInv', RunInv, RunInv', MapInv, [Next]_vars
             PROVE  Abs!Next \/ UNCHANGED Abs!vars
  OBVIOUS
<1>1. CASE EquivRun
  BY <1>1, EquivRunBegins DEF Abs!Next
<1>2. CASE Rotate \/ EnterFirst \/ SwitchTo
  BY <1>2, RetrieveStutters
<1>3. CASE StepOnly \/ StepCount \/ DataAbort
  BY <1>3, FaultStutters
<1>4. CASE StepSwitch
  BY <1>4, SwitchIsPlanned DEF Abs!Next
<1>5. CASE Commit
  BY <1>5, CommitExecutes DEF Abs!Next
<1>6. CASE SysExit
  BY <1>6, ExitExits DEF Abs!Next
<1>7. CASE SysYield
  BY <1>7, YieldYields DEF Abs!Next
<1>8. CASE SysPutc
  BY <1>8, PutcGoesOn DEF Abs!Next
<1>9. CASE UNCHANGED vars
  BY <1>9 DEF vars, threadVars, schedVars, Abs!vars, runnerBar, ctxBar, InHand, countBar
<1>10. QED
  BY <1>1, <1>2, <1>3, <1>4, <1>5, <1>6, <1>7, <1>8, <1>9
  DEF Next, KernelStep, UserStep, Syscall

\* Every run of equiv_run, with its traps, restarts, rotations and saved
\* registers, is a run of atomic instructions in which the thread changes
\* exactly after the planned number of shared accesses.
THEOREM RunKeepsThePromise == Spec => Abs!Safety
<1>1. Spec => []MapInv
  BY MapInit, MapStep, ThreadsInvariant, PTL DEF Spec
<1>2. QED
  BY <1>1, AbsInit, AbsStep, ThreadsInvariant, RunInvariant, PTL DEF Spec, Abs!Safety
=============================================================================
