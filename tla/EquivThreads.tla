-------------------------- MODULE EquivThreads --------------------------
(***************************************************************************)
(* equiv_run: the threads of one run, driven instruction by instruction.   *)
(*                                                                         *)
(* User code runs on a single processor.  Three traps lead into the        *)
(* kernel, where interrupts are off, so a handler runs to its end before   *)
(* the next user instruction:                                              *)
(*   - the mismatch breakpoint, taken before an instruction whose address  *)
(*     is not bvr (mini-step.c); its step handler arms the memory tracker, *)
(*     counts shared accesses and switches threads;                        *)
(*   - the permission fault of a tracked access while the tracker is armed *)
(*     (equiv-rw-set.c); it reports the access, disarms and lets the       *)
(*     instruction start again;                                            *)
(*   - the swi of exit, yield and putc (equiv-threads.c).                  *)
(*                                                                         *)
(* kpc says where control is: "start" (equiv_run was called), "user",      *)
(* "retrieve" (inside the loop of retrieve_tid_from_queue), "stopped"      *)
(* (equiv_run returned), "panic", or "null" (a null thread was             *)
(* dereferenced, after which anything may happen).                         *)
(***************************************************************************)
EXTENDS RunQueue, UserCode

CONSTANTS
  Programs,     \* the text of each thread: a set of [Tids -> Functions]
  Schedules     \* the schedules equiv_run is called with

VARIABLES
  text,         \* text[t]: what thread t runs (th->fn); never changes
  mem,          \* the tracked memory
  q,            \* equiv_runq
  cur_thread,
  regs,         \* th->regs, as of the last trap of the thread
  cpu,          \* the registers of the running user code
  bvr,          \* the address that does not trap; 0 when none
  rw_tracker_enabled,
  armed,        \* do tracked accesses fault (the domain access register)?
  tracker,      \* current_tracker: the addresses read and written
  schedule,
  shared_memory,
  ctx_switch_status,
  report,       \* schedule->report->pcs
  kpc,
  loop          \* the locals of retrieve_tid_from_queue

threadVars == <<q, cur_thread, regs, cpu, bvr>>
trackVars  == <<rw_tracker_enabled, armed, tracker>>
schedVars  == <<schedule, shared_memory, ctx_switch_status, report>>
vars == <<text, mem, threadVars, trackVars, schedVars, kpc, loop>>

-----------------------------------------------------------------------------
\* Schedules: run tids[1] until it made instr_counts[1] shared accesses,
\* then tids[2], and so on (1-based here); the last tid runs to its end.
NoSchedule == [tids |-> <<>>, instr_counts |-> <<>>]

ScheduleShape == [tids : Seq(Tids), instr_counts : Seq(Nat \ {0})]

IsSchedule(s) ==
  /\ s \in ScheduleShape
  /\ Len(s.instr_counts) > 0
  /\ Len(s.tids) = Len(s.instr_counts) + 1

\* The schedules next_tid generates: no thread follows itself (tids_valid).
Adjacent(tids) == \A i \in 1..(Len(tids) - 1) : tids[i] # tids[i+1]

ASSUME ProgramsAssumption == Programs \subseteq [Tids -> Functions]
ASSUME SchedulesAssumption ==
  \A s \in Schedules : s = NoSchedule \/ (IsSchedule(s) /\ Adjacent(s.tids))

n_ctx_switches == Len(schedule.instr_counts)

\* Context switches are still to come.
Active == schedule # NoSchedule /\ ctx_switch_status.ctx_switch < n_ctx_switches

ResetStatus == [ctx_switch |-> 0, instr_count |-> 0, do_instr_count |-> 0, yielded |-> 0]

\* The cells that run_interleavings allocates for pcs[i][j], 0-based as there.
Cells(s) ==
  UNION {{<<i - 1, j - 1>> : j \in 1..s.instr_counts[i]} : i \in DOMAIN s.instr_counts}

EmptyReport(s) == [c \in Cells(s) |-> 0]

Here == Touched(text[cur_thread], cpu.pc)
At(ops) == Instr(text[cur_thread], cpu.pc).op \in ops

-----------------------------------------------------------------------------
\* switchto with the mismatch set on the first instruction of t: that
\* instruction runs without a mismatch fault before it (mismatch_run).
RunThread(t, savedRegs) ==
  /\ cur_thread' = t
  /\ cpu' = savedRegs[t]
  /\ bvr' = savedRegs[t].pc
  /\ kpc' = "user"

\* retrieve_tid_from_queue up to its loop.  then: what the caller does with
\* the thread.
Retrieve(tid, then) ==
  /\ loop' = [th |-> q.head, first |-> q.head, tid |-> tid, then |-> then]
  /\ q' = Popped(q)
  /\ kpc' = IF q.head = NULL THEN "null" ELSE "retrieve"

\* Mutant of Rotate: the thread that was not wanted is not put back.
RotateDropsThread ==
  /\ kpc = "retrieve" /\ loop.th # loop.tid
  /\ loop' = [loop EXCEPT !.th = q.head]
  /\ q' = Popped(q)
  /\ kpc' = IF q.head = NULL THEN "null" ELSE "retrieve"
  /\ UNCHANGED <<text, mem, cur_thread, regs, cpu, bvr, trackVars, schedVars>>

\* One iteration of its loop.
Rotate ==
  /\ kpc = "retrieve" /\ loop.th # loop.tid
  /\ loop' = [loop EXCEPT !.th = q.head]
  /\ q' = Appended(Popped(q), loop.th)
  /\ kpc' = IF q.head = NULL THEN "null"
            ELSE IF q.head = loop.first THEN "panic" ELSE "retrieve"
  /\ UNCHANGED <<text, mem, cur_thread, regs, cpu, bvr, trackVars, schedVars>>

Idle == [th |-> NULL, first |-> NULL, tid |-> NULL, then |-> "none"]

\* The loop ends: equiv_run enters its first thread with the mismatch on
\* address 0 ...
EnterFirst ==
  /\ kpc = "retrieve" /\ loop.th = loop.tid /\ loop.then = "enter"
  /\ cur_thread' = loop.th /\ cpu' = regs[loop.th] /\ bvr' = 0
  /\ kpc' = "user" /\ loop' = Idle
  /\ UNCHANGED <<text, mem, q, regs, trackVars, schedVars>>

\* ... and equiv_hash_handler puts the old thread at the end of the queue.
SwitchTo ==
  /\ kpc = "retrieve" /\ loop.th = loop.tid /\ loop.then = "switch"
  /\ q' = Appended(q, cur_thread)
  /\ RunThread(loop.th, regs)
  /\ loop' = Idle
  /\ UNCHANGED <<text, mem, regs, trackVars, schedVars>>

-----------------------------------------------------------------------------
\* equiv_run up to its switchto_cswitch.
EquivRun ==
  /\ kpc = "start"
  /\ IF schedule # NoSchedule
     THEN /\ Retrieve(schedule.tids[1], "enter")
          /\ UNCHANGED <<cur_thread, cpu, bvr>>
     ELSE /\ q' = Popped(q)
          /\ cur_thread' = q.head
          /\ bvr' = 0
          /\ IF q.head = NULL
             THEN kpc' = "panic" /\ UNCHANGED cpu
             ELSE kpc' = "user" /\ cpu' = regs[q.head]
          /\ UNCHANGED loop
  /\ UNCHANGED <<text, mem, regs, trackVars, schedVars>>

-----------------------------------------------------------------------------
\* Mutant of MismatchFault: the tracker is not armed again.
MismatchFaultUnarmed ==
  /\ kpc = "user" /\ cpu.pc # bvr
  /\ regs' = [regs EXCEPT ![cur_thread] = cpu]
  /\ UNCHANGED <<text, mem, cur_thread, cpu, trackVars, schedule, shared_memory, report>>

\* mismatch_fault and equiv_hash_handler.
MismatchFault ==
  /\ kpc = "user" /\ cpu.pc # bvr
  /\ armed' = rw_tracker_enabled                          \* rw_tracker_arm
  /\ regs' = [regs EXCEPT ![cur_thread] = cpu]
  /\ UNCHANGED <<text, mem, cur_thread, cpu, rw_tracker_enabled, tracker,
                 schedule, shared_memory, report>>

\* ... on an instruction that follows one that touched no shared memory
StepOnly ==
  /\ MismatchFault
  /\ ctx_switch_status.do_instr_count = 0
  /\ bvr' = cpu.pc
  /\ UNCHANGED <<q, ctx_switch_status, kpc, loop>>

\* The count of the current segment after the access.  schedule is
\* dereferenced without a test, see CountPendingOnlyWhenActive.
Counted == ctx_switch_status.instr_count + 1

\* Mutant of SegmentLength: the switch comes one access late.
SegmentTooLong == schedule.instr_counts[ctx_switch_status.ctx_switch + 1] + 1
SegmentLength == schedule.instr_counts[ctx_switch_status.ctx_switch + 1]

\* The status once the access is counted.
Settled(switches, accesses) ==
  [ctx_switch |-> switches, instr_count |-> accesses,
   do_instr_count |-> 0, yielded |-> ctx_switch_status.yielded]

\* ... that follows a counted access, within the segment
StepCount ==
  /\ MismatchFault
  /\ ctx_switch_status.do_instr_count = 1
  /\ Counted < SegmentLength
  /\ ctx_switch_status' = Settled(ctx_switch_status.ctx_switch, Counted)
  /\ bvr' = cpu.pc
  /\ UNCHANGED <<q, kpc, loop>>

\* ... that follows the last access of the segment: the context switch
StepSwitch ==
  /\ MismatchFault
  /\ ctx_switch_status.do_instr_count = 1
  /\ Counted >= SegmentLength
  /\ ctx_switch_status' = Settled(ctx_switch_status.ctx_switch + 1, 0)
  /\ Retrieve(schedule.tids[ctx_switch_status.ctx_switch + 2], "switch")
  /\ UNCHANGED bvr

-----------------------------------------------------------------------------
\* Mutants of CountsHere: every tracked access counts; counting goes on when
\* all switches are made.
CountsUnshared  == Active /\ Here # {}
CountsToTheEnd  == schedule # NoSchedule /\ Here \cap shared_memory # {}

\* ctx_switch_handler: does this access count?
CountsHere == Active /\ Here \cap shared_memory # {}

\* Lines 123-127 of the handler.
TrackerAfter ==
  IF Writes(text[cur_thread], cpu.pc) THEN [tracker EXCEPT !.write = @ \cup Here]
                                      ELSE [tracker EXCEPT !.read = @ \cup Here]

\* rw_tracker_data_abort_handler, with ctx_switch_handler as its touch
\* handler; the instruction has not committed and starts again.
DataAbort ==
  /\ kpc = "user" /\ cpu.pc = bvr
  /\ armed /\ Here # {}
  /\ IF CountsHere
     THEN LET s == ctx_switch_status IN
          /\ ctx_switch_status' = [s EXCEPT !.do_instr_count = 1]
          /\ report' = [report EXCEPT ![<<s.ctx_switch, s.instr_count>>] = cpu.pc]
     ELSE UNCHANGED <<ctx_switch_status, report>>
  /\ tracker' = TrackerAfter
  /\ armed' = FALSE                                       \* rw_tracker_disarm
  /\ UNCHANGED <<text, mem, threadVars, rw_tracker_enabled, schedule, shared_memory, kpc, loop>>

\* The instruction at the mismatch address commits.
Commit ==
  /\ kpc = "user" /\ cpu.pc = bvr
  /\ ~ At(Syscalls)
  /\ ~ (armed /\ Here # {})
  /\ cpu' = NextRegs(text[cur_thread], cpu, mem)
  /\ mem' = NextMem(text[cur_thread], cpu, mem)
  /\ UNCHANGED <<text, q, cur_thread, regs, bvr, trackVars, schedVars, kpc, loop>>

-----------------------------------------------------------------------------
\* Mutant of SavedAtSwi: the registers are not saved.
SavedBeforeSwi == regs

\* equiv_syscall_handler: the saved registers are those after the swi.
SavedAtSwi == [regs EXCEPT ![cur_thread] = [cpu EXCEPT !.pc = @ + 1]]

Swi(op) ==
  /\ kpc = "user" /\ cpu.pc = bvr /\ At({op})
  /\ regs' = SavedAtSwi
  /\ UNCHANGED <<text, mem, trackVars, shared_memory, report, loop>>

\* EQUIV_PUTC: equiv_schedule.  It panics when context switches remain, and
\* else lets the next thread of the queue run.
SysPutc ==
  /\ Swi("putc")
  /\ IF Active
     THEN kpc' = "panic" /\ UNCHANGED <<q, cur_thread, cpu, bvr>>
     ELSE IF q.head = NULL
     THEN RunThread(cur_thread, SavedAtSwi) /\ UNCHANGED q
     ELSE RunThread(q.head, SavedAtSwi) /\ q' = Appended(Popped(q), cur_thread)
  /\ UNCHANGED <<schedule, ctx_switch_status>>

\* Mutant of SysYield: the schedule stays in force.
SysYieldKeepsSchedule ==
  /\ Swi("yield")
  /\ ctx_switch_status' = [ctx_switch_status EXCEPT !.yielded = 1]
  /\ q' = Popped(Appended(q, cur_thread))
  /\ RunThread(Appended(q, cur_thread).head, SavedAtSwi)
  /\ UNCHANGED schedule

\* EQUIV_YIELD: the schedule is given up.
SysYield ==
  /\ Swi("yield")
  /\ schedule' = NoSchedule
  /\ ctx_switch_status' = [ctx_switch_status EXCEPT !.yielded = 1]
  /\ LET appended == Appended(q, cur_thread) IN
     /\ q' = Popped(appended)
     /\ RunThread(appended.head, SavedAtSwi)

\* Mutants of SysExit: the run ends with the first thread; the thread is put
\* back on the queue.
SysExitStops ==
  /\ Swi("exit")
  /\ schedule' = NoSchedule /\ kpc' = "stopped"
  /\ UNCHANGED <<q, cur_thread, cpu, bvr, ctx_switch_status>>

SysExitRequeues ==
  /\ Swi("exit")
  /\ schedule' = NoSchedule
  /\ q' = Popped(Appended(q, cur_thread))
  /\ RunThread(Appended(q, cur_thread).head, SavedAtSwi)
  /\ UNCHANGED ctx_switch_status

\* EQUIV_EXIT: the schedule is dropped, finished or not.
SysExit ==
  /\ Swi("exit")
  /\ schedule' = NoSchedule
  /\ q' = Popped(q)
  /\ IF q.head = NULL
     THEN kpc' = "stopped" /\ UNCHANGED <<cur_thread, cpu, bvr>>
     ELSE RunThread(q.head, SavedAtSwi)
  /\ UNCHANGED ctx_switch_status

-----------------------------------------------------------------------------
KernelStep == EquivRun \/ Rotate \/ EnterFirst \/ SwitchTo
UserStep   == StepOnly \/ StepCount \/ StepSwitch \/ DataAbort \/ Commit
Syscall    == SysPutc \/ SysYield \/ SysExit

Next == KernelStep \/ UserStep \/ Syscall

\* Before the first run: nothing has run, no schedule is set.
Fresh ==
  /\ text \in Programs
  /\ mem = [a \in Addrs |-> 0]
  /\ cur_thread = NULL
  /\ regs = [t \in Tids |-> InitRegs]
  /\ cpu = InitRegs
  /\ bvr = 0
  /\ armed = FALSE
  /\ tracker = [read |-> {}, write |-> {}]
  /\ ctx_switch_status = ResetStatus
  /\ loop = Idle

\* One run on a freshly filled queue: what run_interleavings (a schedule)
\* and find_rw_set (none) set up before they call equiv_run.
Init ==
  /\ Fresh
  /\ q = PushedAll(EmptyQueue)
  /\ rw_tracker_enabled = TRUE
  /\ schedule \in Schedules
  /\ shared_memory \in SUBSET Addrs
  /\ report = EmptyReport(schedule)
  /\ kpc = "start"

\* The processor never stops while there is an instruction or a handler to
\* run.
Spec == Init /\ [][Next]_vars /\ WF_vars(Next)

-----------------------------------------------------------------------------
(***************************************************************************)
(* Properties.                                                             *)
(***************************************************************************)
Regs == [pc : Nat \ {0}, acc : Words]

Statuses == [ctx_switch : Nat, instr_count : Nat, do_instr_count : {0, 1}, yielded : {0, 1}]

\* The types of the variables: the values the C declarations and the loops
\* of the handlers allow.
TypeOK ==
  /\ text \in [Tids -> Functions]
  /\ mem \in [Addrs -> Words]
  /\ q \in RunQueues
  /\ cur_thread \in Links
  /\ regs \in [Tids -> Regs]
  /\ cpu \in Regs
  /\ bvr \in Nat
  /\ rw_tracker_enabled \in BOOLEAN /\ armed \in BOOLEAN
  /\ tracker \in [read : SUBSET Addrs, write : SUBSET Addrs]
  /\ schedule = NoSchedule \/ IsSchedule(schedule)
  /\ shared_memory \in SUBSET Addrs
  /\ ctx_switch_status \in Statuses
  /\ kpc \in {"start", "user", "retrieve", "stopped", "panic", "null"}
  /\ loop \in [th : Links, first : Links, tid : Links, then : {"none", "enter", "switch"}]

\* equiv_hash_handler reads schedule->instr_counts[ctx_switch] whenever
\* do_instr_count is set (equiv-threads.c:372-382) and tests neither the
\* pointer, which exit and yield clear, nor the index.
CountPendingOnlyWhenActive ==
  ctx_switch_status.do_instr_count = 1 => Active

\* ctx_switch_handler writes pcs[ctx_switch][instr_count]
\* (equiv-threads.c:161) into arrays of instr_counts[ctx_switch] words.
ReportInBounds ==
  Active => <<ctx_switch_status.ctx_switch, ctx_switch_status.instr_count>> \in DOMAIN report

\* An instruction commits with a count pending exactly if it accesses shared
\* memory while context switches remain: however the breakpoint, the
\* tracker and the context switches alternate, no access is missed, counted
\* twice or counted for another instruction.
CommitsAreCounted ==
  kpc = "user" /\ cpu.pc = bvr /\ ~ (armed /\ Here # {})
    => (ctx_switch_status.do_instr_count = 1 <=> Active /\ Here \cap shared_memory # {})

\* No access commits unseen by the tracker (the read and write sets that
\* find_rw_set returns are complete), the first instruction after every
\* kind of context switch included.
TrackedBeforeCommit ==
  kpc = "user" /\ cpu.pc = bvr /\ ~ armed =>
    Here \subseteq IF Writes(text[cur_thread], cpu.pc) THEN tracker.write ELSE tracker.read

\* A thread that made its exit system call.
Exited(t) == regs[t].pc > ExitPc(text[t])

\* A thread that made its exit system call executes nothing more
\* (equiv-threads.h:91, "run all the threads until there are no more").
ExitedNeverRuns == kpc = "user" => cpu.pc <= ExitPc(text[cur_thread])

\* While user code runs, the intrusive list is a list, and holds every
\* thread that is alive and not running: no thread is lost by a rotation, a
\* switch or a yield, and none is queued twice or after its exit.
QueueHoldsTheOthers ==
  kpc = "user" => Holds(q, {t \in Tids \ {cur_thread} : ~ Exited(t)})

\* retrieve_tid_from_queue finds the scheduled thread (no panic at line 64,
\* no null thread at line 56 or 63), and no other panic is reached.
NoPanic == kpc \notin {"panic", "null"}

\* The same for functions that print: the one panic is that of putc while
\* context switches remain (equiv-threads.c:84).
OnlyPutcPanics ==
  /\ kpc # "null"
  /\ kpc = "panic" => cur_thread # NULL /\ At({"putc"}) /\ Active

\* What equiv_schedule's comment says of putc (equiv-threads.c:77-79): "if we
\* have context switches remaining, switch to the next thread in the schedule".
PutcFollowsSchedule ==
  [][SysPutc /\ Active =>
       schedule.tids[ctx_switch_status.ctx_switch + 2] \in {cur_thread', loop'.tid}]_vars

\* The inductive invariant behind the safety properties: the tracker is
\* armed whenever an instruction starts, and disarmed only between the data
\* abort of the instruction at bvr and its commit; a pending count belongs
\* to that instruction.
InstructionStart == kpc = "user" /\ cpu.pc = bvr

TrackerInv ==
  /\ rw_tracker_enabled = TRUE
  /\ kpc = "retrieve" /\ loop.then = "switch" => armed
  /\ InstructionStart /\ ~ armed =>
       /\ Here # {}
       /\ Active /\ Here \cap shared_memory # {} => ctx_switch_status.do_instr_count = 1
       /\ TrackedBeforeCommit
  /\ InstructionStart /\ ctx_switch_status.do_instr_count = 1 =>
       ~ armed /\ Here \cap shared_memory # {}

ControlInv ==
  /\ q.tail # NULL => q.head # NULL
  /\ \A t \in Tids : regs[t].pc \in Pcs(text[t])
  /\ kpc = "user" => cur_thread \in Tids /\ cpu.pc \in Pcs(text[cur_thread])
  /\ kpc = "retrieve" => /\ loop.th \in Tids /\ loop.tid \in Tids
                         /\ loop.then = "switch" => cur_thread \in Tids
  /\ ctx_switch_status.do_instr_count = 1 => kpc = "user"
  /\ schedule # NoSchedule => DOMAIN report = Cells(schedule)

ThreadsInv ==
  TypeOK /\ ControlInv /\ TrackerInv /\ CountPendingOnlyWhenActive /\ ReportInBounds

\* Every run ends: equiv_run returns to its caller.
RunEnds == <>(kpc = "stopped")

\* The refinement of the abstract specification: a thread in hand has its
\* registers in the processor; the thread being looked for is the one that
\* runs; an access is counted as made once it has committed, although the
\* code counts it at the next mismatch.
InHand(t) == t = cur_thread /\ kpc \in {"user", "panic"}

ctxBar == [t \in Tids |-> IF InHand(t) THEN cpu ELSE regs[t]]

runnerBar ==
  IF kpc = "stopped" THEN NULL ELSE IF loop.tid # NULL THEN loop.tid ELSE cur_thread

countBar ==
  ctx_switch_status.instr_count + IF cpu.pc # bvr THEN ctx_switch_status.do_instr_count ELSE 0

Abs == INSTANCE ScheduledRun WITH
  shared  <- shared_memory,
  plan    <- schedule,
  ctx     <- ctxBar,
  runner  <- runnerBar,
  segment <- ctx_switch_status.ctx_switch,
  count   <- countBar

\* equiv_run keeps the promise of ScheduledRun.
ImplementsScheduledRun == Abs!Spec
=============================================================================
