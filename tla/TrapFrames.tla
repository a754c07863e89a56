---------------------------- MODULE TrapFrames ----------------------------
(***************************************************************************)
(* The machine under equiv_run: user code, its three traps, and how the    *)
(* registers travel.  The processor has registers per mode (sp, lr, spsr)  *)
(* and enters a handler with a return address that is 0, 1 or 2            *)
(* instructions too far; the trampolines of full-except-asm.S save the     *)
(* user registers in a frame at INT_STACK_ADDR, the handlers copy it, and  *)
(* switchto-asm.S loads it.  What traps is decided by the page table and   *)
(* the domains of VirtualMemory; what is recorded, by TouchedBytes.        *)
(*                                                                         *)
(* Which thread the step handler goes on with is left open here: that is   *)
(* the matter of EquivThreads.                                             *)
(***************************************************************************)
EXTENDS VirtualMemory, TouchedBytes, FiniteSets

CONSTANTS
  Threads,
  Texts         \* functions: what each thread runs, [home |-> the section of
                \* its code, code |-> a sequence of accesses, [ins, at]]

ASSUME TextsAssumption ==
  /\ Texts \subseteq [Threads -> [home : Sections, code : Seq([ins : Fields, at : Sections])]]
  /\ \A f \in Texts, t \in Threads : \A i \in DOMAIN f[t].code : IsAccess(f[t].code[i].ins)

VARIABLES
  text,
  cpu,          \* the registers: mode, pc, r (r0-r12), and banked sp, lr, spsr
  frame,        \* the regs_t at the top of the interrupt stack
  cur_thread,
  regs,         \* th->regs
  start_regs,
  live,         \* the threads that have not exited
  bvr,          \* the address without a mismatch fault
  tracker,      \* the bytes recorded, as <<section, offset>>
  kpc,          \* "boot", "user", a handler that runs, "returned" or "panic"
  accessed,     \* history: the kernel bytes read and written
  seen          \* history: the registers of each thread as it left them

trapVars == <<text, cpu, frame, cur_thread, regs, start_regs, live, bvr, tracker, kpc, accessed, seen>>
machineVars == <<vmVars, trapVars>>

Modes == {"user", "super", "abort"}

\* Addresses in the kernel: where cswitchto_user_asm returns to, and stacks.
equiv_run_pc  == -1
KernelStack   == -1
INT_STACK     == -2
sys_equiv_exit == -3

\* A regs_t.  The stack of thread t is at t; r counts what was computed.
Regs(pc, r, sp, lr, mode) == [pc |-> pc, r |-> r, sp |-> sp, lr |-> lr, cpsr |-> mode]

\* equiv_regs_init
InitRegs(t) == Regs(1, 0, t, sys_equiv_exit, "user")

\* The registers user code sees.
UserRegs == Regs(cpu.pc, cpu.r, cpu.sp["user"], cpu.lr["user"], cpu.mode)

TextOf(t)  == text[t].code
ExitPc(t)  == Len(TextOf(t)) + 1
AtExit     == cpu.pc = ExitPc(cur_thread)
Current    == TextOf(cur_thread)[cpu.pc]
-----------------------------------------------------------------------------
\* An exception (the processor, external): ahead is how many instructions
\* the return address in the banked lr is past pc.
Entered(mode, ahead) ==
  [mode |-> mode, pc |-> 0, r |-> cpu.r, sp |-> cpu.sp,
   lr   |-> [cpu.lr   EXCEPT ![mode] = cpu.pc + ahead],
   spsr |-> [cpu.spsr EXCEPT ![mode] = cpu.mode]]

\* Mutant of Saved: the registers of the handler's mode are stored (stm
\* without ^).
SavedBanked(c, adjust) ==
  Regs(c.lr[c.mode] - adjust, c.r, c.sp[c.mode], c.lr[c.mode], c.spsr[c.mode])

\* The trampolines: lr less adjust is the pc, r0-r14 are those of user mode,
\* spsr is the cpsr.  The sp of the handler's mode is INT_STACK_ADDR.
Saved(c, adjust) ==
  Regs(c.lr[c.mode] - adjust, c.r, c.sp["user"], c.lr["user"], c.spsr[c.mode])

Handled(c) == [c EXCEPT !.r = 0, !.sp = [@ EXCEPT ![c.mode] = INT_STACK]]

Trap(mode, ahead, adjust, handler) ==
  LET entered == Entered(mode, ahead) IN
  /\ frame' = Saved(entered, adjust)
  /\ cpu' = Handled(entered)
  /\ kpc' = handler

\* switchto: to user mode with ldm ^ and rfe, else into the mode of cpsr.
SwitchedTo(r) ==
  [cpu EXCEPT !.mode = r.cpsr, !.pc = r.pc, !.r = r.r,
              !.sp[r.cpsr] = r.sp, !.lr[r.cpsr] = r.lr]

-----------------------------------------------------------------------------
TFInit ==
  /\ VMInit
  /\ text \in Texts
  /\ cpu = [mode |-> "super", pc |-> 0, r |-> 0,
            sp   |-> [m \in Modes |-> IF m = "super" THEN KernelStack ELSE 0],
            lr   |-> [m \in Modes |-> 0],
            spsr |-> [m \in Modes |-> m]]
  /\ frame = InitRegs(0) /\ start_regs = InitRegs(0)
  /\ cur_thread \in Threads
  /\ regs = [t \in Threads |-> InitRegs(t)]
  /\ live = Threads
  /\ bvr = 0
  /\ tracker = [read |-> {}, write |-> {}]
  /\ kpc = "boot"
  /\ accessed = [read |-> {}, write |-> {}]
  /\ seen = [t \in Threads |-> InitRegs(t)]

Boot == kpc = "boot" /\ VMBoot /\ UNCHANGED trapVars

\* cswitchto_user_asm: the caller's registers are kept, pc becomes its lr.
CSwitched == Regs(equiv_run_pc, cpu.r, cpu.sp[cpu.mode], equiv_run_pc, cpu.mode)

\* rw_tracker_init once the MMU is on, then equiv_run.
EquivRun ==
  /\ kpc = "boot" /\ MMU_enabled
  /\ dacr' = DataFaults(FALSE)
  /\ start_regs' = CSwitched
  /\ cpu' = SwitchedTo(regs[cur_thread])
  /\ bvr' = 0
  /\ kpc' = "user"
  /\ UNCHANGED <<procmap, pt, MMU_enabled, next, text, frame, cur_thread, regs, live,
                 tracker, accessed, seen>>

-----------------------------------------------------------------------------
\* User mode.  An instruction is fetched, which may fault or match the
\* breakpoint, then it accesses memory, which may fault, then it commits.
Fetched == cpu.pc = bvr /\ Fault("user", text[cur_thread].home) = "none"

PrefetchAbort ==
  /\ kpc = "user" /\ ~ Fetched
  /\ Trap("abort", 1, 1, "prefetch")
  /\ UNCHANGED <<vmVars, text, cur_thread, regs, start_regs, live, bvr, tracker, accessed, seen>>

DataAbort ==
  /\ kpc = "user" /\ Fetched /\ ~ AtExit
  /\ Fault("user", Current.at) # "none"
  /\ Trap("abort", 2, 2, "data")
  /\ UNCHANGED <<vmVars, text, cur_thread, regs, start_regs, live, bvr, tracker, accessed, seen>>

\* The bytes of an access to kernel memory; memory of the user domain is not
\* the tracker's business.
Places(access, bytes) == {<<access.at, b>> : b \in {c \in bytes : access.at # User}}

Noted(log, access, bytes) ==
  IF IsWrite(access.ins) THEN [log EXCEPT !.write = @ \cup Places(access, bytes)]
                         ELSE [log EXCEPT !.read = @ \cup Places(access, bytes)]

Stepped(c) == [c EXCEPT !.pc = c.pc + 1, !.r = c.r + 1]

Commit ==
  /\ kpc = "user" /\ Fetched /\ ~ AtExit
  /\ Fault("user", Current.at) = "none"
  /\ cpu' = Stepped(cpu)
  /\ seen' = [seen EXCEPT ![cur_thread] = Stepped(@)]
  /\ accessed' = Noted(accessed, Current, Accessed(Current.ins))
  /\ UNCHANGED <<vmVars, text, frame, cur_thread, regs, start_regs, live, bvr, tracker, kpc>>

ExitSwi ==
  /\ kpc = "user" /\ Fetched /\ AtExit
  /\ Trap("super", 1, 0, "syscall")
  /\ UNCHANGED <<vmVars, text, cur_thread, regs, start_regs, live, bvr, tracker, accessed, seen>>

-----------------------------------------------------------------------------
\* mismatch_fault: equiv_hash_handler arms the tracker, copies the frame, and
\* goes on with this thread (the frame), or with another one (mismatch_run).
\* It does not ask why the fetch faulted.
HandlePrefetch ==
  /\ kpc = "prefetch"
  /\ dacr' = DataFaults(TRUE)
  /\ regs' = [regs EXCEPT ![cur_thread] = frame]
  /\ \/ /\ cpu' = SwitchedTo(frame) /\ bvr' = frame.pc
        /\ UNCHANGED cur_thread
     \/ \E t \in live \ {cur_thread} :
          /\ cpu' = SwitchedTo(regs[t]) /\ bvr' = regs[t].pc
          /\ cur_thread' = t
  /\ kpc' = "user"
  /\ UNCHANGED <<procmap, pt, MMU_enabled, next, text, frame, start_regs, live, tracker, accessed, seen>>

\* Mutant of Disarmed: the tracker stays armed.
StaysArmed == dacr

Disarmed == DataFaults(FALSE)

\* rw_tracker_data_abort_handler; it demands a permission fault outside the
\* user domain, and the decoder may panic.
HandleData ==
  LET access == TextOf(cur_thread)[frame.pc] IN
  /\ kpc = "data"
  /\ IF \/ Fault("user", access.at) # "permission"
        \/ pt[access.at].domain = user_dom
        \/ Panics(access.ins)
     THEN kpc' = "panic" /\ UNCHANGED <<dacr, tracker, cpu>>
     ELSE /\ tracker' = Noted(tracker, access, Touched(access.ins))
          /\ dacr' = Disarmed
          /\ cpu' = SwitchedTo(frame)
          /\ kpc' = "user"
  /\ UNCHANGED <<procmap, pt, MMU_enabled, next, text, frame, cur_thread, regs, start_regs,
                 live, bvr, accessed, seen>>

\* equiv_syscall_handler, EQUIV_EXIT: another thread, or back to equiv_run.
HandleExit ==
  /\ kpc = "syscall"
  /\ regs' = [regs EXCEPT ![cur_thread] = frame]
  /\ live' = live \ {cur_thread}
  /\ IF live' = {}
     THEN cpu' = SwitchedTo(start_regs) /\ kpc' = "returned" /\ UNCHANGED <<cur_thread, bvr>>
     ELSE \E t \in live' :
            cur_thread' = t /\ cpu' = SwitchedTo(regs[t]) /\ bvr' = regs[t].pc /\ kpc' = "user"
  /\ UNCHANGED <<vmVars, text, frame, start_regs, tracker, accessed, seen>>

UserSteps == PrefetchAbort \/ DataAbort \/ Commit \/ ExitSwi
Handlers  == HandlePrefetch \/ HandleData \/ HandleExit
TFNext == Boot \/ EquivRun \/ UserSteps \/ Handlers

TFSpec == TFInit /\ [][TFNext]_machineVars /\ WF_machineVars(TFNext)

-----------------------------------------------------------------------------
\* However often a thread was interrupted, switched away from and resumed, it
\* goes on with the registers it left, its own stack pointer included; and
\* when equiv_run goes on, it is on the kernel's stack.
ResumesAsLeft ==
  /\ kpc = "user" => UserRegs = seen[cur_thread]
  /\ kpc = "returned" =>
       cpu.mode = "super" /\ cpu.pc = equiv_run_pc /\ cpu.sp["super"] = KernelStack

\* The trackers' sets are exactly the bytes of kernel memory that the threads
\* read and wrote, but for those of the access that is about to start again
\* and unless the decoder mistakes an instruction for another; no handler
\* and no access to the user domain faults.
EveryAccess(P(_)) == \A t \in Threads : \A i \in DOMAIN TextOf(t) : P(TextOf(t)[i].ins)
SomeAccess(P(_))  == \E t \in Threads : \E i \in DOMAIN TextOf(t) : P(TextOf(t)[i].ins)

Pending == IF AtExit THEN {} ELSE Places(Current, Touched(Current.ins))

TrackedAreTouched ==
  /\ kpc = "boot" => EveryAccess(DecodesExactly)
  /\ kpc \in {"prefetch", "data", "syscall"} => \A s \in Sections \ Unmapped : Fault("super", s) = "none"
  /\ kpc \in {"user", "returned"} /\ ~ SomeAccess(Mistaken) =>
       \A d \in {"read", "write"} :
         /\ accessed[d] \subseteq tracker[d]
         /\ tracker[d] \subseteq accessed[d] \cup (IF kpc = "user" THEN Pending ELSE {})

\* Functions in the user section run to their end; one outside it never does,
\* it runs no instruction once the tracker is armed: its fetch faults like an
\* access to kernel memory, and the step handler arms the tracker and tries
\* again.
Linked == \A t \in Threads : text[t].home = User
Ended  == kpc \in {"returned", "panic"}

FunctionsEnd == <>(Linked => Ended) /\ [](kpc = "returned" => Linked)
=============================================================================
