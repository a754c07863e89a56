------------------------- MODULE TrapFramesProofs -------------------------
(***************************************************************************)
(* The registers of a thread survive every trap and every switch, for any  *)
(* number of threads, any functions and any address space.                 *)
(*                                                                         *)
(* A thread's registers are in one of three places: the processor while it *)
(* runs, the frame while a handler works for it, and its th->regs while    *)
(* another thread runs.  The invariant says which, and that what is there  *)
(* is what the thread left.                                                *)
(***************************************************************************)
EXTENDS TrapFrames, TLAPS

Stacks  == Threads \cup {KernelStack, INT_STACK, 0}
RegsSet == [pc : Int, r : Int, sp : Stacks, lr : Int, cpsr : Modes]
CpuSet  == [mode : Modes, pc : Int, r : Int, sp : [Modes -> Stacks],
            lr : [Modes -> Int], spsr : [Modes -> Modes]]

MachineTypeOK ==
  /\ cpu \in CpuSet
  /\ frame \in RegsSet /\ start_regs \in RegsSet
  /\ cur_thread \in Threads
  /\ live \subseteq Threads
  /\ regs \in [Threads -> RegsSet]
  /\ seen \in [Threads -> RegsSet]

\* Threads run in user mode.
SeenInUserMode == \A t \in Threads : seen[t].cpsr = "user"

\* What equiv_run will return to.
ReturnKept ==
  IF kpc = "boot"
  THEN cpu.mode = "super" /\ cpu.sp["super"] = KernelStack /\ regs = seen
  ELSE start_regs.cpsr = "super" /\ start_regs.pc = equiv_run_pc /\ start_regs.sp = KernelStack

RunningIntact  == kpc = "user" => UserRegs = seen[cur_thread]
HandledIntact  == kpc \in {"prefetch", "data"} => frame = seen[cur_thread]
WaitingIntact  == \A t \in live : t # cur_thread => regs[t] = seen[t]

FramesInv ==
  /\ MachineTypeOK
  /\ SeenInUserMode
  /\ ReturnKept
  /\ RunningIntact
  /\ HandledIntact
  /\ WaitingIntact
  /\ ResumesAsLeft

-----------------------------------------------------------------------------
\* Registers that are loaded into the processor (switchto) are the ones the
\* mode then sees, and the other modes keep theirs.
LEMMA SwitchedToLoads ==
  ASSUME cpu \in CpuSet, NEW r \in RegsSet
  PROVE  /\ SwitchedTo(r) \in CpuSet
         /\ SwitchedTo(r).mode = r.cpsr
         /\ SwitchedTo(r).pc = r.pc
         /\ SwitchedTo(r).r = r.r
         /\ SwitchedTo(r).sp[r.cpsr] = r.sp
         /\ SwitchedTo(r).lr[r.cpsr] = r.lr
BY DEF SwitchedTo, CpuSet, RegsSet

\* Two register sets with the same fields are equal.
LEMMA SameRegs ==
  ASSUME NEW r \in RegsSet, NEW s \in RegsSet,
         r.pc = s.pc, r.r = s.r, r.sp = s.sp, r.lr = s.lr, r.cpsr = s.cpsr
  PROVE  r = s
BY DEF RegsSet

\* Loading the registers of a thread in user mode makes UserRegs those.
LEMMA LoadedAreSeen ==
  ASSUME cpu \in CpuSet, NEW r \in RegsSet, r.cpsr = "user", cpu' = SwitchedTo(r)
  PROVE  cpu' \in CpuSet /\ UserRegs' = r
<1>1. /\ cpu' \in CpuSet
      /\ cpu'.mode = "user" /\ cpu'.pc = r.pc /\ cpu'.r = r.r
      /\ cpu'.sp["user"] = r.sp /\ cpu'.lr["user"] = r.lr
  BY SwitchedToLoads
<1>2. UserRegs' \in RegsSet
  BY <1>1 DEF UserRegs, Regs, RegsSet, CpuSet, Modes
<1>3. QED
  BY <1>1, <1>2, SameRegs DEF UserRegs, Regs

\* A trap out of user mode leaves the user registers in the frame, the pc
\* moved by what the trampoline does not subtract.
LEMMA TrapSaves ==
  ASSUME MachineTypeOK, cpu.mode = "user",
         NEW mode \in {"abort", "super"}, NEW ahead \in Int, NEW adjust \in Int,
         NEW handler, Trap(mode, ahead, adjust, handler)
  PROVE  /\ cpu' \in CpuSet
         /\ frame' \in RegsSet
         /\ frame' = [UserRegs EXCEPT !.pc = cpu.pc + ahead - adjust]
         /\ kpc' = handler
<1> DEFINE entered == Entered(mode, ahead)
<1>a. cpu.pc \in Int /\ cpu.pc + ahead \in Int /\ cpu.mode \in Modes /\ mode \in Modes /\ mode # "user"
  BY DEF MachineTypeOK, CpuSet, Modes
<1>b. /\ cpu.lr \in [Modes -> Int] /\ cpu.spsr \in [Modes -> Modes] /\ cpu.r \in Int
      /\ cpu.sp \in [Modes -> Stacks] /\ "user" \in Modes
  BY DEF MachineTypeOK, CpuSet, Modes
<1>1. /\ entered \in CpuSet
      /\ entered.mode = mode /\ entered.r = cpu.r
      /\ entered.lr[mode] = cpu.pc + ahead
      /\ entered.lr["user"] = cpu.lr["user"]
      /\ entered.sp = cpu.sp
      /\ entered.spsr[mode] = "user"
  BY <1>a, <1>b DEF Entered, CpuSet
<1>2. frame' = Saved(entered, adjust) /\ cpu' = Handled(entered) /\ kpc' = handler
  BY DEF Trap
<1> HIDE DEF entered
<1>3. cpu' \in CpuSet
  <2>1. INT_STACK \in Stacks /\ entered.sp \in [Modes -> Stacks] /\ mode \in Modes
    BY <1>a, <1>b, <1>1 DEF Stacks
  <2>2. [entered.sp EXCEPT ![mode] = INT_STACK] \in [Modes -> Stacks]
    BY <2>1
  <2>3. cpu' = [entered EXCEPT !.r = 0, !.sp = [entered.sp EXCEPT ![mode] = INT_STACK]]
    BY <1>1, <1>2 DEF Handled
  <2>4. entered = [mode |-> entered.mode, pc |-> entered.pc, r |-> entered.r,
                   sp |-> entered.sp, lr |-> entered.lr, spsr |-> entered.spsr]
    BY <1>1 DEF CpuSet
  <2>5. cpu' = [mode |-> entered.mode, pc |-> entered.pc, r |-> 0,
                sp |-> [entered.sp EXCEPT ![mode] = INT_STACK],
                lr |-> entered.lr, spsr |-> entered.spsr]
    BY <2>3, <2>4
  <2>6. QED
    BY <1>1, <2>2, <2>5 DEF CpuSet
<1>4. frame' = Regs(cpu.pc + ahead - adjust, cpu.r, cpu.sp["user"], cpu.lr["user"], "user")
  <2>1. entered.lr[entered.mode] - adjust = cpu.pc + ahead - adjust
    BY <1>a, <1>1
  <2>2. QED
    BY <1>1, <1>2, <2>1 DEF Saved, Regs
<1>5. frame' \in RegsSet
  <2>1. cpu.pc + ahead - adjust \in Int /\ cpu.sp["user"] \in Stacks /\ cpu.lr["user"] \in Int
    BY <1>a, <1>b DEF MachineTypeOK, CpuSet
  <2>2. QED
    BY <1>b, <1>4, <2>1 DEF Regs, RegsSet
<1>6. QED
  BY <1>2, <1>3, <1>4, <1>5 DEF Regs, UserRegs

-----------------------------------------------------------------------------
\* At the start each thread has the registers equiv_fork gave it.
LEMMA FramesInit == TFInit => FramesInv
<1> SUFFICES ASSUME TFInit PROVE FramesInv
  OBVIOUS
<1>1. \A t \in Threads \cup {0} : InitRegs(t) \in RegsSet /\ InitRegs(t).cpsr = "user"
  BY DEF InitRegs, Regs, RegsSet, Stacks, Modes, sys_equiv_exit
<1>2. cpu \in CpuSet /\ cpu.mode = "super" /\ cpu.sp["super"] = KernelStack
  BY DEF TFInit, CpuSet, Stacks, Modes
<1>3. MachineTypeOK
  BY <1>1, <1>2 DEF TFInit, MachineTypeOK
<1>4. QED
  BY <1>1, <1>2, <1>3 DEF TFInit, FramesInv, SeenInUserMode, ReturnKept, RunningIntact,
     HandledIntact, WaitingIntact, ResumesAsLeft

\* Steps that leave the threads and the processor alone.
LEMMA FramesIdle ==
  ASSUME FramesInv, UNCHANGED <<cpu, frame, cur_thread, regs, start_regs, live, kpc, seen>>
  PROVE  FramesInv'
BY DEF FramesInv, MachineTypeOK, SeenInUserMode, ReturnKept, RunningIntact, HandledIntact,
   WaitingIntact, ResumesAsLeft, UserRegs

\* The first thread runs: its registers are loaded from th->regs, and the
\* kernel's are kept in start_regs.
LEMMA FramesEquivRun ==
  ASSUME FramesInv, EquivRun
  PROVE  FramesInv'
<1> USE DEF FramesInv, MachineTypeOK, SeenInUserMode, ReturnKept
<1>1. regs[cur_thread] \in RegsSet /\ regs[cur_thread].cpsr = "user"
  BY DEF EquivRun
<1>2. cpu' \in CpuSet /\ UserRegs' = regs[cur_thread]
  BY <1>1, LoadedAreSeen DEF EquivRun
<1>3. start_regs' \in RegsSet /\ start_regs'.cpsr = "super"
      /\ start_regs'.pc = equiv_run_pc /\ start_regs'.sp = KernelStack
  BY DEF EquivRun, CSwitched, Regs, RegsSet, CpuSet, Stacks, equiv_run_pc, KernelStack
<1>4. QED
  BY <1>2, <1>3 DEF EquivRun, RunningIntact, HandledIntact, WaitingIntact, ResumesAsLeft

\* What an instruction does to a record of registers.
LEMMA SteppedRegs ==
  ASSUME NEW c, NEW pc \in Int, NEW r \in Int, NEW sp, NEW lr, NEW cpsr,
         c = [pc |-> pc, r |-> r, sp |-> sp, lr |-> lr, cpsr |-> cpsr]
  PROVE  Stepped(c) = [pc |-> pc + 1, r |-> r + 1, sp |-> sp, lr |-> lr, cpsr |-> cpsr]
<1>1. c.pc = pc /\ c.r = r
  OBVIOUS
<1>2. Stepped(c) = [c EXCEPT !.pc = pc + 1, !.r = r + 1]
  BY <1>1 DEF Stepped
<1>3. QED
  BY <1>2

\* A thread that executes an instruction changes its own registers only.
LEMMA FramesCommit ==
  ASSUME FramesInv, Commit
  PROVE  FramesInv'
<1> USE DEF FramesInv, MachineTypeOK, SeenInUserMode, ReturnKept
<1>1. UserRegs = seen[cur_thread] /\ cur_thread \in Threads /\ seen[cur_thread] \in RegsSet
  BY DEF Commit, RunningIntact
<1> DEFINE after == Regs(cpu.pc + 1, cpu.r + 1, cpu.sp["user"], cpu.lr["user"], cpu.mode)
<1>2. /\ cpu = [mode |-> cpu.mode, pc |-> cpu.pc, r |-> cpu.r,
               sp |-> cpu.sp, lr |-> cpu.lr, spsr |-> cpu.spsr]
      /\ cpu.pc \in Int /\ cpu.r \in Int /\ cpu.mode \in Modes
      /\ cpu.sp \in [Modes -> Stacks] /\ cpu.lr \in [Modes -> Int]
      /\ cpu.spsr \in [Modes -> Modes]
  BY DEF CpuSet
<1>3. cpu' = [mode |-> cpu.mode, pc |-> cpu.pc + 1, r |-> cpu.r + 1,
              sp |-> cpu.sp, lr |-> cpu.lr, spsr |-> cpu.spsr]
  <2>1. cpu' = [cpu EXCEPT !.pc = cpu.pc + 1, !.r = cpu.r + 1]
    BY DEF Commit, Stepped
  <2>2. QED
    BY <1>2, <2>1
<1>4. cpu' \in CpuSet
  BY <1>2, <1>3 DEF CpuSet
<1>5. UserRegs' = after
  BY <1>3 DEF UserRegs
<1>6. after \in RegsSet /\ after.cpsr = "user"
  <2>1. cpu.mode = "user" /\ "user" \in Modes
    BY <1>1 DEF UserRegs, Regs, Modes
  <2>2. cpu.sp["user"] \in Stacks /\ cpu.lr["user"] \in Int
    BY <1>2, <2>1
  <2>3. QED
    BY <1>2, <2>1, <2>2 DEF Regs, RegsSet
<1>7. Stepped(seen[cur_thread]) = after
  <2>1. seen[cur_thread] = [pc |-> cpu.pc, r |-> cpu.r, sp |-> cpu.sp["user"],
                            lr |-> cpu.lr["user"], cpsr |-> cpu.mode]
    BY <1>1 DEF UserRegs, Regs
  <2>2. QED
    BY <1>2, <2>1, SteppedRegs DEF Regs
<1>8. seen' = [seen EXCEPT ![cur_thread] = after]
  <2>1. seen' = [seen EXCEPT ![cur_thread] = Stepped(seen[cur_thread])]
    BY DEF Commit
  <2> HIDE DEF after
  <2>2. QED
    BY <1>7, <2>1
<1> HIDE DEF after
<1>9. seen' \in [Threads -> RegsSet] /\ seen'[cur_thread] = after
      /\ \A t \in Threads : t # cur_thread => seen'[t] = seen[t]
  BY <1>1, <1>6, <1>8
<1>10. QED
  BY <1>4, <1>5, <1>6, <1>9 DEF Commit, RunningIntact, HandledIntact, WaitingIntact, ResumesAsLeft

\* The traps: the registers move from the processor to the frame.
LEMMA FramesTrap ==
  ASSUME FramesInv, PrefetchAbort \/ DataAbort \/ ExitSwi
  PROVE  FramesInv'
<1> USE DEF FramesInv, MachineTypeOK, SeenInUserMode, ReturnKept
<1>1. UserRegs = seen[cur_thread] /\ seen[cur_thread] \in RegsSet
      /\ cpu.mode = "user" /\ cpu.pc = seen[cur_thread].pc /\ cpu.pc \in Int
  BY DEF PrefetchAbort, DataAbort, ExitSwi, RunningIntact, UserRegs, Regs, CpuSet
<1>2. ASSUME NEW mode \in {"abort", "super"}, NEW ahead \in Int, NEW adjust \in Int,
             NEW handler, handler \notin {"boot", "user", "returned"},
             Trap(mode, ahead, adjust, handler),
             handler = "syscall" \/ ahead = adjust,
             UNCHANGED <<cur_thread, regs, start_regs, live, seen>>, kpc = "user"
      PROVE  FramesInv'
  <2>1. cpu' \in CpuSet /\ frame' \in RegsSet /\ kpc' = handler
        /\ frame' = [UserRegs EXCEPT !.pc = cpu.pc + ahead - adjust]
    BY <1>1, <1>2, TrapSaves
  <2>2. ahead = adjust => frame' = seen[cur_thread]
    <3> SUFFICES ASSUME ahead = adjust PROVE frame' = seen[cur_thread]
      OBVIOUS
    <3>1. cpu.pc + ahead - adjust = seen[cur_thread].pc
      BY <1>1
    <3>2. QED
      BY <1>1, <2>1, <3>1 DEF RegsSet
  <2>3. QED
    BY <1>2, <2>1, <2>2 DEF RunningIntact, HandledIntact, WaitingIntact, ResumesAsLeft
<1>3. CASE PrefetchAbort
  BY <1>2, <1>3 DEF PrefetchAbort
<1>4. CASE DataAbort
  BY <1>2, <1>4 DEF DataAbort
<1>5. CASE ExitSwi
  BY <1>2, <1>5 DEF ExitSwi
<1>6. QED
  BY <1>3, <1>4, <1>5

\* The step handler goes on with the frame, or puts it away and takes the
\* registers of another thread.
LEMMA FramesHandlePrefetch ==
  ASSUME FramesInv, HandlePrefetch
  PROVE  FramesInv'
<1> USE DEF FramesInv, MachineTypeOK, SeenInUserMode, ReturnKept
<1>1. frame = seen[cur_thread] /\ frame \in RegsSet /\ frame.cpsr = "user"
  BY DEF HandlePrefetch, HandledIntact
<1>2. regs' \in [Threads -> RegsSet] /\ \A t \in live : regs'[t] = seen[t]
  BY <1>1 DEF HandlePrefetch, WaitingIntact
<1>3. cpu' \in CpuSet /\ cur_thread' \in Threads /\ UserRegs' = seen[cur_thread']
  <2>1. CASE cpu' = SwitchedTo(frame) /\ cur_thread' = cur_thread
    BY <1>1, <2>1, LoadedAreSeen
  <2>2. CASE \E t \in live \ {cur_thread} : cpu' = SwitchedTo(regs[t]) /\ cur_thread' = t
    <3>1. PICK t \in live \ {cur_thread} : cpu' = SwitchedTo(regs[t]) /\ cur_thread' = t
      BY <2>2
    <3>2. regs[t] = seen[t] /\ regs[t] \in RegsSet /\ regs[t].cpsr = "user"
      BY <3>1 DEF WaitingIntact
    <3>3. QED
      BY <3>1, <3>2, LoadedAreSeen
  <2>3. QED
    BY <2>1, <2>2 DEF HandlePrefetch
<1>4. QED
  BY <1>2, <1>3 DEF HandlePrefetch, RunningIntact, HandledIntact, WaitingIntact, ResumesAsLeft

\* The data abort handler goes on with the frame.
LEMMA FramesHandleData ==
  ASSUME FramesInv, HandleData
  PROVE  FramesInv'
<1> USE DEF FramesInv, MachineTypeOK, SeenInUserMode, ReturnKept
<1>1. frame = seen[cur_thread] /\ frame \in RegsSet /\ frame.cpsr = "user"
  BY DEF HandleData, HandledIntact
<1>2. CASE cpu' = SwitchedTo(frame) /\ kpc' = "user"
  BY <1>1, <1>2, LoadedAreSeen
  DEF HandleData, RunningIntact, HandledIntact, WaitingIntact, ResumesAsLeft
<1>3. CASE UNCHANGED cpu /\ kpc' = "panic"
  BY <1>3 DEF HandleData, RunningIntact, HandledIntact, WaitingIntact, ResumesAsLeft
<1>4. QED
  BY <1>2, <1>3 DEF HandleData

\* The exit goes on with another thread, or with equiv_run.
LEMMA FramesHandleExit ==
  ASSUME FramesInv, HandleExit
  PROVE  FramesInv'
<1> USE DEF FramesInv, MachineTypeOK, SeenInUserMode, ReturnKept
<1>1. regs' \in [Threads -> RegsSet] /\ live' \subseteq live \ {cur_thread}
      /\ \A t \in live' : regs'[t] = seen[t] /\ regs'[t] = regs[t]
  BY DEF HandleExit, WaitingIntact
<1>2. CASE cpu' = SwitchedTo(start_regs) /\ kpc' = "returned" /\ UNCHANGED cur_thread
  <2>1. start_regs \in RegsSet /\ start_regs.cpsr = "super"
        /\ start_regs.pc = equiv_run_pc /\ start_regs.sp = KernelStack
    BY DEF HandleExit
  <2>2. cpu' \in CpuSet /\ cpu'.mode = "super" /\ cpu'.pc = equiv_run_pc
        /\ cpu'.sp["super"] = KernelStack
    BY <1>2, <2>1, SwitchedToLoads
  <2>3. QED
    BY <1>1, <1>2, <2>2 DEF HandleExit, RunningIntact, HandledIntact, WaitingIntact, ResumesAsLeft
<1>3. CASE \E t \in live' : cur_thread' = t /\ cpu' = SwitchedTo(regs'[t]) /\ kpc' = "user"
  <2>1. PICK t \in live' : cur_thread' = t /\ cpu' = SwitchedTo(regs'[t]) /\ kpc' = "user"
    BY <1>3
  <2>2. regs'[t] = seen[t] /\ regs'[t] \in RegsSet /\ regs'[t].cpsr = "user" /\ t \in Threads
    BY <1>1
  <2>3. cpu' \in CpuSet /\ UserRegs' = seen[t]
    BY <2>1, <2>2, LoadedAreSeen
  <2>4. QED
    BY <1>1, <2>1, <2>2, <2>3
    DEF HandleExit, RunningIntact, HandledIntact, WaitingIntact, ResumesAsLeft
<1>4. QED
  <2>1. live' # {} => \E t \in live' : cur_thread' = t /\ cpu' = SwitchedTo(regs'[t]) /\ kpc' = "user"
    BY <1>1 DEF HandleExit
  <2>2. QED
    BY <1>2, <1>3, <2>1 DEF HandleExit

-----------------------------------------------------------------------------
\* The inductive invariant: a thread's registers are where the checker will
\* look for them, as the thread left them, in every reachable state.
THEOREM FramesInvariant == TFSpec => []FramesInv
<1>1. TFInit => FramesInv
  BY FramesInit
<1>2. FramesInv /\ [TFNext]_machineVars => FramesInv'
  <2> SUFFICES ASSUME FramesInv, [TFNext]_machineVars PROVE FramesInv'
    OBVIOUS
  <2>1. CASE Boot
    BY <2>1, FramesIdle DEF Boot, trapVars
  <2>2. CASE EquivRun
    BY <2>2, FramesEquivRun
  <2>3. CASE Commit
    BY <2>3, FramesCommit
  <2>4. CASE PrefetchAbort \/ DataAbort \/ ExitSwi
    BY <2>4, FramesTrap
  <2>5. CASE HandlePrefetch
    BY <2>5, FramesHandlePrefetch
  <2>6. CASE HandleData
    BY <2>6, FramesHandleData
  <2>7. CASE HandleExit
    BY <2>7, FramesHandleExit
  <2>8. CASE UNCHANGED machineVars
    BY <2>8, FramesIdle DEF machineVars, trapVars
  <2>9. QED
    BY <2>1, <2>2, <2>3, <2>4, <2>5, <2>6, <2>7, <2>8 DEF TFNext, UserSteps, Handlers
<1>3. QED
  BY <1>1, <1>2, PTL DEF TFSpec

\* Whatever the threads, their functions and the order in which the step
\* handler switches between them, each goes on with the registers it left.
THEOREM ThreadsResumeAsLeft == TFSpec => []ResumesAsLeft
<1>1. FramesInv => ResumesAsLeft
  BY DEF FramesInv
<1>2. QED
  BY <1>1, FramesInvariant, PTL

-----------------------------------------------------------------------------
(***************************************************************************)
(* The decoder, for every instruction that accesses memory.                *)
(***************************************************************************)
\* Sets of bytes differ if their sizes do.
LEMMA BytesEqual ==
  ASSUME NEW n \in Nat, NEW m \in Nat
  PROVE  Bytes(n) = Bytes(m) <=> n = m
<1>1. ASSUME n < m PROVE Bytes(n) # Bytes(m)
  <2>1. n \in Bytes(m) /\ n \notin Bytes(n)
    BY <1>1 DEF Bytes
  <2>. QED
    BY <2>1
<1>2. ASSUME m < n PROVE Bytes(n) # Bytes(m)
  <2>1. m \in Bytes(n) /\ m \notin Bytes(m)
    BY <1>2 DEF Bytes
  <2>. QED
    BY <2>1
<1>. QED
  BY <1>1, <1>2

\* How many bytes get_touched_bytes finds, and how many are accessed.
TouchedSize(ins) ==
  IF MatchesSwp(ins) THEN 4
  ELSE IF MatchesSwpb(ins) THEN 1
  ELSE IF MatchesLdrex(ins) THEN 4
  ELSE IF ins.type \in {2, 3} THEN (IF ins.i = 1 THEN 1 ELSE 4)
  ELSE IF ins.type = 0 THEN
    (IF lsh(ins) \in {1, 5, 7} THEN 2
     ELSE IF lsh(ins) \in {2, 3} THEN 8
     ELSE IF lsh(ins) = 6 THEN 1 ELSE 0)
  ELSE IF ins.type = 4 THEN 4 * ins.list ELSE 0

AccessedSize(ins) ==
  IF Multiple(ins) THEN 4 * ins.list
  ELSE IF Exclusive(ins) THEN ExclusiveSize(ins)
  ELSE IF Extra(ins) THEN ExtraSize(ins)
  ELSE IF ins.i = 1 THEN 1 ELSE 4

\* The sizes of the exclusive accesses.
LEMMA ExclusiveSizes ==
  ASSUME NEW ins \in Fields
  PROVE  ExclusiveSize(ins) = IF ins.i = 0 THEN (IF ins.w = 0 THEN 4 ELSE 8)
                                           ELSE (IF ins.w = 0 THEN 1 ELSE 2)
BY DEF Fields, Bits, ExclusiveSize

\* The fields of an instruction are numbers.
LEMMA FieldTypes ==
  ASSUME NEW ins \in Fields
  PROVE  /\ ins.type \in 0..7 /\ ins.p \in {0, 1} /\ ins.u \in {0, 1} /\ ins.i \in {0, 1}
         /\ ins.w \in {0, 1} /\ ins.l \in {0, 1} /\ ins.sh \in 0..3 /\ ins.list \in Nat
BY DEF Fields, Bits

\* The tests of get_touched_bytes are right but for the instructions of which
\* DecodesExactly says so.
LEMMA DecoderIsExact ==
  ASSUME NEW ins \in Fields, IsAccess(ins)
  PROVE  DecodesExactly(ins)
<1>. USE DEF MatchesSwp, MatchesSwpb, MatchesLdrex, Is, lsh, Swap, Exclusive, Extra, Single, Multiple
<1>1. Touched(ins) = Bytes(TouchedSize(ins)) /\ TouchedSize(ins) \in Nat
  <2>1. {} = Bytes(0)
    BY DEF Bytes
  <2>. QED
    BY <2>1, FieldTypes DEF Touched, TouchedSize, ExtraTouched
<1>2. Accessed(ins) = Bytes(AccessedSize(ins)) /\ AccessedSize(ins) \in Nat
  BY FieldTypes, ExclusiveSizes DEF Accessed, AccessedSize, ExtraSize
<1>3. Touched(ins) = Accessed(ins) <=> TouchedSize(ins) = AccessedSize(ins)
  BY <1>1, <1>2, BytesEqual
<1>4. Panics(ins) <=> Exclusive(ins) /\ ExclusiveSize(ins) # 4
  <2>. USE FieldTypes DEF Panics
  <2>1. CASE Swap(ins)
    BY <2>1
  <2>2. CASE Exclusive(ins)
    <3>1. /\ Panics(ins) <=> ~ (ins.i = 0 /\ ins.w = 0)
          /\ ExclusiveSize(ins) # 4 <=> ~ (ins.i = 0 /\ ins.w = 0)
      BY <2>2, ExclusiveSizes
    <3>. QED
      BY <2>2, <3>1
  <2>3. CASE Extra(ins)
    BY <2>3
  <2>4. CASE Single(ins) \/ Multiple(ins)
    BY <2>4
  <2>. QED
    BY <2>1, <2>2, <2>3, <2>4 DEF IsAccess
<1>5. Mistaken(ins) <=> TouchedSize(ins) # AccessedSize(ins) /\ ~ Panics(ins)
  <2>. USE FieldTypes, ExclusiveSizes DEF Mistaken, Panics, TouchedSize, AccessedSize, ExtraSize
  <2>1. CASE Swap(ins)
    BY <2>1
  <2>2. CASE Exclusive(ins)
    BY <2>2
  <2>3. CASE Extra(ins)
    <3>1. CASE ins.l = 0
      BY <2>3, <3>1
    <3>2. CASE ins.l = 1
      BY <2>3, <3>2
    <3>. QED
      BY <3>1, <3>2
  <2>4. CASE Single(ins)
    BY <2>4
  <2>5. CASE Multiple(ins)
    BY <2>5
  <2>. QED
    BY <2>1, <2>2, <2>3, <2>4, <2>5 DEF IsAccess
<1>. QED
  BY <1>3, <1>4, <1>5 DEF DecodesExactly

-----------------------------------------------------------------------------
(***************************************************************************)
(* Virtual memory: what faults once the MMU is on.                         *)
(***************************************************************************)
\* The map that procmap_default_mk pushes.
TheMap ==
  << Entry(512, kern_dom), Entry(513, kern_dom), Entry(514, kern_dom),
     Entry(User, user_dom), Entry(Code, kern_dom), Entry(Heap, kern_dom),
     Entry(IntStack, kern_dom), Entry(Stack, kern_dom) >>

Mapped == Sections \ Unmapped
DomainOf(s) == IF s = User THEN user_dom ELSE kern_dom
DescriptorOf(s) == [tag |-> 2, domain |-> DomainOf(s), perm |-> perm_rw_priv]

\* vm_map_kernel has mapped the entries before next.
MapInv ==
  /\ procmap \in {<<>>, TheMap}
  /\ next \in Nat \ {0}
  /\ pt \in [Sections -> {NoEntry} \cup {DescriptorOf(s) : s \in Mapped}]
  /\ \A s \in Sections : pt[s] = NoEntry \/ (s \in Mapped /\ pt[s] = DescriptorOf(s))
  /\ procmap = <<>> => next = 1
  /\ \A i \in 1..8 : i < next => pt[TheMap[i].addr] # NoEntry
  /\ MMU_enabled => next > 8

\* The tracker's field of the domain access register, and the user's.
DomainsInv ==
  /\ dacr \in [Domains -> {DOM_no_access, DOM_client, DOM_manager}]
  /\ MMU_enabled => /\ dacr[user_dom] = DOM_manager
                    /\ dacr[kern_dom] \in {DOM_client, DOM_manager}

VMInv == MapInv /\ DomainsInv /\ (kpc # "boot" => MMU_enabled)

Armed == dacr[kern_dom] = DOM_client

\* The map covers the sections but the unmapped ones, each in its domain.
LEMMA TheMapFacts ==
  /\ Len(TheMap) = 8 /\ DOMAIN TheMap = 1..8 /\ TheMap # <<>>
  /\ \A i \in 1..8 : TheMap[i].addr \in Mapped /\ TheMap[i].dom = DomainOf(TheMap[i].addr)
  /\ \A s \in Mapped : \E i \in 1..8 : TheMap[i].addr = s
  /\ TheMap[1].dom = kern_dom /\ TheMap[4].dom = user_dom
<1>1. /\ \A s \in {512, 513, 514, Code, Heap, IntStack, Stack} : s # User /\ s \in Mapped
      /\ User \in Mapped
  <2>. DEFINE Named == {Code, Heap, User, 512, 513, 514}
              All == {Code, Heap, User, 512, 513, 514, IntStack, Stack}
  <2>1. IntStack \notin Named /\ Stack \notin Named
    <3>1. {IntStack, Stack} \cap Named = {}
      BY SectionsAssumption
    <3>. HIDE DEF Named
    <3>. QED
      BY <3>1, Zenon
  <2>2. \A s \in All : s \notin Unmapped /\ s \in Sections
    BY SectionsAssumption DEF Sections
  <2>3. \A s \in {512, 513, 514, Code, Heap, IntStack, Stack} : s # User
    BY <2>1 DEF User, Code, Heap
  <2>. QED
    BY <2>2, <2>3 DEF Mapped
<1>2. /\ TheMap[1] = Entry(512, kern_dom) /\ TheMap[2] = Entry(513, kern_dom)
      /\ TheMap[3] = Entry(514, kern_dom) /\ TheMap[4] = Entry(User, user_dom)
      /\ TheMap[5] = Entry(Code, kern_dom) /\ TheMap[6] = Entry(Heap, kern_dom)
      /\ TheMap[7] = Entry(IntStack, kern_dom) /\ TheMap[8] = Entry(Stack, kern_dom)
  BY DEF TheMap
<1>3. Len(TheMap) = 8 /\ DOMAIN TheMap = 1..8 /\ TheMap # <<>>
  BY DEF TheMap
<1>4. \A s, d : Entry(s, d).addr = s /\ Entry(s, d).dom = d
  BY DEF Entry
<1>5. \A i \in 1..8 : i \in {1, 2, 3, 4, 5, 6, 7, 8}
  OBVIOUS
<1>6. Mapped \subseteq {512, 513, 514, User, Code, Heap, IntStack, Stack}
  BY DEF Mapped, Sections
<1>. HIDE DEF TheMap, Entry, Mapped
<1>7. \A i \in 1..8 : TheMap[i].addr \in Mapped /\ TheMap[i].dom = DomainOf(TheMap[i].addr)
  BY <1>1, <1>2, <1>4, <1>5 DEF DomainOf
<1>8. \A s \in Mapped : \E i \in 1..8 : TheMap[i].addr = s
  <2>1. /\ TheMap[1].addr = 512 /\ TheMap[2].addr = 513 /\ TheMap[3].addr = 514
        /\ TheMap[4].addr = User /\ TheMap[5].addr = Code /\ TheMap[6].addr = Heap
        /\ TheMap[7].addr = IntStack /\ TheMap[8].addr = Stack
    BY <1>2, <1>4
  <2>. QED
    BY <1>6, <2>1
<1>. QED
  BY <1>2, <1>3, <1>4, <1>7, <1>8

\* Descriptors are entries.
LEMMA DescriptorFacts ==
  /\ \A s \in Sections : DescriptorOf(s) # NoEntry /\ DescriptorOf(s).tag = 2
  /\ \A s \in Sections : /\ DescriptorOf(s).domain = DomainOf(s)
                         /\ DescriptorOf(s).perm = perm_rw_priv
  /\ NoEntry.tag = 0
<1>1. \A s \in Sections : DescriptorOf(s).tag = 2 /\ DescriptorOf(s).domain = DomainOf(s)
                         /\ DescriptorOf(s).perm = perm_rw_priv
  BY DEF DescriptorOf
<1>2. NoEntry.tag = 0
  BY DEF NoEntry
<1>. QED
  BY <1>1, <1>2

\* What faults: kernel memory in user mode while the tracker is armed, and
\* what is not mapped.
LEMMA Faults ==
  ASSUME VMInv, MMU_enabled, NEW s \in Sections
  PROVE  /\ s \in Unmapped => Fault("user", s) = "translation"
         /\ s \notin Unmapped => Fault("super", s) = "none" /\ pt[s].domain = DomainOf(s)
         /\ s \notin Unmapped /\ s = User => Fault("user", s) = "none"
         /\ s \notin Unmapped /\ s # User =>
              Fault("user", s) = IF Armed THEN "permission" ELSE "none"
<1>1. next > 8 /\ dacr[user_dom] = DOM_manager /\ dacr[kern_dom] \in {DOM_client, DOM_manager}
  BY DEF VMInv, MapInv, DomainsInv
<1>2. CASE s \in Unmapped
  <2>1. pt[s] = NoEntry
    BY <1>2 DEF VMInv, MapInv, Mapped
  <2>. QED
    BY <1>2, <2>1, DescriptorFacts DEF Fault
<1>3. CASE s \notin Unmapped
  <2>1. PICK i \in 1..8 : TheMap[i].addr = s
    BY <1>3, TheMapFacts DEF Mapped
  <2>2. pt[s] # NoEntry
    BY <1>1, <2>1 DEF VMInv, MapInv
  <2>3. pt[s] = DescriptorOf(s)
    BY <2>2 DEF VMInv, MapInv
  <2>4. pt[s].tag = 2 /\ pt[s].domain = DomainOf(s) /\ pt[s].perm = perm_rw_priv
    BY <2>3, DescriptorFacts
  <2>. QED
    BY <1>1, <1>3, <2>4 DEF Fault, Permitted, DomainOf, Armed, DOM_client, DOM_manager, DOM_no_access,
       user_dom, kern_dom
<1>. QED
  BY <1>2, <1>3

\* set_data_faults changes the field of the kernel's domain, and no other.
LEMMA DataFaultsFacts ==
  ASSUME DomainsInv, MMU_enabled, NEW enable \in BOOLEAN
  PROVE  /\ DataFaults(enable) \in [Domains -> {DOM_no_access, DOM_client, DOM_manager}]
         /\ DataFaults(enable)[user_dom] = DOM_manager
         /\ DataFaults(enable)[kern_dom] = IF enable THEN DOM_client ELSE DOM_manager
<1>1. FieldAt(user_dom) = kern_dom
  BY DEF FieldAt, user_dom, kern_dom
<1>2. kern_dom \in Domains /\ user_dom \in Domains /\ kern_dom # user_dom
  BY DEF Domains, user_dom, kern_dom
<1>. QED
  BY <1>1, <1>2 DEF DataFaults, DomainsInv

\* The invariant of start-up, one step after the other.
LEMMA BootKeeps ==
  ASSUME VMInv, VMBoot, kpc = "boot", kpc' = "boot"
  PROVE  VMInv'
<1>. USE DEF VMInv
<1>1. CASE ProcmapDefaultMk
  <2>1. procmap' = TheMap /\ UNCHANGED <<pt, dacr, MMU_enabled, next>>
    BY <1>1 DEF ProcmapDefaultMk, TheMap
  <2>2. procmap = <<>> /\ next = 1
    BY <1>1 DEF ProcmapDefaultMk, MapInv
  <2>. QED
    BY <2>1, <2>2, TheMapFacts DEF MapInv, DomainsInv
<1>2. CASE VmMapSec
  <2>1. /\ ~ MMU_enabled /\ next \in DOMAIN procmap /\ next' = next + 1
        /\ pt' = [pt EXCEPT ![procmap[next].addr] = Descriptor(procmap[next])]
        /\ UNCHANGED <<procmap, dacr, MMU_enabled>>
    BY <1>2 DEF VmMapSec
  <2>2. procmap = TheMap /\ next \in 1..8
    BY <2>1, TheMapFacts DEF MapInv
  <2>3. PICK a : a = TheMap[next].addr
    OBVIOUS
  <2>4. a \in Mapped /\ a \in Sections /\ TheMap[next].dom = DomainOf(a)
    BY <2>2, <2>3, TheMapFacts DEF Mapped
  <2>5. Descriptor(procmap[next]) = DescriptorOf(a)
    BY <2>2, <2>4 DEF Descriptor, DescriptorOf
  <2>6. pt' = [pt EXCEPT ![a] = DescriptorOf(a)]
    BY <2>1, <2>2, <2>3, <2>5
  <2>7. /\ pt' \in [Sections -> {NoEntry} \cup {DescriptorOf(s) : s \in Mapped}]
        /\ pt'[a] = DescriptorOf(a) /\ \A s \in Sections : s # a => pt'[s] = pt[s]
    BY <2>4, <2>6 DEF MapInv
  <2>8. \A s \in Sections : pt[s] # NoEntry => pt'[s] # NoEntry
    BY <2>4, <2>7, DescriptorFacts
  <2>9. pt'[a] # NoEntry
    BY <2>4, <2>7, DescriptorFacts
  <2>10. \A i \in 1..8 : i < next' => pt'[TheMap[i].addr] # NoEntry
    <3>. SUFFICES ASSUME NEW i \in 1..8, i < next' PROVE pt'[TheMap[i].addr] # NoEntry
      OBVIOUS
    <3>1. TheMap[i].addr \in Sections
      BY TheMapFacts DEF Mapped
    <3>2. i < next \/ i = next
      BY <2>1, <2>2
    <3>. QED
      BY <2>3, <2>8, <2>9, <3>1, <3>2 DEF MapInv
  <2>11. \A s \in Sections : pt'[s] = NoEntry \/ (s \in Mapped /\ pt'[s] = DescriptorOf(s))
    BY <2>4, <2>7 DEF MapInv
  <2>12. MapInv'
    BY <2>1, <2>2, <2>7, <2>10, <2>11, TheMapFacts DEF MapInv
  <2>. QED
    BY <2>1, <2>12 DEF DomainsInv
<1>3. CASE VmMmuEnable
  <2>1. /\ procmap # <<>> /\ next > Len(procmap) /\ MMU_enabled' = TRUE
        /\ dacr' = [d \in Domains |-> IF d \in dom_ids THEN DOM_manager ELSE DOM_no_access]
        /\ UNCHANGED <<procmap, pt, next>>
    BY <1>3 DEF VmMmuEnable
  <2>2. procmap = TheMap /\ next > 8
    BY <2>1, TheMapFacts DEF MapInv
  <2>3. kern_dom \in dom_ids /\ user_dom \in dom_ids
    <3>1. 1 \in DOMAIN procmap /\ 4 \in DOMAIN procmap
      BY <2>2, TheMapFacts
    <3>. QED
      BY <2>2, <3>1, TheMapFacts DEF dom_ids
  <2>4. kern_dom \in Domains /\ user_dom \in Domains
    BY DEF kern_dom, user_dom, Domains
  <2>5. DomainsInv'
    BY <2>1, <2>3, <2>4 DEF DomainsInv
  <2>. QED
    BY <2>1, <2>2, <2>5 DEF MapInv
<1>. QED
  BY <1>1, <1>2, <1>3 DEF VMBoot

\* After it only the tracker's field changes.
LEMMA RunningKeeps ==
  ASSUME VMInv, TFNext, ~ Boot
  PROVE  VMInv' /\ MMU_enabled' = MMU_enabled /\ MMU_enabled
<1>1. /\ UNCHANGED <<procmap, pt, MMU_enabled, next>> /\ MMU_enabled
      /\ dacr' \in {dacr, DataFaults(TRUE), DataFaults(FALSE)}
  BY DEF VMInv, TFNext, UserSteps, Handlers, EquivRun, PrefetchAbort, DataAbort, Commit, ExitSwi,
     HandlePrefetch, HandleData, HandleExit, Disarmed, vmVars
<1>2. DomainsInv'
  BY <1>1, DataFaultsFacts DEF VMInv, DomainsInv
<1>3. MapInv'
  BY <1>1 DEF VMInv, MapInv
<1>. QED
  BY <1>1, <1>2, <1>3 DEF VMInv

-----------------------------------------------------------------------------
(***************************************************************************)
(* The tracker.  Between two instructions its sets are the bytes touched;  *)
(* it is ahead by one access only while that one is about to start again,  *)
(* with the tracker disarmed.                                              *)
(***************************************************************************)
NoMistake == \A t \in Threads : \A i \in DOMAIN TextOf(t) : ~ Mistaken(TextOf(t)[i].ins)

Even == NoMistake => accessed = tracker

Settled == (Armed \/ cpu.pc # bvr) /\ Even

Restarting ==
  /\ ~ Armed /\ cpu.pc = bvr /\ ~ AtExit
  /\ text[cur_thread].home = User /\ User \notin Unmapped
  /\ Current.at \notin Unmapped
  /\ ~ Panics(Current.ins)
  /\ NoMistake => tracker = Noted(accessed, Current, Touched(Current.ins))

\* A data abort comes from the instruction without mismatch fault.
Aborted ==
  /\ frame.pc = bvr /\ frame.pc \in DOMAIN TextOf(cur_thread)
  /\ text[cur_thread].home = User /\ User \notin Unmapped

Logs == [read : SUBSET (Sections \X Nat), write : SUBSET (Sections \X Nat)]

TrackInv ==
  /\ VMInv
  /\ text \in Texts
  /\ tracker \in Logs /\ accessed \in Logs
  /\ \A t \in Threads : seen[t].pc \in 1..ExitPc(t)
  /\ kpc = "boot" => Even
  /\ kpc = "user" => Settled \/ Restarting
  /\ kpc \in {"prefetch", "returned"} => Even
  /\ kpc \in {"data", "syscall"} => Armed /\ Even
  /\ kpc = "data" => Aborted

\* The threads run sequences of accesses, all of which are decoded.
LEMMA TextFacts ==
  ASSUME text \in Texts, NEW t \in Threads
  PROVE  /\ text[t].home \in Sections
         /\ Len(TextOf(t)) \in Nat /\ DOMAIN TextOf(t) = 1..Len(TextOf(t))
         /\ \A i \in DOMAIN TextOf(t) :
              /\ TextOf(t)[i].at \in Sections
              /\ TextOf(t)[i].ins \in Fields
              /\ DecodesExactly(TextOf(t)[i].ins)
<1>1. /\ text[t].home \in Sections
      /\ TextOf(t) \in Seq([ins : Fields, at : Sections])
      /\ \A i \in DOMAIN TextOf(t) : IsAccess(TextOf(t)[i].ins)
  <2>1. text[t] \in [home : Sections, code : Seq([ins : Fields, at : Sections])]
    BY TextsAssumption
  <2>. QED
    BY <2>1, TextsAssumption DEF TextOf
<1>2. /\ \A i \in DOMAIN TextOf(t) : TextOf(t)[i] \in [ins : Fields, at : Sections]
      /\ Len(TextOf(t)) \in Nat /\ DOMAIN TextOf(t) = 1..Len(TextOf(t))
  <2>. DEFINE Accesses == [ins : Fields, at : Sections]
  <2>1. PICK code : code = TextOf(t) /\ code \in Seq(Accesses)
    BY <1>1
  <2>. HIDE DEF Accesses
  <2>2. /\ \A i \in DOMAIN code : code[i] \in Accesses
        /\ Len(code) \in Nat /\ DOMAIN code = 1..Len(code)
    BY <2>1
  <2>. USE DEF Accesses
  <2>. QED
    BY <2>1, <2>2
<1>3. \A i \in DOMAIN TextOf(t) : TextOf(t)[i].at \in Sections /\ TextOf(t)[i].ins \in Fields
  BY <1>2
<1>. QED
  BY <1>1, <1>2, <1>3, DecoderIsExact

\* The bytes of the decoder are numbers.
LEMMA BytesAreNumbers ==
  ASSUME NEW ins \in Fields
  PROVE  Touched(ins) \subseteq Nat /\ Accessed(ins) \subseteq Nat
<1>1. \A n \in Nat : Bytes(n) \subseteq Nat
  BY DEF Bytes
<1>2. ins.list \in Nat /\ 4 * ins.list \in Nat
  BY FieldTypes
<1>3. Touched(ins) \subseteq Nat
  BY <1>1, <1>2 DEF Touched, ExtraTouched
<1>4. ExclusiveSize(ins) \in Nat /\ ExtraSize(ins) \in Nat
  BY ExclusiveSizes DEF ExtraSize
<1>. QED
  BY <1>1, <1>2, <1>3, <1>4 DEF Accessed

\* What is noted of an access: nothing if it is to the user domain.
LEMMA NotedFacts ==
  ASSUME NEW log \in Logs, NEW access, access.at \in Sections, NEW bytes \in SUBSET Nat
  PROVE  /\ Noted(log, access, bytes) \in Logs
         /\ access.at = User => Noted(log, access, bytes) = log
<1>1. Places(access, bytes) \subseteq Sections \X Nat
  BY DEF Places
<1>2. access.at = User => Places(access, bytes) = {}
  BY DEF Places
<1>. HIDE DEF Places
<1>3. log = [read |-> log.read, write |-> log.write]
      /\ log.read \in SUBSET (Sections \X Nat) /\ log.write \in SUBSET (Sections \X Nat)
  BY DEF Logs
<1>4. Noted(log, access, bytes)
        = IF IsWrite(access.ins)
          THEN [read |-> log.read, write |-> log.write \cup Places(access, bytes)]
          ELSE [read |-> log.read \cup Places(access, bytes), write |-> log.write]
  <2>1. PICK new : new = Places(access, bytes)
    OBVIOUS
  <2>2. ASSUME NEW set
        PROVE  /\ [log EXCEPT !.write = set] = [read |-> log.read, write |-> set]
               /\ [log EXCEPT !.read = set] = [read |-> set, write |-> log.write]
    <3>1. PICK r, w : log = [read |-> r, write |-> w]
      BY <1>3
    <3>. QED
      BY <3>1
  <2>3. CASE IsWrite(access.ins)
    BY <2>1, <2>2, <2>3 DEF Noted
  <2>4. CASE ~ IsWrite(access.ins)
    BY <2>1, <2>2, <2>4 DEF Noted
  <2>. QED
    BY <2>3, <2>4
<1>. QED
  BY <1>1, <1>2, <1>3, <1>4 DEF Logs

\* The pc of the thread that runs.
LEMMA RunningPc ==
  ASSUME FramesInv, TrackInv, kpc = "user"
  PROVE  /\ cur_thread \in Threads /\ cpu.pc = seen[cur_thread].pc
         /\ cpu.pc \in 1..ExitPc(cur_thread)
         /\ ~ AtExit => cpu.pc \in DOMAIN TextOf(cur_thread)
<1>1. cur_thread \in Threads /\ cpu.pc = seen[cur_thread].pc
  BY DEF FramesInv, MachineTypeOK, RunningIntact, UserRegs, Regs
<1>. QED
  BY <1>1, TextFacts DEF TrackInv, AtExit, ExitPc

\* While the tracker is armed an instruction is fetched from the user section
\* only.
LEMMA FetchedInUser ==
  ASSUME FramesInv, TrackInv, kpc = "user", Fetched, Armed
  PROVE  text[cur_thread].home = User /\ User \notin Unmapped
<1>1. text[cur_thread].home \in Sections /\ VMInv /\ MMU_enabled
  BY RunningPc, TextFacts DEF TrackInv, VMInv
<1>. QED
  BY <1>1, Faults DEF Fetched

\* At the start nothing is tracked and nothing accessed.
LEMMA TrackInit == TFInit => TrackInv
<1>. SUFFICES ASSUME TFInit PROVE TrackInv
  OBVIOUS
<1>1. tracker = [read |-> {}, write |-> {}] /\ accessed = tracker /\ tracker \in Logs
  BY DEF TFInit, Logs
<1>2. \A t \in Threads : seen[t].pc \in 1..ExitPc(t)
  <2>. SUFFICES ASSUME NEW t \in Threads PROVE seen[t].pc \in 1..ExitPc(t)
    OBVIOUS
  <2>1. seen[t].pc = 1
    BY DEF TFInit, InitRegs, Regs
  <2>. QED
    BY <2>1, TextFacts DEF TFInit, ExitPc
<1>3. VMInv
  <2>1. /\ procmap = <<>> /\ pt = [s \in Sections |-> NoEntry] /\ MMU_enabled = FALSE /\ next = 1
        /\ dacr \in {[d \in Domains |-> DOM_no_access], [d \in Domains |-> DOM_manager]}
        /\ kpc = "boot"
    BY DEF TFInit, VMInit
  <2>. QED
    BY <2>1 DEF VMInv, MapInv, DomainsInv
<1>. QED
  BY <1>1, <1>2, <1>3 DEF TFInit, TrackInv, Even

\* The steps that note nothing and access nothing keep what is tracked.
LEMMA TrackIdle ==
  ASSUME TrackInv, VMInv', UNCHANGED <<text, tracker, accessed, seen>>,
         kpc' = "boot" => Even',
         kpc' = "user" => Settled' \/ Restarting',
         kpc' \in {"prefetch", "returned"} => Even,
         kpc' \in {"data", "syscall"} => Armed' /\ Even,
         kpc' = "data" => Aborted'
  PROVE  TrackInv'
<1>1. Even' <=> Even
  BY DEF Even, NoMistake, TextOf
<1>2. \A t \in Threads : seen'[t].pc \in 1..ExitPc(t)'
  BY DEF TrackInv, ExitPc, TextOf
<1>. QED
  BY <1>1, <1>2 DEF TrackInv

\* equiv_run enters the first thread with bvr = 0, where no instruction is, and
\* nothing accessed.
LEMMA TrackEquivRun ==
  ASSUME FramesInv', TrackInv, VMInv', EquivRun
  PROVE  TrackInv'
<1>1. /\ kpc = "boot" /\ kpc' = "user" /\ bvr' = 0
      /\ UNCHANGED <<text, tracker, accessed, seen, cur_thread>>
  BY DEF EquivRun
<1>2. cpu'.pc = seen[cur_thread].pc /\ cur_thread \in Threads
  BY <1>1 DEF FramesInv, MachineTypeOK, RunningIntact, UserRegs, Regs
<1>3. cpu'.pc # bvr'
  BY <1>1, <1>2, TextFacts DEF TrackInv, ExitPc
<1>4. Even'
  BY <1>1 DEF TrackInv, Even, NoMistake, TextOf
<1>. QED
  BY <1>1, <1>3, <1>4, TrackIdle DEF Settled

\* A thread that is stopped before its instruction has accessed nothing, and
\* an access that starts again is not stopped.
LEMMA TrackPrefetchAbort ==
  ASSUME FramesInv, TrackInv, VMInv', PrefetchAbort
  PROVE  TrackInv'
<1>1. /\ kpc = "user" /\ ~ Fetched /\ kpc' = "prefetch"
      /\ UNCHANGED <<text, tracker, accessed, seen>>
  BY DEF PrefetchAbort, Trap
<1>2. VMInv /\ MMU_enabled
  BY <1>1 DEF TrackInv, VMInv
<1>3. ~ Restarting
  <2>1. User \in Sections
    BY DEF Sections
  <2>. QED
    BY <1>1, <1>2, <2>1, Faults DEF Restarting, Fetched
<1>4. Even
  BY <1>1, <1>3 DEF TrackInv, Settled
<1>. QED
  BY <1>1, <1>4, TrackIdle

\* A data abort comes while the tracker is armed.
LEMMA TrackDataAbort ==
  ASSUME FramesInv, FramesInv', TrackInv, VMInv', DataAbort
  PROVE  TrackInv'
<1>1. /\ kpc = "user" /\ Fetched /\ ~ AtExit /\ kpc' = "data" /\ Fault("user", Current.at) # "none"
      /\ UNCHANGED <<text, tracker, accessed, seen, cur_thread, bvr, vmVars>>
  BY DEF DataAbort, Trap
<1>2. VMInv /\ MMU_enabled
  BY <1>1 DEF TrackInv, VMInv
<1>3. cur_thread \in Threads /\ cpu.pc = seen[cur_thread].pc /\ cpu.pc \in DOMAIN TextOf(cur_thread)
  BY <1>1, RunningPc
<1>4. Current.at \in Sections
  BY <1>3, TextFacts DEF TrackInv, Current
<1>5. ~ Restarting
  BY <1>1, <1>2, <1>4, Faults DEF Restarting
<1>6. Settled /\ Armed /\ Even
  BY <1>1, <1>5 DEF TrackInv, Settled, Fetched
<1>7. text[cur_thread].home = User /\ User \notin Unmapped
  BY <1>1, <1>6, FetchedInUser
<1>8. frame' = seen[cur_thread]
  BY <1>1 DEF FramesInv, HandledIntact
<1>9. Aborted'
  BY <1>1, <1>3, <1>7, <1>8 DEF Aborted, Fetched, TextOf
<1>10. Armed'
  BY <1>1, <1>6 DEF Armed, vmVars
<1>. QED
  BY <1>1, <1>6, <1>9, <1>10, TrackIdle

\* The exit swi of a thread is a trap at which the tracker is settled.
LEMMA TrackExitSwi ==
  ASSUME FramesInv, TrackInv, VMInv', ExitSwi
  PROVE  TrackInv'
<1>1. /\ kpc = "user" /\ Fetched /\ AtExit /\ kpc' = "syscall"
      /\ UNCHANGED <<text, tracker, accessed, seen, vmVars>>
  BY DEF ExitSwi, Trap
<1>2. Armed /\ Even
  BY <1>1 DEF TrackInv, Settled, Restarting, Fetched
<1>3. Armed'
  BY <1>1, <1>2 DEF Armed, vmVars
<1>. QED
  BY <1>1, <1>2, <1>3, TrackIdle

\* An instruction that commits while the tracker is armed accesses the user
\* domain; otherwise what it accesses is what was tracked before it started
\* again.
LEMMA TrackCommit ==
  ASSUME FramesInv, FramesInv', TrackInv, VMInv', Commit
  PROVE  TrackInv'
<1>1. /\ kpc = "user" /\ Fetched /\ ~ AtExit /\ Fault("user", Current.at) = "none" /\ kpc' = "user"
      /\ UNCHANGED <<text, tracker, cur_thread, bvr, vmVars>>
      /\ accessed' = Noted(accessed, Current, Accessed(Current.ins))
      /\ cpu' = Stepped(cpu) /\ seen' = [seen EXCEPT ![cur_thread] = Stepped(@)]
  BY DEF Commit
<1>2. VMInv /\ MMU_enabled
  BY <1>1 DEF TrackInv, VMInv
<1>3. /\ cur_thread \in Threads /\ cpu.pc = seen[cur_thread].pc
      /\ cpu.pc \in 1..ExitPc(cur_thread) /\ cpu.pc \in DOMAIN TextOf(cur_thread)
      /\ cpu.pc \in 1..Len(TextOf(cur_thread)) /\ Len(TextOf(cur_thread)) \in Nat
  BY <1>1, RunningPc, TextFacts DEF TrackInv
<1>4. /\ Current.at \in Sections /\ Current.ins \in Fields /\ DecodesExactly(Current.ins)
      /\ NoMistake => ~ Mistaken(Current.ins)
  BY <1>3, TextFacts DEF TrackInv, Current, NoMistake
<1>5. accessed' \in Logs /\ (Current.at = User => accessed' = accessed)
  <2>1. Accessed(Current.ins) \in SUBSET Nat /\ accessed \in Logs
    BY <1>4, BytesAreNumbers DEF TrackInv
  <2>. QED
    BY <1>1, <1>4, <2>1, NotedFacts
<1>6. cpu'.pc = cpu.pc + 1
  BY <1>1 DEF Stepped, FramesInv, MachineTypeOK, CpuSet
<1>7. \A t \in Threads : seen'[t].pc \in 1..ExitPc(t)'
  <2>. SUFFICES ASSUME NEW t \in Threads PROVE seen'[t].pc \in 1..ExitPc(t)'
    OBVIOUS
  <2>1. ExitPc(t)' = ExitPc(t)
    BY <1>1 DEF ExitPc, TextOf
  <2>2. CASE t = cur_thread
    <3>1. seen'[t].pc = cpu'.pc
      BY <1>1, <2>2 DEF FramesInv, RunningIntact, UserRegs, Regs
    <3>. QED
      BY <1>3, <1>6, <2>1, <2>2, <3>1 DEF ExitPc
  <2>3. CASE t # cur_thread
    <3>1. seen'[t] = seen[t]
      BY <1>1, <1>3, <2>3 DEF FramesInv, MachineTypeOK
    <3>. QED
      BY <2>1, <3>1 DEF TrackInv
  <2>. QED
    BY <2>2, <2>3
<1>8. NoMistake => accessed' = tracker
  <2>. SUFFICES ASSUME NoMistake PROVE accessed' = tracker
    OBVIOUS
  <2>1. CASE Settled
    <3>1. Armed /\ accessed = tracker
      BY <1>1, <2>1 DEF Settled, Even, Fetched
    <3>2. Current.at = User
      BY <1>1, <1>2, <1>4, <3>1, Faults
    <3>. QED
      BY <1>5, <3>1, <3>2
  <2>2. CASE Restarting
    <3>1. Touched(Current.ins) = Accessed(Current.ins)
      BY <1>4, <2>2 DEF Restarting, DecodesExactly
    <3>. QED
      BY <1>1, <2>2, <3>1 DEF Restarting
  <2>. QED
    BY <1>1, <2>1, <2>2 DEF TrackInv
<1>9. Settled'
  <2>1. cpu'.pc # bvr'
    BY <1>1, <1>3, <1>6 DEF Fetched
  <2>. QED
    BY <1>1, <1>8, <2>1 DEF Settled, Even, NoMistake, TextOf
<1>. QED
  BY <1>1, <1>5, <1>7, <1>9 DEF TrackInv

\* The step handler arms the tracker.
LEMMA TrackHandlePrefetch ==
  ASSUME TrackInv, VMInv', HandlePrefetch
  PROVE  TrackInv'
<1>1. /\ kpc = "prefetch" /\ kpc' = "user" /\ dacr' = DataFaults(TRUE)
      /\ UNCHANGED <<text, tracker, accessed, seen>>
  BY DEF HandlePrefetch
<1>2. DomainsInv /\ MMU_enabled /\ Even
  BY <1>1 DEF TrackInv, VMInv
<1>3. Armed'
  BY <1>1, <1>2, DataFaultsFacts DEF Armed
<1>4. Even'
  BY <1>1, <1>2 DEF Even, NoMistake, TextOf
<1>. QED
  BY <1>1, <1>3, <1>4, TrackIdle DEF Settled

\* The data abort handler notes the access, disarms the tracker, and lets the
\* access start again.
LEMMA TrackHandleData ==
  ASSUME FramesInv, FramesInv', TrackInv, VMInv', HandleData
  PROVE  TrackInv'
<1>. DEFINE access == TextOf(cur_thread)[frame.pc]
<1>1. /\ kpc = "data" /\ UNCHANGED <<text, accessed, seen, cur_thread, bvr>>
      /\ \/ kpc' = "panic" /\ UNCHANGED tracker
         \/ /\ Fault("user", access.at) = "permission" /\ ~ Panics(access.ins)
            /\ tracker' = Noted(tracker, access, Touched(access.ins))
            /\ dacr' = DataFaults(FALSE) /\ kpc' = "user"
  BY DEF HandleData, Disarmed
<1>2. /\ VMInv /\ DomainsInv /\ MMU_enabled /\ Armed /\ Even /\ Aborted
      /\ cur_thread \in Threads /\ frame = seen[cur_thread]
  BY <1>1 DEF TrackInv, VMInv, FramesInv, MachineTypeOK, HandledIntact
<1>3. /\ access.at \in Sections /\ access.ins \in Fields
      /\ frame.pc \in 1..Len(TextOf(cur_thread)) /\ Len(TextOf(cur_thread)) \in Nat
  BY <1>2, TextFacts DEF TrackInv, Aborted
<1>4. CASE kpc' = "panic" /\ UNCHANGED tracker
  BY <1>1, <1>4, TrackIdle
<1>5. CASE /\ Fault("user", access.at) = "permission" /\ ~ Panics(access.ins)
           /\ tracker' = Noted(tracker, access, Touched(access.ins))
           /\ dacr' = DataFaults(FALSE) /\ kpc' = "user"
  <2>1. cpu'.pc = frame.pc
    BY <1>1, <1>2, <1>5 DEF FramesInv, RunningIntact, UserRegs, Regs
  <2>2. Current' = access
    BY <1>1, <2>1 DEF Current, TextOf
  <2>3. ~ Armed'
    <3>1. dacr'[kern_dom] = DOM_manager
      BY <1>2, <1>5, DataFaultsFacts
    <3>. QED
      BY <3>1 DEF Armed, DOM_manager, DOM_client
  <2>4. ~ AtExit'
    BY <1>1, <1>3, <2>1 DEF AtExit, ExitPc, TextOf
  <2>5. access.at \notin Unmapped
    BY <1>2, <1>3, <1>5, Faults
  <2>6. tracker' \in Logs
    <3>1. Touched(access.ins) \in SUBSET Nat /\ tracker \in Logs
      BY <1>3, BytesAreNumbers DEF TrackInv
    <3>. HIDE DEF access
    <3>. QED
      BY <1>3, <1>5, <3>1, NotedFacts
  <2>7. NoMistake' => tracker' = Noted(accessed', Current', Touched(Current'.ins))
    <3>. HIDE DEF access
    <3>1. NoMistake' => accessed = tracker
      BY <1>1, <1>2 DEF Even, NoMistake, TextOf
    <3>. QED
      BY <1>1, <1>5, <2>2, <3>1
  <2>8. Restarting'
    <3>1. cpu'.pc = bvr' /\ text'[cur_thread'].home = User /\ User \notin Unmapped
      BY <1>1, <1>2, <2>1 DEF Aborted
    <3>2. Current'.at \notin Unmapped /\ ~ Panics(Current'.ins)
      BY <1>5, <2>2, <2>5
    <3>. QED
      BY <2>3, <2>4, <2>7, <3>1, <3>2 DEF Restarting
  <2>9. \A t \in Threads : seen'[t].pc \in 1..ExitPc(t)'
    BY <1>1 DEF TrackInv, ExitPc, TextOf
  <2>. QED
    BY <1>1, <1>5, <2>6, <2>8, <2>9 DEF TrackInv
<1>. QED
  BY <1>1, <1>4, <1>5

\* Another thread goes on with the tracker as it is: armed.
LEMMA TrackHandleExit ==
  ASSUME TrackInv, VMInv', HandleExit
  PROVE  TrackInv'
<1>1. /\ kpc = "syscall" /\ kpc' \in {"user", "returned"}
      /\ UNCHANGED <<text, tracker, accessed, seen, vmVars>>
  BY DEF HandleExit
<1>2. Armed /\ Even
  BY <1>1 DEF TrackInv
<1>3. Armed' /\ Even'
  BY <1>1, <1>2 DEF Armed, Even, NoMistake, TextOf, vmVars
<1>. QED
  BY <1>1, <1>2, <1>3, TrackIdle DEF Settled

-----------------------------------------------------------------------------
\* The inductive invariant of the tracker, relative to the one of the
\* registers.
THEOREM TrackInvariant == TFSpec => []TrackInv
<1>1. TFInit => TrackInv
  BY TrackInit
<1>2. TrackInv /\ FramesInv /\ FramesInv' /\ [TFNext]_machineVars => TrackInv'
  <2>. SUFFICES ASSUME TrackInv, FramesInv, FramesInv', [TFNext]_machineVars PROVE TrackInv'
    OBVIOUS
  <2>1. CASE Boot
    <3>1. VMInv'
      BY <2>1, BootKeeps DEF Boot, trapVars, TrackInv
    <3>2. /\ kpc = "boot" /\ kpc' = "boot" /\ UNCHANGED <<text, tracker, accessed, seen>>
      BY <2>1 DEF Boot, trapVars
    <3>3. Even'
      BY <3>2 DEF TrackInv, Even, NoMistake, TextOf
    <3>. QED
      BY <3>1, <3>2, <3>3, TrackIdle
  <2>2. CASE UNCHANGED machineVars
    BY <2>2 DEF machineVars, vmVars, trapVars, TrackInv, VMInv, MapInv, DomainsInv, Settled,
       Restarting, Aborted, Even, NoMistake, Armed, AtExit, Current, ExitPc, TextOf
  <2>3. CASE TFNext /\ ~ Boot
    <3>1. VMInv'
      BY <2>3, RunningKeeps DEF TrackInv
    <3>. QED
      BY <2>3, <3>1, TrackEquivRun, TrackPrefetchAbort, TrackDataAbort, TrackCommit, TrackExitSwi,
         TrackHandlePrefetch, TrackHandleData, TrackHandleExit
      DEF TFNext, UserSteps, Handlers
  <2>. QED
    BY <2>1, <2>2, <2>3
<1>. QED
  BY <1>1, <1>2, FramesInvariant, PTL DEF TFSpec

\* The sets of the tracker are exactly the bytes of kernel memory the threads
\* read and wrote, but for the access that is about to start again, whatever
\* the functions are, unless the decoder mistakes one of their instructions.
THEOREM TrackedIsTouched == TFSpec => []TrackedAreTouched
<1>1. FramesInv /\ TrackInv => TrackedAreTouched
  <2>. SUFFICES ASSUME FramesInv, TrackInv PROVE TrackedAreTouched
    OBVIOUS
  <2>1. EveryAccess(DecodesExactly)
    BY TextFacts DEF TrackInv, EveryAccess
  <2>2. ASSUME kpc # "boot", NEW s \in Sections \ Unmapped PROVE Fault("super", s) = "none"
    BY <2>2, Faults DEF TrackInv, VMInv
  <2>3. ~ SomeAccess(Mistaken) => NoMistake
    BY DEF SomeAccess, NoMistake
  <2>4. ASSUME kpc \in {"user", "returned"}, NoMistake, NEW d \in {"read", "write"}
        PROVE  /\ accessed[d] \subseteq tracker[d]
               /\ tracker[d] \subseteq accessed[d] \cup (IF kpc = "user" THEN Pending ELSE {})
    <3>1. CASE accessed = tracker
      BY <3>1
    <3>2. CASE kpc = "user" /\ Restarting
      <4>1. Pending = Places(Current, Touched(Current.ins))
        BY <3>2 DEF Restarting, Pending
      <4>2. tracker = Noted(accessed, Current, Touched(Current.ins))
        BY <2>4, <3>2 DEF Restarting
      <4>3. PICK new : new = Places(Current, Touched(Current.ins))
        OBVIOUS
      <4>4. tracker = IF IsWrite(Current.ins) THEN [accessed EXCEPT !.write = @ \cup new]
                                             ELSE [accessed EXCEPT !.read = @ \cup new]
        BY <4>2, <4>3, Zenon DEF Noted
      <4>5. DOMAIN accessed = {"read", "write"}
        BY DEF TrackInv, Logs
      <4>6. accessed[d] \subseteq tracker[d] /\ tracker[d] \subseteq accessed[d] \cup new
        BY <4>4, <4>5
      <4>. QED
        BY <3>2, <4>1, <4>3, <4>6
    <3>. QED
      BY <2>4, <3>1, <3>2 DEF TrackInv, Settled, Even
  <2>. QED
    BY <2>1, <2>2, <2>3, <2>4 DEF TrackedAreTouched
<1>. QED
  BY <1>1, FramesInvariant, TrackInvariant, PTL
=============================================================================
