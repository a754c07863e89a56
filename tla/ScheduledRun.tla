-------------------------- MODULE ScheduledRun --------------------------
(***************************************************************************)
(* What equiv_run promises to run_interleavings, without traps, saved      *)
(* registers or a run queue: instructions are atomic, the running thread   *)
(* is replaced exactly after the planned number of shared accesses, a      *)
(* thread that exits or yields ends the plan, and a thread that exited     *)
(* never runs again.  EquivThreads implements this specification.          *)
(***************************************************************************)
EXTENDS UserCode

CONSTANTS NumFuncs, Programs, Schedules

Tids == 1..NumFuncs
NoOne == 0
NoPlan == [tids |-> <<>>, instr_counts |-> <<>>]

VARIABLES
  text, mem,
  shared,       \* the addresses whose accesses count
  plan,         \* what is left to obey: a schedule, or NoPlan
  ctx,          \* the registers of each thread
  runner,       \* the thread that runs, or NoOne
  segment,      \* context switches made
  count         \* shared accesses made in this segment

vars == <<text, mem, shared, plan, ctx, runner, segment, count>>

OnPlan == plan # NoPlan /\ segment < Len(plan.instr_counts)
Due    == OnPlan /\ count = plan.instr_counts[segment + 1]

Exited(t) == ctx[t].pc > ExitPc(text[t])

Init ==
  /\ text \in Programs
  /\ mem = [a \in Addrs |-> 0]
  /\ shared \in SUBSET Addrs
  /\ plan \in Schedules
  /\ ctx = [t \in Tids |-> InitRegs]
  /\ runner = NoOne /\ segment = 0 /\ count = 0

Begin ==
  /\ runner = NoOne /\ \A t \in Tids : ctx[t] = InitRegs
  /\ IF plan = NoPlan THEN runner' \in Tids ELSE runner' = plan.tids[1]
  /\ UNCHANGED <<text, mem, shared, plan, ctx, segment, count>>

\* The next instruction of the runner.
At(ops) == runner # NoOne /\ Instr(text[runner], ctx[runner].pc).op \in ops

Execute ==
  /\ runner # NoOne /\ ~ Exited(runner) /\ ~ Due /\ ~ At(Syscalls)
  /\ ctx' = [ctx EXCEPT ![runner] = NextRegs(text[runner], @, mem)]
  /\ mem' = NextMem(text[runner], ctx[runner], mem)
  /\ count' = IF OnPlan /\ Touched(text[runner], ctx[runner].pc) \cap shared # {}
              THEN count + 1 ELSE count
  /\ UNCHANGED <<text, shared, plan, runner, segment>>

ContextSwitch ==
  /\ Due
  /\ segment' = segment + 1 /\ count' = 0
  /\ runner' = plan.tids[segment + 2]
  /\ UNCHANGED <<text, mem, shared, plan, ctx>>

Past == [ctx EXCEPT ![runner].pc = @ + 1]

Exit ==
  /\ At({"exit"}) /\ ~ Due
  /\ ctx' = Past /\ plan' = NoPlan
  /\ LET alive == {t \in Tids \ {runner} : ~ Exited(t)}
     IN  runner' \in IF alive = {} THEN {NoOne} ELSE alive
  /\ UNCHANGED <<text, mem, shared, segment, count>>

Yield ==
  /\ At({"yield"}) /\ ~ Exited(runner) /\ ~ Due
  /\ ctx' = Past /\ plan' = NoPlan
  /\ runner' \in {t \in Tids : ~ Exited(t)}
  /\ UNCHANGED <<text, mem, shared, segment, count>>

\* Not while a context switch of the plan is outstanding: the code panics.
Putc ==
  /\ At({"putc"}) /\ ~ Exited(runner) /\ ~ OnPlan
  /\ ctx' = Past
  /\ runner' \in {t \in Tids : ~ Exited(t)}
  /\ UNCHANGED <<text, mem, shared, plan, segment, count>>

Next == Begin \/ Execute \/ ContextSwitch \/ Exit \/ Yield \/ Putc

Safety == Init /\ [][Next]_vars

Spec == Safety /\ WF_vars(Next)
=============================================================================
