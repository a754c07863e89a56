-------------------------- MODULE EquivChecker --------------------------
(***************************************************************************)
(* equiv_checker_run (equiv-checker.c:50-93): run every function alone to  *)
(* find what it reads and writes, derive the shared memory, compute the    *)
(* memories the serial executions leave, then call run_interleavings for   *)
(* 1, 2, ..., MaxSwitches context switches.  The user-level runs are those *)
(* of EquivThreads, the calls those of Interleaver.                        *)
(*                                                                         *)
(* cpc: "find" (the loop of find_shared_memory, between two runs),         *)
(* "running" (in the equiv_run of find_rw_set), "found" (the loop is       *)
(* over), "serial" (the loop of find_good_hashes, between two functions),  *)
(* "kernel" (in a function it calls), "calls" (the loop over the number of *)
(* switches), "done".                                                      *)
(***************************************************************************)
EXTENDS Interleaver, SequencesExt

VARIABLES
  executables,              \* the functions; never changes
  additional_shared_memory, \* the caller's hint
  read_sets, write_sets,
  fidx,                     \* the function find_shared_memory is at
  at,                       \* find_good_hashes: the permutation and the
                            \* position in it (from 1)
  kregs,                    \* registers of the function it calls
  cpc

givenVars   == <<executables, additional_shared_memory>>
findVars    == <<read_sets, write_sets, fidx>>
serialVars  == <<at, kregs>>
checkerVars == <<givenVars, findVars, serialVars, cpc>>
everyVar == <<allVars, checkerVars>>

-----------------------------------------------------------------------------
\* find_rw_set up to equiv_run.  Neither init nor anything else resets the
\* memory: the function meets what the functions before it left.  The forked
\* thread has tid 1, whichever function it is (reset_ntids).
FindRwSet ==
  /\ cpc = "find"
  /\ schedule' = NoSchedule /\ shared_memory' = {}        \* disable_ctx_switch
  /\ ctx_switch_status' = ResetStatus
  /\ tracker' = [read |-> {}, write |-> {}]
  /\ rw_tracker_enabled' = TRUE
  /\ text' = [text EXCEPT ![1] = executables[fidx]]       \* equiv_fork
  /\ regs' = [regs EXCEPT ![1] = InitRegs]
  /\ q' = Pushed(q, 1)
  /\ kpc' = "start" /\ cpc' = "running"
  /\ UNCHANGED <<mem, cur_thread, cpu, bvr, armed, report, loop, ileavVars,
                 givenVars, findVars, serialVars>>

RunFunction ==
  /\ cpc = "running"
  /\ Next
  /\ UNCHANGED <<ileavVars, checkerVars>>

\* Mutant of FoundRwSet: the tracker stays armed.
FoundRwSetArmed ==
  /\ cpc = "running" /\ kpc = "stopped"
  /\ read_sets' = [read_sets EXCEPT ![fidx] = tracker.read]
  /\ write_sets' = [write_sets EXCEPT ![fidx] = tracker.write]
  /\ rw_tracker_enabled' = FALSE
  /\ fidx' = fidx + 1 /\ cpc' = IF fidx = NumFuncs THEN "found" ELSE "find"
  /\ UNCHANGED <<text, mem, threadVars, armed, tracker, schedVars, kpc, loop, ileavVars,
                 givenVars, serialVars>>

\* Its end.  (The tracker collects into these very sets.)
FoundRwSet ==
  /\ cpc = "running" /\ kpc = "stopped"
  /\ read_sets' = [read_sets EXCEPT ![fidx] = tracker.read]
  /\ write_sets' = [write_sets EXCEPT ![fidx] = tracker.write]
  /\ rw_tracker_enabled' = FALSE /\ armed' = FALSE        \* rw_tracker_disable
  /\ fidx' = fidx + 1 /\ cpc' = IF fidx = NumFuncs THEN "found" ELSE "find"
  /\ UNCHANGED <<text, mem, threadVars, tracker, schedVars, kpc, loop, ileavVars,
                 givenVars, serialVars>>

\* The loops over the sets, and the hint.
FindSharedMemory ==
  /\ cpc = "found"
  /\ shared' = SharedFrom(read_sets, write_sets) \cup additional_shared_memory
  /\ cpc' = "serial"
  /\ UNCHANGED <<vars, ncs, valid_hashes, tids, instr_nums, flagged, explored, ipc,
                 givenVars, findVars, serialVars>>

-----------------------------------------------------------------------------
\* get_func_permutations: the orders in which permute writes them.
Swapped(arr, i, j) == [arr EXCEPT ![i] = arr[j], ![j] = arr[i]]

itl ==
  LET permute[start \in Tids] == [arr \in [Tids -> Tids] |->
        IF start = NumFuncs THEN <<arr>>
        ELSE FlattenSeq([k \in 1..(NumFuncs - start + 1) |->
                           permute[start + 1][Swapped(arr, start, start + k - 1)]])]
  IN  permute[1][[i \in Tids |-> i]]

\* Mutant of SerialCall: init is called once only.
SerialCallNoInit ==
  /\ cpc = "serial" /\ at[1] <= Len(itl)
  /\ mem' = IF at = <<1, 1>> THEN InitMem ELSE mem
  /\ kregs' = InitRegs
  /\ cpc' = "kernel"
  /\ UNCHANGED <<text, threadVars, trackVars, schedVars, kpc, loop, ileavVars, givenVars, findVars, at>>

\* find_good_hashes calls the next function of the permutation, the first
\* one after init.
SerialCall ==
  /\ cpc = "serial" /\ at[1] <= Len(itl)
  /\ mem' = IF at[2] = 1 THEN InitMem ELSE mem
  /\ kregs' = InitRegs
  /\ cpc' = "kernel"
  /\ UNCHANGED <<text, threadVars, trackVars, schedVars, kpc, loop, ileavVars, givenVars, findVars, at>>

Called == executables[itl[at[1]][at[2]]]

\* The function runs in the kernel, where nothing traps.
SerialStep ==
  /\ cpc = "kernel" /\ kregs.pc < ExitPc(Called)
  /\ kregs' = NextRegs(Called, kregs, mem)
  /\ mem' = NextMem(Called, kregs, mem)
  /\ UNCHANGED <<text, threadVars, trackVars, schedVars, kpc, loop, ileavVars,
                 givenVars, findVars, at, cpc>>

\* It returned; after the last one the memory is hashed.
SerialReturn ==
  /\ cpc = "kernel" /\ kregs.pc = ExitPc(Called)
  /\ IF at[2] < NumFuncs
     THEN at' = <<at[1], at[2] + 1>> /\ UNCHANGED valid_hashes
     ELSE /\ at' = <<at[1] + 1, 1>>
          /\ valid_hashes' = valid_hashes \cup {HashMem(mem, shared)}
  /\ cpc' = "serial"
  /\ UNCHANGED <<vars, ncs, shared, tids, instr_nums, flagged, explored, ipc,
                 givenVars, findVars, kregs>>

-----------------------------------------------------------------------------
\* The loop over the number of context switches: its first iteration ...
FirstCall ==
  /\ cpc = "serial" /\ at[1] > Len(itl)
  /\ text' = executables
  /\ ncs' = 1 /\ ipc' = "call" /\ cpc' = "calls"
  /\ UNCHANGED <<mem, threadVars, trackVars, schedVars, kpc, loop,
                 shared, valid_hashes, tids, instr_nums, flagged, explored,
                 givenVars, findVars, serialVars>>

Interleavings ==
  /\ cpc = "calls"
  /\ ILNext
  /\ UNCHANGED checkerVars

\* ... and the others.
NextCall ==
  /\ cpc = "calls" /\ ipc = "returned"
  /\ IF ncs < MaxSwitches
     THEN ncs' = ncs + 1 /\ ipc' = "call" /\ explored' = <<>> /\ UNCHANGED cpc
     ELSE cpc' = "done" /\ UNCHANGED <<ncs, ipc, explored>>
  /\ UNCHANGED <<vars, shared, valid_hashes, tids, instr_nums, flagged,
                 givenVars, findVars, serialVars>>

CheckerNext ==
    \/ FindRwSet \/ RunFunction \/ FoundRwSet \/ FindSharedMemory
  \/ SerialCall \/ SerialStep \/ SerialReturn
  \/ FirstCall \/ Interleavings \/ NextCall

\* After equiv_checker_init, with the memory the caller prepared.
CheckerInit ==
  /\ Fresh
  /\ executables = text
  /\ additional_shared_memory \in {{}, Addrs}
  /\ read_sets = [t \in Tids |-> {}] /\ write_sets = [t \in Tids |-> {}]
  /\ fidx = 1 /\ at = <<1, 1>> /\ kregs = InitRegs /\ cpc = "find"
  /\ q = EmptyQueue
  /\ rw_tracker_enabled = FALSE
  /\ schedule = NoSchedule /\ shared_memory = {} /\ report = EmptyReport(NoSchedule)
  /\ kpc = "stopped"
  /\ ncs = 1 /\ shared = {} /\ valid_hashes = {}
  /\ tids = <<>> /\ instr_nums = <<>>
  /\ flagged = {} /\ explored = <<>>
  /\ ipc = "call"

CheckerSpec == CheckerInit /\ [][CheckerNext]_everyVar /\ WF_everyVar(CheckerNext)

-----------------------------------------------------------------------------
(***************************************************************************)
(* Properties.                                                             *)
(***************************************************************************)
\* Each equiv_run, for one function alone or under a schedule, and each call
\* of run_interleavings finds the machine as the first one did: the tracker
\* is off, no schedule and no status of an earlier run is left, and only the
\* threads of this call are queued.
CleanBetweenRuns ==
  /\ cpc \in {"find", "found", "serial"} \/ (cpc = "calls" /\ ipc \in {"call", "first_tid", "loop"}) =>
       ~ armed /\ ~ rw_tracker_enabled /\ schedule = NoSchedule
  /\ cpc = "calls" /\ ipc \in {"first_tid", "loop"} => ctx_switch_status = ResetStatus
  /\ cpc \in {"find", "found", "serial"} \/ (cpc = "calls" /\ ipc = "call") => q.head = NULL
  /\ ipc # "assert"

\* The words that f loads (op = "ld") or stores (op = "st") when it runs
\* alone on the memory m.
Alone(f, m, op) ==
  {i.a : i \in {j \in {Instr(f, Execution(f, m)[k].regs.pc) : k \in 0..Len(f)} : j.op = op}}

\* The memory each function meets when they run one after the other.
MemBefore ==
  LET before[i \in Tids] ==
        IF i = 1 THEN InitMem ELSE RunAlone(executables[i-1], before[i-1])
  IN  before

\* The sets that find_rw_set collects by faults and single steps are exactly
\* what each function reads and writes when the functions run one after the
\* other: no access is missed, none of another function is included.
FoundSetsAreTheAccesses ==
  cpc = "found" =>
    \A i \in Tids : /\ read_sets[i]  = Alone(executables[i], MemBefore[i], "ld")
                    /\ write_sets[i] = Alone(executables[i], MemBefore[i], "st")

\* permute writes every order, and nothing else.
PermuteIsComplete == itl \in Seq(Orders) /\ ToSet(itl) = Orders

\* Behind the report of an invalid state: the hashes that run_interleavings is
\* given are those of the serial executions in every order.
ValidAreSerial == cpc \in {"calls", "done"} => valid_hashes = GoodHashes(executables, shared)

\* equiv_checker_run comes to an end.
CheckerEnds == <>(cpc = "done")
=============================================================================
