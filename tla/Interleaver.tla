--------------------------- MODULE Interleaver ---------------------------
(***************************************************************************)
(* run_interleavings (interleaver.c:51-157): enumerate the schedules with  *)
(* ncs context switches, run each with equiv_run, and compare the memory   *)
(* it leaves with the states the serial executions leave.  The schedules   *)
(* are not known in advance: how far a run got decides which one is next.  *)
(*                                                                         *)
(* ipc says where run_interleavings is: "call" (about to be called),       *)
(* "first_tid" and "next_tid" (inside next_tid, called at line 73 or at    *)
(* line 154), "loop" (the head of its while), "running" (inside equiv_run, *)
(* whose steps are those of EquivThreads), "returned", or "assert" (an     *)
(* assertion failed).                                                      *)
(***************************************************************************)
EXTENDS EquivThreads

CONSTANT MaxSwitches       \* the ncs argument ranges over 1..MaxSwitches

ASSUME MaxSwitchesAssumption == MaxSwitches \in Nat \ {0}

VARIABLES
  ncs, shared, valid_hashes,    \* the arguments
  tids, instr_nums,             \* the current schedule
  flagged,                      \* hashes reported as invalid memory states
  explored,                     \* the schedules run so far (history)
  ipc

ileavVars == <<ncs, shared, valid_hashes, tids, instr_nums, flagged, explored, ipc>>
allVars == <<vars, ileavVars>>

-----------------------------------------------------------------------------
\* hash_mem: of the memory, only the shared addresses count.  Two different
\* contents are taken to have different hashes.
HashMem(m, addrs) == [a \in addrs |-> m[a]]

\* init(), the caller's function
InitMem == [a \in Addrs |-> 0]

\* A function called by the kernel itself and run to its end (line 174);
\* called alone, it takes no branch backwards.
Executed(f, s) ==
  IF s.regs.pc = ExitPc(f) THEN s
  ELSE [regs |-> NextRegs(f, s.regs, s.mem), mem |-> NextMem(f, s.regs, s.mem)]

Execution(f, m) ==
  LET r[k \in 0..Len(f)] ==
        IF k = 0 THEN [regs |-> InitRegs, mem |-> m] ELSE Executed(f, r[k-1])
  IN  r

RunAlone(f, m) == Execution(f, m)[Len(f)].mem

\* find_shared_memory: what one function reads and another writes.  Its
\* second loop (lines 224-233) adds nothing to the first: memory that two
\* functions only write is not found.
SharedFrom(reads, writes) ==
  UNION {reads[p[1]] \cap writes[p[2]] : p \in {r \in Tids \X Tids : r[1] # r[2]}}

\* The sets find_rw_set collects when a function takes both sides of its
\* branches; EquivChecker has the runs that really collect them.
ReadSet(f)  == {f[i].a : i \in {k \in DOMAIN f : f[k].op = "ld"}}
WriteSet(f) == {f[i].a : i \in {k \in DOMAIN f : f[k].op = "st"}}

SharedMemory(code) ==
  SharedFrom([t \in Tids |-> ReadSet(code[t])], [t \in Tids |-> WriteSet(code[t])])

\* get_func_permutations
Orders == {p \in [Tids -> Tids] : \A i, j \in Tids : p[i] = p[j] => i = j}

\* find_good_hashes: the functions one after the other, in the order p
Serial(code, p, m0) ==
  LET m[i \in 0..NumFuncs] == IF i = 0 THEN m0 ELSE RunAlone(code[p[i]], m[i-1])
  IN  m[NumFuncs]

GoodHashes(code, addrs) == {HashMem(Serial(code, p, InitMem), addrs) : p \in Orders}

-----------------------------------------------------------------------------
\* next_tid: the tids are an odometer, its first digit the fastest.
Bumped(ts) ==
  [i \in DOMAIN ts |->
     IF \E j \in 1..(i-1) : ts[j] # NumFuncs THEN ts[i]
     ELSE IF ts[i] = NumFuncs THEN 1 ELSE ts[i] + 1]

Overflows(ts) == \A i \in DOMAIN ts : ts[i] = NumFuncs

\* run_interleavings up to line 78.  init_threads forks, that is, pushes
\* every thread, and reset_threads pushes every thread again.  (After a
\* failed assertion nothing follows, whatever the other variables are.)
Call ==
  /\ ipc = "call"
  /\ q' = PushedAll(PushedAll(EmptyQueue))
  /\ regs' = [t \in Tids |-> InitRegs]
  /\ schedule' = NoSchedule /\ shared_memory' = {}        \* disable_ctx_switch
  /\ ctx_switch_status' = ResetStatus
  /\ tids' = [i \in 1..(ncs + 1) |-> 1]
  /\ instr_nums' = [i \in 1..ncs |-> 1]
  /\ ipc' = IF q.head = NULL THEN "first_tid" ELSE "assert"  \* reset_ntids
  /\ UNCHANGED <<text, mem, cur_thread, cpu, bvr, trackVars, report, kpc, loop,
                 ncs, shared, valid_hashes, flagged, explored>>

\* One iteration of the loop of next_tid.  Line 73 ignores what it returns.
NextTid ==
  /\ ipc \in {"first_tid", "next_tid"}
  /\ tids' = Bumped(tids)
  /\ ipc' = IF Overflows(tids) THEN IF ipc = "next_tid" THEN "returned" ELSE "loop"
            ELSE IF Adjacent(tids') THEN "loop" ELSE ipc
  /\ UNCHANGED <<vars, ncs, shared, valid_hashes, instr_nums, flagged, explored>>

\* Lines 88-105: the report, init, the threads, and the call of equiv_run.
StartRun ==
  /\ ipc = "loop"
  /\ mem' = InitMem
  /\ q' = PushedAll(q)                                    \* reset_threads
  /\ regs' = [t \in Tids |-> InitRegs]
  /\ schedule' = [tids |-> tids, instr_counts |-> instr_nums]
  /\ shared_memory' = shared
  /\ ctx_switch_status' = ResetStatus
  /\ report' = EmptyReport(schedule')
  /\ rw_tracker_enabled' = TRUE
  /\ kpc' = "start" /\ ipc' = "running"
  /\ UNCHANGED <<text, cur_thread, cpu, bvr, armed, tracker, loop,
                 ncs, shared, valid_hashes, tids, instr_nums, flagged, explored>>

\* The steps of equiv_run.
Run ==
  /\ ipc = "running"
  /\ Next
  /\ UNCHANGED ileavVars

\* Mutants of AdvancedCounts: the later counts are not reset; the count
\* after the last completed segment is increased.
AdvancedNotReset(counts, made) ==
  [i \in DOMAIN counts |-> IF i = made THEN counts[i] + 1 ELSE counts[i]]
AdvancedNext(counts, made) ==
  [i \in DOMAIN counts |-> IF i = made + 1 THEN counts[i] + 1 ELSE counts[i]]

\* Lines 143-155: which counts come next.
AdvancedCounts(counts, made) ==
  [i \in DOMAIN counts |-> IF i < made THEN counts[i]
                           ELSE IF i = made THEN counts[i] + 1 ELSE 1]

\* Lines 107-155, after equiv_run returned.
FinishRun ==
  LET status == ctx_switch_status
      hash   == HashMem(mem, shared)
  IN
  /\ ipc = "running" /\ kpc = "stopped"
  /\ rw_tracker_enabled' = FALSE /\ armed' = FALSE        \* rw_tracker_disable
  /\ schedule' = NoSchedule /\ shared_memory' = {}        \* disable_ctx_switch
  /\ ctx_switch_status' = ResetStatus
  /\ flagged' = IF status.yielded = 0 /\ status.ctx_switch = ncs /\ hash \notin valid_hashes
                THEN flagged \cup {hash} ELSE flagged
  /\ instr_nums' = AdvancedCounts(instr_nums, status.ctx_switch)
  /\ ipc' = IF status.ctx_switch > 0 THEN "loop" ELSE "next_tid"
  /\ explored' = Append(explored, [tids |-> tids, instr_counts |-> instr_nums,
                                   made |-> status.ctx_switch])
  /\ UNCHANGED <<text, mem, threadVars, tracker, report, kpc, loop,
                 ncs, shared, valid_hashes, tids>>

ILNext == Call \/ NextTid \/ StartRun \/ Run \/ FinishRun

\* The arguments of a call: the shared memory and the good hashes as
\* equiv_checker_run computes them from the functions.
ILInit ==
  /\ Fresh
  /\ q = EmptyQueue
  /\ rw_tracker_enabled = FALSE
  /\ schedule = NoSchedule /\ shared_memory = {} /\ report = EmptyReport(NoSchedule)
  /\ kpc = "stopped"
  /\ ncs \in 1..MaxSwitches
  /\ shared = SharedMemory(text)
  /\ valid_hashes = GoodHashes(text, shared)
  /\ tids = <<>> /\ instr_nums = <<>>
  /\ flagged = {} /\ explored = <<>>
  /\ ipc = "call"

ILSpec == ILInit /\ [][ILNext]_allVars /\ WF_allVars(ILNext)

-----------------------------------------------------------------------------
(***************************************************************************)
(* Properties.                                                             *)
(***************************************************************************)
\* The order in which run_interleavings goes through the schedules: by
\* tids, the last tid the most significant, then by counts, the first count
\* the most significant.
TidsBefore(s, t) ==
  \E i \in DOMAIN s : s[i] < t[i] /\ \A j \in (i+1)..Len(s) : s[j] = t[j]
CountsBefore(c, d) ==
  \E i \in DOMAIN c : c[i] < d[i] /\ \A j \in 1..(i-1) : c[j] = d[j]

\* No schedule is run twice, although each is derived from how far the run
\* of its predecessor got: every run is later in the order than all before.
ExploredInOrder ==
  \A i \in 1..(Len(explored) - 1) :
    LET e == explored[i]  f == explored[i+1] IN
    TidsBefore(e.tids, f.tids) \/ (e.tids = f.tids /\ CountsBefore(e.instr_counts, f.instr_counts))

\* The report of a run that made all its switches is complete: cell <<i, j>>
\* holds the address of the (j+1)-st shared access of segment i, in program
\* order.  print_schedule prints these cells (equiv-threads.c:115-130).
ReportTellsTheRun ==
  ipc = "running" /\ kpc = "stopped" /\ ctx_switch_status.ctx_switch = ncs =>
    \A i \in 1..ncs : \A j \in 1..instr_nums[i] :
      LET code == text[tids[i]]  cell == report[<<i - 1, j - 1>>] IN
      /\ cell \in Pcs(code) /\ Touched(code, cell) \cap shared # {}
      /\ j > 1 => report[<<i - 1, j - 2>>] < cell

\* reset_ntids asserts that the previous run drained the queue; at the end
\* of a run, and when run_interleavings is called, it is empty.
QueueDrained ==
  /\ (ipc = "running" /\ kpc = "stopped") \/ ipc = "returned" => q.head = NULL
  /\ ipc # "assert"
=============================================================================
