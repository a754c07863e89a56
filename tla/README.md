# A verification of the thread equivalence checker

The program in `final_proj/code` is a bare-metal checker for a Raspberry Pi. It
is given a few C functions and asks: whatever way they interleave (with a bounded
number of context switches), is the memory they leave one that some serial order
of them leaves? It runs the functions as user threads, single-steps them with the
debug hardware, finds out which memory they share by making their accesses fault,
and enumerates the schedules. This directory holds TLA+ modules of that program, TLC
configurations that check them, and proofs. Paths below are relative to
`src/final_proj/code`.

## 1. Inventory

| part | state | operations | who calls it |
|---|---|---|---|
| driver `equiv-checker.c` | – | `equiv_checker_run`: shared memory, good hashes, then `run_interleavings` for 1, 2, … switches | demo programs |
| interleaver `interleaver.c` | `tids`, `instr_nums`, report (locals) | `run_interleavings`, `next_tid`, `find_shared_memory`, `find_good_hashes`, `init_threads`, `reset_threads` | driver |
| thread driver `equiv-threads.c` | `equiv_runq`, `cur_thread`, `schedule`, `shared_memory`, `ctx_switch_status`, the threads' saved registers | `equiv_fork`, `equiv_refresh`, `equiv_run`; the handlers `equiv_hash_handler`, `ctx_switch_handler`, `equiv_syscall_handler` | interleaver, tracker; traps |
| single stepping `mini-step.c` | the breakpoint registers (bvr) | `mismatch_on/off`, `mismatch_pc_set`, `mismatch_run`, `mismatch_fault` | thread driver; prefetch abort |
| tracker `equiv-rw-set.c` | `rw_tracker_enabled`, `current_tracker`, touch handler, domain access register | `arm`, `disarm`, `enable`, `disable`, data abort handler, `find_rw_set` | thread driver, interleaver; data abort |
| user runtime `staff-start.S`, `equiv-checker-util.h` | lock words | `sys_equiv_exit/yield/putc`, atomics, `secure_vibes`, `release_vibes` | functions under test |
| radix set `set.c` | 5-bit radix tree on the checker's heap | alloc, free, insert, lookup, foreach, copy, union, intersection (also in place) | tracker, interleaver, driver |
| heap `equiv-malloc.c` | blocks, free list, statistics | malloc, free, realloc, validate | sets, reports |
| hashing `memory.c`, `xxhash.h` | – | `hash_mem`, tags | interleaver |
| permutations `permutations.c` | – | all orders of the functions | driver |
| traps (`full-except*`, `switchto*`) | the trap frame at `INT_STACK_ADDR`, banked registers | save registers, call the handler, load registers | processor, thread driver |
| virtual memory (`equiv-mmu*`, `equiv-pt.c`, `mmu-asm.S`, `armv6-*`) | page table, domain access register | map the kernel and turn the MMU on, once | start-up |
| demo programs `1-basic.c` … `12-quantum-leap-rb.c` | their globals | the functions under test; a lock, a counter, a two-lock queue, a ring buffer | – |

**How they interact.** There is one processor and handlers run with interrupts
off, so the interleaving of interest is that of *traps*. Each user instruction can cause:

1. a mismatch fault *before* it, unless its address is in bvr: the step handler arms
   the tracker, makes the count the previous instruction asked for, and possibly
   switches threads; the fault handler then sets bvr to the instruction;
2. a data abort *in* it, if it accesses memory while the tracker is armed: the access is recorded,
   a count is asked for if the access is to shared memory and context switches remain, the
   tracker is disarmed, and the instruction starts again;
3. a swi, if it is one: exit, yield or putc, which saves the registers and may run
   another thread.

A count is thus asked for by one trap and made by a later one, with a restart, a
switch or a system call possibly in between. On top of it, `run_interleavings` does not know how
many shared accesses a thread makes: it increases the count of a segment until
a run no longer gets through its schedule, and derives the next schedule from how
far the run got.

**What must be right.** Thread driver and tracker: every shared access is
counted exactly once and switches come where the schedule says; no access is missed;
nothing is read through a cleared schedule or written outside the report; the run queue loses and
duplicates no thread; every run ends. Interleaver: every schedule that can be
run is run, none twice; what it reports is exactly what can happen; it ends. Heap: blocks
tile the heap, the free list holds exactly the free ones. Sets: the tree means
the set and owns its nodes. Traps: a thread goes on with the registers it left, and the
tracker records the bytes accessed, no more and no fewer. Locks: mutual exclusion under
every schedule the checker can produce.

`PROJECT.json` lists the hazards one by one, with the line where each bites and the
properties that watch it.

## 2. Modules

| module | models | remarks |
|---|---|---|
| `RunQueue` | `equiv_runq` as generated from `queue-ext-T.h` | pure operators; links are explicit, so inserting a thread twice does what the code does |
| `UserCode` | the code under test and `sys_equiv_*` | instructions over one register; assumes nothing of the functions except that branches stay inside |
| `EquivThreads` | one call of `equiv_run` with the three traps | the core; parameters `Programs`, `Schedules` |
| `ScheduledRun` | what `equiv_run` promises | abstract: atomic instructions, no traps, no queue |
| `Interleaver` | `run_interleavings` | EXTENDS `EquivThreads`; its step `Run` is the core's `Next` |
| `InterleaverReference` | – | which schedules the enumeration should run to their last switch, defined without traps, queue or enumeration |
| `PreemptionReference` | – | what it should report: the memories that preemptions at any instruction lead to; RECURSIVE, for TLC only |
| `EquivChecker` | `equiv_checker_run` with `find_shared_memory`, `find_rw_set`, `find_good_hashes`, `permute` | EXTENDS `Interleaver`; its runs are the core's, its calls the Interleaver's |
| `Allocator` | what the heap promises | abstract: disjoint pieces of memory |
| `EquivMalloc` | `equiv-malloc.c` | on its own; one iteration of a loop a step |
| `SetStore` | what `set.h` promises | abstract: sets behind handles |
| `RadixSet` | `set.c` | on its own; one call a step, nodes explicit; RECURSIVE, for TLC only |
| `XXH32` | the streamed 32-bit hash of `xxhash.h` as `memory.c` uses it | on its own; symbolic arithmetic |
| `VirtualMemory` | `procmap_default_mk`, `vm_map_kernel`, `set_data_faults` | what faults, and with which status |
| `TouchedBytes` | `get_touched_bytes` | the decoder against the instruction set |
| `TrapFrames` | trampolines, `switchto*`, the handlers' use of the frame | EXTENDS the two above |
| `VibeLock` | `atomic_compare_and_swap`, `secure_vibes`, `vibe_check`, `release_vibes` | over one exclusive monitor for all threads |
| `SharedCounter` | `7-vibes.c`, `8-more_vibes.c`, `11-armatomic.c` with `atomic_increment` | EXTENDS `VibeLock` |
| `TwoLockQueue` | `10-cq.c` | EXTENDS `VibeLock`, load by load and store by store |
| `BoundedFifo`, `RingBuf` | `12-quantum-leap-rb.c` | what it promises; the code, load by load and store by store |
| `MCEquivThreads`, `MCInterleaver`, `MCEquivChecker`, `MCEquivMalloc`, `MCTracker`, `MCDemos` | instances for TLC | functions, schedules, references that need finite sets; the last two put modules that share no state side by side, one of which runs |
| `EquivThreadsProofs`, `ScheduledRunProofs`, `InterleaverProofs`, `EquivMallocProofs`, `TrapFramesProofs`, `VibeLockProofs`, `RingBufProofs`, `XXH32Proofs` | theorems | TLAPS; see section 4 |

Two views of the traps. `EquivThreads` takes saving and loading of registers for granted and
shows *which* thread goes on and what is counted; `TrapFrames` leaves the choice of the thread
open and shows that registers, faults and recorded bytes are right whatever it is. They meet in
`SwitchTo`/`SysExit` there and `HandlePrefetch`/`HandleExit` here.

### EquivThreads and the code

`kpc` says where control is. Actions:

| action | code |
|---|---|
| `EquivRun`, `EnterFirst` | `equiv_run`, first thread entered with bvr = 0 |
| `Retrieve`, `Rotate`, `SwitchTo` | `retrieve_tid_from_queue` (one action per iteration), and the rest of `equiv_hash_handler` after it |
| `StepOnly`, `StepCount`, `StepSwitch` | `mismatch_fault` + `equiv_hash_handler`: nothing pending; count, stay; count, switch |
| `DataAbort` | `rw_tracker_data_abort_handler` + `ctx_switch_handler` |
| `Commit` | the instruction itself (processor, external) |
| `SysPutc`, `SysYield`, `SysExit` | `equiv_syscall_handler`, `equiv_schedule` |

The variables carry the names of the code. `regs` are the saved registers, `cpu` the live ones,
`armed` is the domain access register, `report` is `schedule->report->pcs` as a
function on the allocated cells `<<segment, access>>` (0-based as in C; the sequences
`tids` and `instr_counts` are 1-based). `text` is the program of each thread and never changes.

Abstractions: registers are a program counter and one accumulator of `WordLimit`
values; memory is a few words, and an instruction touches at most one of them
(`get_touched_bytes` can name several bytes; only whether they meet the shared set matters
to the handlers). Accesses to a thread's own stack fault like others: they are
accesses to words outside `shared_memory`. `verbose` is 3, its default, so that reports exist.
Stacks, `check_sp`, tracing and output are left out. When the last thread exits,
`equiv-threads.c:283` reads `th->verbose_p` through a null `th`; the read has no consequence
on this machine beyond an optional trace line and is not modelled.

### Interleaver and the code

`Call` is `run_interleavings` up to its loop. It pushes every thread twice, as `equiv_fork`
and the `reset_threads` after it do. `NextTid` is one iteration of `next_tid`, `StartRun` the lines up to
`equiv_run`, `Run` any step of `EquivThreads`, `FinishRun` the lines after it:
status, verdict, next schedule. `explored` is a history variable. Under `ILSpec` the shared
memory and the good hashes are given by operators (`SharedMemory`, `GoodHashes`) and the
call is the only one; under `CheckerSpec` they are found step by step and the calls follow
each other. `HashMem` is the content of the shared words, that is, hashes do not collide.

### EquivChecker and the code

`FindRwSet`, `RunFunction`, `FoundRwSet` are `find_rw_set` before, in and after its
`equiv_run`; `FindSharedMemory` the two loops of `find_shared_memory` and the union with the
caller's hint. `SerialCall`, `SerialStep`, `SerialReturn` are the loops of
`find_good_hashes`: the functions run in the kernel, untrapped, over the orders that `itl` lists in
the order in which `permute` writes them. `FirstCall`, `Interleavings`, `NextCall` are the loop
over the number of switches. As in the code, `init` is called before each order and before
each scheduled run, but *not* before the runs of `find_rw_set`, which meet what the
functions before them left.

### EquivMalloc and the code

The heap is a row of 4-byte words, the blocks start at the words where `size` is not 0. Each
variable of `heap_t` has its counterpart: `list.first`, `stats`, and the base 1. `list.link`
holds the words that may be links. A word in the hands of a client holds anything; the
model has one value for that, `WILD`, and stops in `pc = "wild"` when the code would follow such
a word or the null pointer, as what happens then is undefined. This covers the blocks that
`append_free_block` puts on an empty list without writing their links.

| action | code |
|---|---|
| `Malloc`, `Search`, `NotFound`, `Allocate` | `equiv_malloc`: up to the loop, one iteration, NULL, `allocate_block` with `trim_block_if_possible` and `remove_free_block` |
| `Free`, `Coalesce`, `Coalesced` | `equiv_free` up to `coalesce_right`, one iteration of that, its end |
| `Realloc`, `Absorb`, `ResizeInPlace`, `ResizeElsewhere` | `equiv_realloc` to the coalescing, the merge with the right block, the trim, the call of `equiv_malloc` (whose `Allocate` is followed by `Free` of the old block) |

Requests of 0 bytes or more than `MAX_REQUEST_SIZE` and null pointers return at
once and are left out. `asked` (words a client may use) and `exhausted` are history variables.
The checker is the only client; the model lets it ask in any order.
`equiv_realloc` has no caller there, but it is part of the interface.

### RadixSet and the code

One action per function of `set.c`; the functions themselves are recursive operators
that take the heap and return it. A node is named after the place it is allocated for (address
choice does not matter), so that two owners of one node, a pointer to a freed node and a lost
node are visible. `Base` and `MAX_OFFSET` are parameters (32 and six levels below
the root in the code). As in the checker's calls, the destination of copy, union and intersection is fresh and no set
is given twice to an operation that writes it; with aliases the code would loop or free what it
reads. What `set_insert` returns is the bit that its walk found in the leaf (`set.c:113-126`), non-zero if the value was
*present*. `Inserted` computes it on the way down, and the refinement compares it with
the abstract set. `find_good_hashes` relies on that (`interleaver.c:178`); the
comment at `set.h:70` has it the other way round (finding 3).

### XXH32 and the code

A lane is the sequence of words mixed into it, a byte is its position in the stream. `UpdateBuffers` and
`UpdateMixes` are the two ways through `XXH32_update`. `XXH32_reset` is never
called; the lanes start as `kmalloc` leaves them, 0.

### VirtualMemory, TouchedBytes, TrapFrames and the code

| action | code |
|---|---|
| `ProcmapDefaultMk`, `VmMapSec`, `VmMmuEnable` | `equiv_checker_init`: the map, one section, domains and MMU |
| `EquivRun` | `rw_tracker_init`, then `equiv_run` with `cswitchto_user_asm` |
| `PrefetchAbort`, `DataAbort`, `ExitSwi` | the processor enters an exception, the trampoline fills the frame |
| `Commit` | the instruction itself (processor, external) |
| `HandlePrefetch`, `HandleData`, `HandleExit` | the C handler and the `switchto` that ends it |

Before start-up the domain access register holds nothing or everything. `DataFaults` writes the
field at bit `user_dom`, as the code does: that this is the field of *domain* `kern_dom` is arithmetic
(1·2 = 2) and not a name. An instruction is the bit fields that the decoder looks at. The
instruction set (`Swap`, `Exclusive`, `Extra`, `Accessed`, …) and the processor (`Entered`, `Fault`, …) are marked
external in `PROJECT.json`. `r0`–`r12` are one value, `seen` and `accessed` are history variables.

### VibeLock, its clients, RingBuf and the code

Every load, store, ldrex and strex is a step of some thread, and any thread may be next: the checker
switches only after accesses to *shared* memory, so that its schedules are among these. The
monitor is the processor's and outlives a switch. What the manual leaves open is left open:
whether strex compares addresses, and whether a plain store to the tagged address clears the monitor (other
plain stores and exceptions do not; the variables updated inside a lock are never tagged). In `TwoLockQueue` a variable that the C text names again may be loaded again or taken from its
register (`Reread`). `func_consumer` of the ring buffer loops until `RingBuf_num_free` says the
buffer is empty, and that answer is settled when `head` is loaded: `outcome` is set there.

## 3. Runs

| run | instance | shows |
|---|---|---|
| `threads2` | 2 threads, 5 functions each (25 programs), all schedules of 1–3 switches with 1–2 accesses a segment, all 8 shared sets | counting, tracking, bounds, termination, refinement of `ScheduledRun` |
| `threads3` | 3 threads, 1–2 switches or, as in `find_rw_set`, no schedule; with yields and prints | the inductive invariant of the proofs; the queue under rotation; no panic but that of `putc`; refinement |
| `interleave3` | 3 threads of 3 functions (27 programs), 1–2 switches; any of them may make no shared access | queue drained and no exited thread running, from run to run; enumeration complete |
| `checker2` | the whole checker; 2 threads, 5 functions each or both with lock, yield loop and unlock (26 programs); calls with 1, 2 and 3 switches; with and without a hint | termination, a clean machine for every run, tracked sets, enumeration in order and complete, complete reports, verdict exact |
| `tracker` | the radix tree (three handles, two-way nodes, three levels, up to nine nodes); the hash (updates of 1, 3, 7, 16 and 37 bytes, up to 60); the machine (2 threads, every encoding of an access in thread 1) | sets and ownership of nodes; one hash however the stream is cut; registers, recorded bytes, the end of a run |
| `demos` | two counting threads of four; two producers and two consumers, or one of each with four calls; four elements through three slots; four threads of which two use locks | mutual exclusion, no lost update, order of the queues, termination |
| `heap` | 22 words, requests of 8, 24 and 40 bytes in any order, any frees and reallocs | blocks, free list, best fit, statistics, termination, refinement of `Allocator` |
| `printing` | a thread that prints under a schedule | **violation**: panic where the comment promises a switch |
| `zombie` | 2 threads, the last of which shares nothing | **violation**: an exited thread runs again |
| `setanswer` | the radix tree of `tracker` | **violation**: `set_insert` answers the opposite of its comment |
| `heapfull` | the instance of `heap` | **violation**: a request on a full heap reads through a null pointer |
| `lock3` | 3 threads; the trace needs one lock | **violation**: two threads hold it |

`CHECK_DEADLOCK FALSE` everywhere: `equiv_run`, `run_interleavings` and
`equiv_checker_run` return, the demo programs end, and the heap stops when it goes wild.

**Bounds.** `Addrs` has three words and `WordLimit` is 4, enough for two variables and a
lock and for increments that two threads can lose. Segments of 1 and 2 accesses
cover the two cases of the comparison with the count (`StepCount`, `StepSwitch`)
and the functions make 0 to 5 accesses, so that schedules end early, exactly and
late. Three threads are the least with which `retrieve_tid_from_queue` rotates (with
two the wanted one is at the head). In the Interleaver the counts are not bounded by the
model: they grow until a run falls short, which `CheckerEnds` checks.
`MaxAccesses` (6) bounds the reference set only and exceeds what any of the functions
makes in one segment. A `Locked` thread that finds the lock taken yields, which ends the
schedule; the holder is then on the queue and runs within one rotation, hence
`RunEnds`. In the heap, 22 words hold up to four blocks; of the three sizes (5, 7 and 11 words with
header) some requests fit exactly, some split and some leave an excess too small to split,
and a free finds free blocks on either side, on both or on none; 26 words give 405,095 instead of
54,310 states and the same answers.

In `tracker`, `Values` (0, 1 and 6 of the eight values of a three-level binary tree) share no, one
and two levels of their paths; with nine nodes, three sets can be live with one full operation between two of
them, and `MaxLost` = 2 nodes may be lost before an operation is cut off. `LengthLimit` = 40 lets
the length of a stream of 60 bytes wrap around, below a stripe as well, which is what `large_len` is
for. The first function of the machine makes one access of each of the 210 encodings, on the heap, on its own
section or on an unmapped one, then a second access; the second function is in the user section or, wrongly,
in the kernel's. In `demos`, `QUEUE_SIZE` and `end` are 3, so that indices wrap in both directions
and both full and empty are met.

**Fairness** is weak fairness of the whole next-state relation: the processor does
not stop. Nothing more is needed as, once a program and a schedule are chosen,
the system is deterministic. For the heap it is weak fairness of `Internal`: a call in
progress goes on, and no client has to make one. The machine of `TrapFrames` is a processor that does not
stop. For the counting programs it is weak fairness of each *thread*: a schedule is finite, and
after it (or after a yield, which gives it up) threads run in queue order to their exit or next yield, so that each gets its
turn; a strex then fails finitely often.

**What the interesting properties say.**

- `CommitsAreCounted`: at the moment an instruction commits, a count is pending
  if and only if it accesses shared memory while switches remain. Violated by any
  mix-up of restart, switch and count.
- `ImplementsScheduledRun`: seen without traps and queue, a run is one of atomic
  instructions in which the switch comes exactly after the scheduled number of
  shared accesses, exit and yield drop the plan, and no thread that exited runs again.
  The mapping counts an access as made as soon as it committed, although the
  code counts it at the next mismatch, and names as runner the thread being looked for.
- `EveryFeasibleScheduleRan` compares the schedules that got all their switches
  with a reference that executes each candidate in the abstract.
- `FlaggedAreTheReachable` justifies switching only after *shared* accesses: the invalid
  memories reported equal those reachable by as many preemptions at *any*
  instruction (executions that meet a taken lock excepted, which the code does not judge). It is stated
  for two threads, and under a condition: the shared memory must cover what the functions read
  and write on *every* path. Without the condition it is false. `find_rw_set` follows one path of each function;
  with the functions `Guarded` (stores to `y` only if it finds `x` set) and `Reader` of
  `MCEquivChecker`, and no hint, `y` is not found, and an invalid state that two switches
  reach is not reported. This is what the parameter `additional_shared_memory` is for.
- `FoundSetsAreTheAccesses`: faults and single steps collect exactly what each function reads
  and writes on the path it takes.
- `CleanBetweenRuns`: `find_rw_set`, the serial calls and `run_interleavings` share the tracker, the
  schedule and the queue and none leaves anything to the next.
- `ExitedNeverRuns`: it holds in `interleave3`, for all programs, and is violated in `zombie`. The doubly pushed list of the first
  run is a cycle with the last thread at its head. With three threads the first legal schedule starts with another
  one, and the rotation that finds it cuts the cycle. With two and an odd number of switches it starts with the last
  (2, 1, 2, …), nothing rotates before its first shared access, and if it makes none it exits and is popped again.
- `ImplementsSetStore`: through unions, intersections and the ghosts they leave, `set_lookup` sees the abstract sets, and
  `set_insert` answers whether the value was in.
- `MutualExclusion`: for *two* users of locks. It needs that no ldrex is executed while the lock is held
  (true of all the demos: critical sections hold plain loads and stores) and that there is no third user; see finding 5.
- `NoUpdateLost`: a counter that is updated under the lock, or once by each of two threads with `atomic_increment`, is the sum
  of the updates. A second `atomic_increment` of a thread, or a third thread, can lose an update, for
  the reason of finding 5; `11-armatomic.c` makes one each.
- `FifoUnlessRisky`: two locks, one for each end, are safe unless an enqueue and a dequeue overlap while fewer than two elements are
  in the queue, or the lock fails. Otherwise `front` and `rear` are
  written by both ends (`10-cq.c:51-53`, `66-68`) and elements are lost or read before they are written. The history
  variable `risky` marks exactly these overlaps, so that the property is a delimitation, not a bill of health.
- `ImplementsFifo`: the ring buffer answers "full" only when it is full and "empty" only when it is empty, *at the moment its answer is
  settled*, and hands each element out once, in order.
- `OnlyGhostsAreLost`: nodes are lost only if they were the copies that `set_intersection_inplace` puts
  under a bit it cleared; `ForeachAscends` and `ImplementsSetStore` show that these ghosts are never members, also
  not after later unions and insertions.
- `TrackedAreTouched`: what the tracker records are the bytes of kernel memory that committed accesses touched, for every
  encoding but the `Mistaken` ones: halfword, doubleword and signed-byte transfers with a negative offset (stores) or a
  register offset share bits 20-27 with swaps and exclusives, and are recorded with their sizes. On `ldrexb/h/d`
  and `strexb/h/d` the decoder panics. A swap is recorded as a write only, as the fault status has it.
- `MachineEnds`: a run ends if all functions are in the `.user` section. A function that is not (those of `10-cq.c` lack
  `EQUIV_USER`) never executes an instruction once the tracker is armed: the fetch faults, `mismatch_fault` does
  not ask why, arms the tracker again and returns to the same fetch.
- `StatsMatch`: the four counters of `heap_t` are the numbers of used and free blocks and of the words in their payloads,
  counted in the heap itself, through splits, merges and in-place reallocs.
- `FreeListExact`, `BestFit`: as long as some block is free, the links join the free blocks both ways,
  whatever clients leave in the words that become links, and the search sees them all.

**Findings.** (1) `putc` under an unfinished schedule panics
(`equiv-threads.c:84`) although the comment above describes a switch. (2) Since the threads are pushed
onto the queue three times (fork, reset, reset) before the first run of every call, its list is a cycle with the last thread at its head. With two functions and an odd number of switches that is the first
scheduled thread too (tids 2, 1, …); if it makes no shared access it exits, is popped again and continues
behind its exit swi. That run then counts as yielded; the later runs start from a drained queue. With three functions the first
schedule starts with another thread, and the rotation mends the list. With a single function, which no program passes, the
thread is linked to itself and the first run never ends.
(3) `set_insert` returns non-zero if the value was present; its comment (`set.h:70`) says the opposite. (4) `equiv_malloc` does not test for an empty free list
(`equiv-malloc.c:364-366`): a request on a full heap takes what lies at address 0 for a block.
Only a heap with one free block left, taken without a remainder, becomes that full. (5) With three
threads the vibe lock does not exclude: T1 is switched away between its ldrex, which saw the lock free, and its
strexeq; T2 takes the lock; T3's ldrex finds it taken and leaves the monitor set; T1's strexeq then succeeds.
`switchto_user_asm` has no `clrex`. One lock is enough for it. The program of `10-cq.c` has four threads on two locks (as
it stands its functions lack `EQUIV_USER`, so that it would have to be put right first to be run); the demos with
one lock have two threads, for which `LockExcludes` is a theorem.

## 4. Proofs

Every theorem holds for all values of the constants that satisfy the assumptions named in the modules. None of the properties is
inductive alone; each part below says what the inductive invariant adds and why it is needed.

### One call of `equiv_run`

For every number of threads, every set of programs and
schedules that satisfy the named assumptions (`NumFuncsAssumption`,
`WordLimitAssumption`, `ProgramsAssumption`: branches stay inside the function and
none is to itself; `SchedulesAssumption`: one tid more than counts, counts positive, and,
as `tids_valid` ensures, no tid twice in succession):

| module | theorem | property |
|---|---|---|
| `EquivThreadsProofs` | `ThreadsInvariant` | `ThreadsInv`, inductive |
| | `TypeCorrectness` | `TypeOK` |
| | `NoCountWithoutSchedule` | `CountPendingOnlyWhenActive` |
| | `ReportStaysInBounds` | `ReportInBounds` |
| | `EveryCommitIsCounted` | `CommitsAreCounted` |
| | `EveryAccessIsTracked` | `TrackedBeforeCommit` |
| | `RunInvariant` | `RunInv`, inductive relative to `ThreadsInv` |
| | `QueueIsComplete` | `QueueHoldsTheOthers` |
| | `ScheduledThreadIsFound` | `OnlyPutcPanics` |
| | `NothingRunsAfterExit` | `ExitedNeverRuns`, on a queue filled once |
| | `SilentCodeNeverPanics` | `NoPanic`, for functions without `putc` |
| `ScheduledRunProofs` | `RunKeepsThePromise` | the safety part of `ImplementsScheduledRun` |

`ThreadsInv` adds `TrackerInv`: whenever an
instruction starts (its address is bvr) the tracker is armed, unless the instruction
itself has just faulted, in which case it does access memory, the tracker
has it, and a count is pending if one is due; and a pending count implies exactly that
situation. It also adds `ControlInv`: pending counts exist only at user level, program
counters stay in the text, the report has the cells of the schedule. The key steps: `Commit` moves the
program counter away from bvr (`CommitFacts`; this is why a branch to itself is
excluded), so that the next instruction must take a mismatch fault, which
settles the count and arms; a swi touches no memory (`SyscallsTouchNothing`), so that
no count is pending when exit or yield clears the schedule (`AtSwi`); after a mismatch with a count pending,
the segment is not complete, so that the next cell exists (`CellFacts`).

`RunInv` says that some sequence of distinct threads is what the links spell (`IsList`), and which threads are on it:
exactly those that have not exited, less the one in hand, that is, running or just popped by the rotation. Popping and appending keep a list a list (`PoppedList`,
`AppendedList`) if the appended thread is not on it, which the content gives. Two more facts are needed for the
rotation to find its thread: while a schedule is in force nobody has exited (an exit clears it), so that
the wanted thread is on the list, it not being the running one; and
the wanted thread is in hand or ahead of the thread the rotation began with, so that it is met before that thread comes round. That a list of distinct
threads is no longer than there are threads (`ListIsShort`) is the pigeonhole principle of `FiniteSetTheorems`.

`RunKeepsThePromise` is the refinement, action by action: a commit that accesses shared memory is the abstract
step with its count (`CommitsAreCounted` says that the concrete count is then pending, and the mapping adds it), a mismatch, an
abort or an iteration of the rotation is a stutter, `SwitchTo` runs the thread that the abstract plan names
because the rotation finds it (`RunInv`). `MapInv` adds only that no rotation is in progress outside of one. The fairness of the abstract
specification is left to TLC (`threads2`, `threads3`).

### From run to run

`InterleaverProofs`, for every number of threads, functions, bound on the switches, and hint:

| theorem | property |
|---|---|
| `QueueIsDrained` | `QueueDrained` |
| `CheckerInvariant` | `CheckerInv`, inductive for the whole of `equiv_checker_run` |
| `RunsStartClean` | `CleanBetweenRuns` |
| `SchedulesAscend`, `NoScheduleIsRunTwice` | `ExploredInOrder`, and that the entries of `explored` are distinct |
| `EveryRunSeesTheAccesses` | `CommitsAreCounted`, `TrackedBeforeCommit`, `CountPendingOnlyWhenActive`, `ReportInBounds` in every run of a check |
| `GeneratedSchedules` | what `SchedulesAssumption` supposes, of the generated schedules |
| `LaterRunsAreSound` | `QueueHoldsTheOthers`, `OnlyPutcPanics`, `ExitedNeverRuns` in every run but the first |
| `ReportsAreFull` | every cell of a printed report was written, with a shared access of its thread |
| `ReportsTellTheRun` | `ReportTellsTheRun`, for functions without backward branches |
| `FoundSetsAreRight` | `FoundSetsAreTheAccesses`, for functions that end (`EndAlone`) |
| `FoundSetsOfForwardCode` | the same without a condition, for functions without backward branches |
| `SharedMemoryIsFound` | `shared` is what the hint and the found sets determine, for functions that end |
| `NothingIsSkipped` | every legal schedule with any counts was run, or agrees as far as that got with a run that fell short |
| `EverySchedule` | a schedule made all its switches in some run exactly if it does when played instruction by instruction (`Played`); no bound, no hypothesis |
| `FeasibleSchedulesRan` | `EveryFeasibleScheduleRan`, for more than one function and where its bounds suffice (`BoundsSuffice`) |
| `ItlIsComplete` | `permute` lists exactly the orders, for any number of functions |
| `ValidStatesAreSerial` | `ValidAreSerial`: the hashes compared with are those of every serial order, for functions that end (`EndInEveryOrder`) |
| `NoFalseAlarm` | no serial execution's hash is ever in `flagged`, for functions without backward branches |

The step lemmas of `EquivThreadsProofs` speak of one run from any state that satisfies `ThreadsInv`. `CheckerInv` carries them through a whole
check: `FindInv` (during `find_rw_set` and the serial calls) and `ILInv` (during `run_interleavings`) say where
`ThreadsInv` holds, with the shape of the schedule in force (`RunOK`), and what is idle between runs (no schedule, tracker off and
not armed, queue empty). `RunOK` asks less of a schedule than `SchedulesAssumption`, since the first run of a call with *one* function does
violate that assumption: no legal tids exist, `next_tid` overflows at once, and `interleaver.c:73` ignores its result. With more than one, `PlansInv` shows that `next_tid` cannot overflow before it
meets a legal sequence of tids: `Alternating` (…, 2, 1, 2, 1) is one, and tids pass it by only by reaching it. From the
second run of a call on, the queue was drained and then filled once, and `RunInv` holds; the first run is the exception of finding 2.

`OrderInv` compares schedules as the code enumerates them: by tids (last one most significant, `TidsBefore`) and, for equal tids,
by the counts up to the first that differs. The counts after a run agree with those before up to the segment reached and exceed
them there, which is all the order needs.

*Which schedules run.* `run_interleavings` learns how many accesses a thread can make only by asking for too many and falling short; it then
raises the count of an earlier segment. `CoverInv` says that nothing is lost by it: each legal schedule that comes before the one at hand in the order is
answered (`Answered`), by a run of its own or by a run with *k* < `ncs` switches that has its counts up to segment *k* and asks for no more than it
does in segment *k* + 1. Between the counts of one run and those of the next lie only schedules that this run answers (`BetweenCounts`),
`next_tid` steps over no legal tids (`BumpedSkipsNone`), and tids and counts start with the first. `NothingIsSkipped` is that much.

That a run that falls short speaks for the others needs what the runs do. `Played` is a schedule executed as
`ScheduledRun` would, instruction by instruction, from the initial state; `PlayInv` says that every state of a run, seen through
the refinement mapping of `ScheduledRun`, is one of the play of its schedule. A run with all its switches therefore shows that its
schedule gets through, and one with fewer that it gets stuck: the thread comes to a system call before its segment is complete
(`Outcome`). A schedule that asks for at least as much there gets stuck in the same place (`StuckTogether`), and none that is
stuck gets through (`StuckIsNotThrough`). With `NothingIsSkipped` this is `EverySchedule`. The property that TLC checks needs
bounds, on the accesses of a segment and on the steps of a play; `FeasibleSchedulesRan` has their
sufficiency as a hypothesis. It is true of the functions that TLC runs: none has more than 6 shared accesses or executes more than 12 instructions,
and the yielding ones stop.

`ReportInv` describes the cells of completed segments and of those counted so far in the current one. A cell is written by
the data abort and counted at the next mismatch; a restart in between writes the same cell again. `AscInv` adds that cells ascend, which needs
the assumption that functions have no loops: with one, a later access can have a lower address, and the report is right all the same.

*What `find_rw_set` finds.* `Execution` is a function run from start to end, instruction by instruction, without traps; `Accessed` are the words it
touches. `SoloInv` relates to it a thread that runs alone under `equiv_run`: after some number *k* of commits its
registers and the memory are those of `Execution` after *k* instructions, and the tracker holds the accesses of the first *k*, or of *k* + 1
while an aborted instruction is about to start again. That an access is in the tracker when it commits is
`TrackedBeforeCommit`, from `ThreadsInv`; a step that commits without it would
leave the tracker behind. `SetsInv` carries the result over the runs: those of earlier functions are settled, and
the memory a function starts on is `MemBefore`, what the ones before it left, since `init` is not called in between.
`Execution` covers as many steps as the function has instructions. A function that repeats none of them ends within these, and `EndAlone`
says that each does; all functions that TLC runs satisfy it, `Forward` ones always do (`ForwardEnds`). Where induction over the
steps is needed, the least counterexample is refuted instead (`NatHasLeast`).

*What `find_good_hashes` computes.* `SerialInv` says that after *k* functions of an order the memory is that of the first *k* run one after the other, and
that `valid_hashes` has those of the orders done. That `itl` lists every order is `ItlIsComplete`: from the innermost level
outwards, `permute` called with `arr` writes the orders that agree with `arr` before `start` (`WrittenFrom`), since each function that may come at
`start` is swapped there once (`EachLevel`) and an order is determined by all places but one (`LastLevel`). `NoFalseAlarm` follows: a run is
flagged only if its hash is not among them.

### The heap

`EquivMallocProofs`, for a heap of any number of words, any requests and any sequence of calls:

| theorem | property |
|---|---|
| `HeapInvariant` | `HeapInv`, inductive |
| `BlocksTile` | `Tiling` |
| `ClientsOwnUsedBlocks` | `LiveBlocks` |
| `ListIsExact` | `FreeListExact` |
| `SearchIsBestFit` | `BestFit` |
| `StatisticsAreRight` | `StatsMatch` |
| `HeapIsAnAllocator` | `ImplementsAllocator` |

The list is described twice. `Sound` always holds: no link leads anywhere but to a free block, to null or to what a client wrote, and
links in the two directions agree. It is enough for tiling, ownership and the refinement, also after finding 4 has struck. `Chain`
holds until the heap has been exhausted: a *rank* numbers the free blocks in the order of the list, so that `next` goes
to the next higher rank. Ranks replace the recursive walk along the list, about which
nothing could be proved: a block put at the head takes a rank below the others, a removed one leaves a gap, and a block that grows or shrinks
passes its rank on. `Sought` is the invariant of the search loop: the best so far is the best of all
free blocks of lower rank than the cursor. `CallInv` says what the locals of a call in progress mean, for instance that the block
of a realloc ends where the free block to be absorbed begins. `StatsInv` then follows from `Tiling`, since a split or a merge changes the
sets of blocks and of payload words by known disjoint pieces (`Booked`), the cardinalities of which `FiniteSetTheorems` adds up.

### Traps and the tracker

`TrapFramesProofs`, for any threads, functions and unmapped sections (`SectionsAssumption`, `TextsAssumption`):
`FramesInvariant` and from it `ThreadsResumeAsLeft` (`ResumesAsLeft`); `TrackInvariant` and from it `TrackedIsTouched` (`TrackedAreTouched`).

`FramesInv` says where the registers
of each thread are: the running thread's in the processor at user level and in the frame while a handler runs, in either case
equal to what it left; those of the others in `th->regs`; the kernel's in `start_regs`. The correction of `lr` by each trampoline cancels what the
exception added, the stack of the handler's mode never is the user's.

`TrackInv`, inductive relative to `FramesInv`, has `VMInv` (which sections are mapped, in which domain, and what the domain
access register holds when armed and when not: the handlers themselves cannot fault) and relates tracker and accesses: they are equal
(`Even`) except between an abort and the commit of the restarted instruction, when the tracker has one access more
(`Restarting`). That what is added is what is touched is `DecoderIsExact`, over all encodings that are not `Mistaken`.

### The hash of a stream

`XXH32Proofs`, for any sizes of words, stripes and updates and any point at which the length wraps around (`HashAssumption`):
`StreamInvariant` and from it `CutsDoNotMatter` (`DigestIsOneShot`). `StreamInv` says that the lanes have mixed all whole stripes of the
stream, that the buffer begins with the bytes after them, and that `large_len`
is set as soon as there was a stripe, also after `total_len_32` has wrapped around, which is why it has to be sticky. The work is in the arithmetic
of pieces: the stripes of a stream that is continued are those of its whole part and of the rest (`Advance`), be it that the buffer is
completed first or not. The lanes are described in closed form (`MixedAll`) and not as a fold, of which nothing could be proved here.

### Locks, counters and queues

| module | theorem | property |
|---|---|---|
| `VibeLockProofs` | `LockInvariant`, `LockExcludes` | `LockInv`; `MutualExclusion` |
| | `UpdatesAreKept` | `NoUpdateLost` |
| | `QueueInvariant`, `QueueOfTwoLocksIsFifo` | `QueueInv` unless risky; `FifoUnlessRisky` |
| `RingBufProofs` | `RingIsFifo` | `ImplementsFifo` |

*Lock*, for any sets of threads and locks. The strengthening is `StaleStrexFails`: while a thread holds the lock and another has an old ldrex of it that saw it free, the monitor is open.
With two users nobody can set it again: the holder executes no ldrex, and the other one has to take its strex first. Finding 5
is what a third one can do.

*Counters*. Under the lock (`LockedInv`) the holder's register is one update ahead of the counter as long as it is in the critical section. With
`atomic_increment` by two threads, once each (`AtomicInv`), a register that was loaded is one ahead too, or else the
monitor is open and no other thread has a call left in which it could set it, so that the strex fails.

*Two-lock queue*, for any number of threads and any size. The hard part is the middle of an enqueue and of a dequeue: `Writing` (the new cell is written, `rear` not yet moved) and
`Pointing` (the element is taken, `front` not yet moved) shift the correspondence between cells and elements by one (`gone`, `ShapeInv`); `EnqueueInv` and
`DequeueInv` say what each thread has in its registers, and `MeetInv` that while one end inserts the first element or removes the last, so that `front` and `rear` disagree, no thread of the other end is inside. The
theorem is conditional: it says nothing once `risky` holds.

*Ring buffer*, for any size and elements. `RingInv` says what producer and consumer may rely on between loads: a buffer that was
not full stays so until the producer publishes, an element that was there stays in its slot until the consumer gives it back, and
`head` and `tail` are each moved by one side only. The contents are the slots from `tail` to `head` (`ContentsOf`), which writing the slot at `head` does not
change (`Copied`). With it each step maps to a step of `BoundedFifo` or to none.

### Only model-checked

- Liveness (`RunEnds`, `CheckerEnds`, `CallsReturn`, `CountersEnd`, `MachineEnds`) and the fairness of `ImplementsScheduledRun`: out of the prover's reach.
- `FlaggedAreTheReachable`: the reference is a RECURSIVE operator that executes functions from start to end under every preemption. That no reported memory is
  a valid one is proved (`NoFalseAlarm`), and which schedules run (`EverySchedule`); that preemptions at other instructions lead to no other memories is not.
- `FoundSetsAreTheAccesses` of functions that go round a loop: `FoundSetsAreRight` has `EndAlone` as a hypothesis. Likewise the bounds of `EveryFeasibleScheduleRan`.
- The radix tree (`ForeachAscends`, `TreesAreOwned`, `OnlyGhostsAreLost`, `ImplementsSetStore`): recursive operators over trees.

## 5. Not modelled

- The failure of an allocation in the checker: callers panic (`set.c:13`) or do not test; `EquivMalloc` is not composed with them.
- `xxhash.h` beyond the streamed 32-bit hash: 64-bit, 128-bit and XXH3 code without a caller. The file is more than half of the repository's
  implementation lines, so that what the modules map is a small share of all lines and most of those that run.
- The arithmetic of the hash: collisions of 32 bits are possible and hide an invalid state (`interleaver.c:122`).
- Caches, TLB maintenance, coprocessor access (`mmu-asm.S`, `armv6-*`, most of `equiv-mmu.*`): set once before user code runs. `equiv_copy_user_data` is taken to copy the functions.
- Data accesses that cross a section, unaligned words, VFP; ldm and stm are taken to fault at their lowest address.
- Printing and tags. `find_pc_set`, `mini_step_run`, `equiv_fork_nostack`, `set_schedule`, `vibe_check`
  (modelled in `VibeLock` all the same) and the `memory_segments` functions have no caller in the checker. `state-space.c` no
  longer fits the interfaces; `set-test.c` prints.

## 6. Plan

Done: the thread driver and its abstract run, the interleaver, the whole checker, the heap, the sets, the hash, traps and virtual memory,
locks and demo programs; the proofs of section 4. What could come next, in this order:

1. Proofs: with one producer and one consumer no two threads ever meet at a lock of `10-cq.c`, so that there `risky` is the overlap alone.
2. Ownership of the nodes of the radix tree (`TreesAreOwned`), if `RadixSet` can do with recursive functions over a bounded
   depth in place of its RECURSIVE operators.
3. `EquivMalloc` under `RadixSet`: allocation failing in the middle of a set operation.
