---------------------- MODULE InterleaverReference ----------------------
(***************************************************************************)
(* Which schedules run_interleavings should run to their last switch,      *)
(* defined without traps, queue or enumeration.                            *)
(***************************************************************************)
EXTENDS Interleaver

\* The least that can be said of a run: the registers of the threads, the
\* memory, the segment of the schedule, and the shared accesses made in it.
PlayStart ==
  [ctx |-> [t \in Tids |-> InitRegs], mem |-> InitMem, seg |-> 1, count |-> 0]

\* The thread whose turn it is executes an instruction, as in ScheduledRun,
\* until all switches are made or it makes a system call.
PlayStep(ts, counts, s) ==
  LET t == ts[s.seg]  r == s.ctx[t]  f == text[t]
      n == IF Touched(f, r.pc) \cap shared = {} THEN s.count ELSE s.count + 1
  IN  IF s.seg > ncs \/ Instr(f, r.pc).op \in Syscalls THEN s
      ELSE [ctx   |-> [s.ctx EXCEPT ![t] = NextRegs(f, r, s.mem)],
            mem   |-> NextMem(f, r, s.mem),
            seg   |-> IF n = counts[s.seg] THEN s.seg + 1 ELSE s.seg,
            count |-> IF n = counts[s.seg] THEN 0 ELSE n]

\* The schedule after n instructions.
Played(ts, counts, n) ==
  LET p[k \in 0..n] == IF k = 0 THEN PlayStart ELSE PlayStep(ts, counts, p[k-1])
  IN  p[n]

GotThrough(ts, counts, n) == Played(ts, counts, n).seg > ncs

\* Bounds of the reference: what a segment accesses, what a run executes.
MaxAccesses == 6
MaxSteps    == NumFuncs * 12

Feasible(ts, counts) == GotThrough(ts, counts, MaxSteps)

\* When run_interleavings returns, the schedules that made all their
\* switches are exactly the feasible ones: the search that learns how many
\* accesses a thread makes only by exceeding it misses none.
EveryFeasibleScheduleRan ==
  ipc = "returned" =>
    {<<e.tids, e.instr_counts>> : e \in {explored[i] : i \in {k \in DOMAIN explored : explored[k].made = ncs}}}
    = {s \in [1..(ncs+1) -> Tids] \X [1..ncs -> 1..MaxAccesses] :
         Adjacent(s[1]) /\ Feasible(s[1], s[2])}
=============================================================================
