---------------------- MODULE PreemptionReference ----------------------
(***************************************************************************)
(* What run_interleavings should report: the memories that preemptions at  *)
(* any instruction lead to.  For TLC only.                                 *)
(***************************************************************************)
EXTENDS Interleaver

(***************************************************************************)
(* Reference: the final memories of all executions in which the running    *)
(* thread is preempted at most `left' times, at ANY instruction, whether   *)
(* it touches shared memory or not.  Executions in which a lock is found   *)
(* taken are left out, as in the code.                                     *)
(***************************************************************************)
RECURSIVE Finals(_, _, _, _)
Finals(ctx, m, t, left) ==
  LET f     == text[t]
      r     == ctx[t]
      alive == {u \in Tids \ {t} : ctx[u].pc <= ExitPc(text[u])}
      next  == [ctx EXCEPT ![t] = NextRegs(f, r, m)]
  IN  CASE Instr(f, r.pc).op = "yield" -> {}
        [] Instr(f, r.pc).op = "exit"  ->
             IF alive = {} THEN {m}
             ELSE UNION {Finals([ctx EXCEPT ![t].pc = @ + 1], m, u, left) : u \in alive}
        [] OTHER ->
             Finals(next, NextMem(f, r, m), t, left)
             \cup IF left = 0 THEN {}
                  ELSE UNION {Finals(next, NextMem(f, r, m), u, left - 1) : u \in alive}

Reachable ==
  {HashMem(m, shared) :
     m \in UNION {Finals([t \in Tids |-> InitRegs], InitMem, u, ncs) : u \in Tids}}

\* Of two threads, switching only after shared accesses finds every invalid
\* memory state that ncs preemptions at arbitrary instructions can lead to,
\* and what is reported can really happen - provided that the shared memory
\* holds every word one function may read and the other may write.
FlaggedAreTheReachable ==
  ipc = "returned" /\ SharedMemory(text) \subseteq shared =>
    flagged = Reachable \ GoodHashes(text, shared)
=============================================================================
