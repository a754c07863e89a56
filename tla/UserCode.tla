---------------------------- MODULE UserCode ----------------------------
(***************************************************************************)
(* What the checker needs to know of the code it runs at user level: the   *)
(* functions under test (EQUIV_USER functions of the demo programs) and    *)
(* the three entry points of staff-start.S:115-131 they return or call     *)
(* into.  A function is a sequence of instructions over one register acc;  *)
(* pc is an index into it.  The processor itself is external.              *)
(***************************************************************************)
EXTENDS Naturals, Sequences

CONSTANTS
  Addrs,        \* the words of kernel memory the functions may access
  WordLimit     \* registers and words hold 0..WordLimit-1: 2^32 on the machine

ASSUME WordLimitAssumption == WordLimit \in Nat \ {0}

Words == 0..(WordLimit - 1)

\* ld/st: one load or store of a tracked word.  add, mov: computation
\* on registers.  b, bz: branch, always or when acc is 0.  putc and yield: the
\* call of sys_equiv_putc / sys_equiv_yield, as its swi.
Instructions ==
       [op : {"ld", "st"}, a : Addrs]
  \cup [op : {"add", "mov"}, a : Words]
  \cup [op : {"b", "bz"}, a : Nat \ {0}]
  \cup [op : {"putc", "yield"}, a : {0}]

\* Where a function returns: lr is sys_equiv_exit, and behind its swi come
\* sys_equiv_yield, sys_equiv_putc and the bx lr that ends the latter.  A
\* thread resumed after its exit swi would fall into them.  (bx lr: lr is
\* still sys_equiv_exit in a function that calls nothing.)
Runtime == << [op |-> "exit", a |-> 0], [op |-> "yield", a |-> 0],
              [op |-> "putc", a |-> 0], [op |-> "bx_lr", a |-> 0] >>

Syscalls == {"exit", "putc", "yield"}

Instr(text, pc) ==
  IF pc <= Len(text) THEN text[pc] ELSE Runtime[pc - Len(text)]

ExitPc(text) == Len(text) + 1
Pcs(text) == 1..(Len(text) + Len(Runtime))

\* What the checker can tell about the instruction at pc.
Touched(text, pc) ==
  IF Instr(text, pc).op \in {"ld", "st"} THEN {Instr(text, pc).a} ELSE {}

Writes(text, pc) == Instr(text, pc).op = "st"

Taken(i, r) == i.op = "b" \/ (i.op = "bz" /\ r.acc = 0)

\* The registers after the instruction at r.pc committed, and the memory.
NextPc(text, r) ==
  LET i == Instr(text, r.pc)
  IN  IF i.op = "bx_lr" THEN ExitPc(text) ELSE IF Taken(i, r) THEN i.a ELSE r.pc + 1

NextAcc(text, r, m) ==
  LET i == Instr(text, r.pc)
  IN  IF i.op = "ld" THEN m[i.a]
      ELSE IF i.op = "add" THEN (r.acc + i.a) % WordLimit
      ELSE IF i.op = "mov" THEN i.a ELSE r.acc

NextRegs(text, r, m) == [pc |-> NextPc(text, r), acc |-> NextAcc(text, r, m)]

NextMem(text, r, m) ==
  IF Writes(text, r.pc) THEN [m EXCEPT ![Instr(text, r.pc).a] = r.acc] ELSE m

\* equiv_regs_init: entry point in pc, argument (NULL) in r0.
InitRegs == [pc |-> 1, acc |-> 0]

\* A function that may be given to the checker: its branches stay inside it
\* and none is a branch to itself (which would never trap).
Functions ==
  {f \in Seq(Instructions) : \A i \in DOMAIN f :
     f[i].op \in {"b", "bz"} => f[i].a \in (1..(Len(f) + 1)) \ {i}}
=============================================================================
