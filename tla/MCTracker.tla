---------------------------- MODULE MCTracker ----------------------------
(***************************************************************************)
(* The machinery below the checker, for TLC: the sets of addresses, the    *)
(* hash of memory, and the traps that record accesses share no state, so   *)
(* that a behaviour runs one of them, told by part.                        *)
(***************************************************************************)
EXTENDS RadixSet, XXH32, TrapFrames

VARIABLE part
vars == <<part, setVars, hashVars, machineVars>>

\* Thread 1 makes an access of every kind, somewhere, and another one;
\* thread 2 makes one, and may be linked outside the user section.
Encodings ==
  {ins \in [type : {0, 2, 3, 4}, p : Bits, u : Bits, i : Bits, w : Bits, l : Bits,
            sh : 0..3, list : 0..2] : IsAccess(ins)}

Ldr == [type |-> 2, p |-> 1, u |-> 1, i |-> 0, w |-> 0, l |-> 1, sh |-> 0, list |-> 0]

TwoFunctions(ins, s, h) ==
  << [home |-> User, code |-> <<[ins |-> ins, at |-> s], [ins |-> Ldr, at |-> Stack]>>],
     [home |-> h,    code |-> <<[ins |-> Ldr, at |-> Heap]>>] >>

Accesses ==
  {TwoFunctions(ins, s, h) : ins \in Encodings, s \in {Heap, User} \cup Unmapped, h \in {User, Code}}

\* A part that is not run stands at one of its initial states.
IdleMachine ==
  /\ TFInit /\ text = TwoFunctions(Ldr, Heap, User) /\ cur_thread = 1 /\ dacr[0] = DOM_no_access

MCInit ==
  /\ SetInit /\ HashInit
  /\ \/ part \in {"set", "hash"} /\ IdleMachine
     \/ part = "machine" /\ TFInit

MCNext ==
  \/ part = "set"     /\ SetNext  /\ UNCHANGED <<part, hashVars, machineVars>>
  \/ part = "hash"    /\ HashNext /\ UNCHANGED <<part, setVars, machineVars>>
  \/ part = "machine" /\ TFNext   /\ UNCHANGED <<part, setVars, hashVars>>

\* Only the machine's end is claimed, so that only its steps are fair.
MCSpec == MCInit /\ [][MCNext]_vars /\ WF_vars(part = "machine" /\ MCNext)

\* FunctionsEnd, for the part that has it.
MachineEnds == <>(part = "machine" /\ Linked => Ended) /\ [](kpc = "returned" => Linked)
=============================================================================
