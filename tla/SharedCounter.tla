-------------------------- MODULE SharedCounter --------------------------
(***************************************************************************)
(* The programs that count: 7-vibes.c, 8-more_vibes.c (an update of        *)
(* *global_var inside the lock) and 11-armatomic.c (atomic_increment, a    *)
(* retry loop around ldrex and strex), over the monitor of VibeLock.       *)
(***************************************************************************)
EXTENDS VibeLock

CONSTANTS
  cur_vibes,      \* the lock
  Global,         \* the address of *global_var
  Deltas,         \* what a function adds: 1 or 2, -1 in atomic_decrement
  Calls,          \* how often a thread runs its function
  WordLimit       \* 2^32 on the machine

ASSUME SharedCounterAssumption ==
  /\ cur_vibes \in Locks /\ Global \notin Locks \cup {Open}
  /\ Deltas \subseteq Int /\ Calls \in Nat /\ WordLimit \in Nat \ {0}

VARIABLES
  delta,          \* delta[t]: what the function of t adds; 0 if t has none
  global_var,     \* *global_var
  acc,            \* the register in which a thread adds, or Unread
  left,           \* calls to go
  added           \* history: the sum of what completed updates added

counterVars == <<delta, global_var, acc, left, added>>

Unread == -1

Counting(t) == delta[t] # 0

\* Two threads of either program; the functions of a program are alike.
CounterInit ==
  /\ Init
  /\ \E pair \in {ts \in Threads \X Threads : ts[1] # ts[2]} :
       /\ delta \in [Threads -> Deltas \cup {0}]
       /\ \A t \in Threads : Counting(t) <=> t \in {pair[1], pair[2]}
       /\ \E l \in {cur_vibes, NoLock} :
            want = [t \in Threads |-> IF Counting(t) THEN l ELSE NoLock]
  \* a single atomic_increment each; the loop is for increments only
  /\ left = [t \in Threads |-> IF ~ Counting(t) THEN 0 ELSE IF want[t] = NoLock THEN 1 ELSE Calls]
  /\ \A t \in Threads : Counting(t) /\ want[t] = NoLock => delta[t] = 1
  /\ global_var = 0 /\ added = 0
  /\ acc = [t \in Threads |-> Unread]

Sum(v, t) == (v + delta[t]) % WordLimit

\* non_intrinsic_atomic_increment, funcA: secure_vibes is called ...
CallFunction(t) ==
  /\ left[t] > 0 /\ Call(t)
  /\ left' = [left EXCEPT ![t] = @ - 1]
  /\ UNCHANGED <<delta, global_var, acc, added>>

Secure(t) == SecureVibes(t) /\ UNCHANGED counterVars

\* ... *ptr += delta is a load and a store ...
Load(t) ==
  /\ pc[t] = "cs" /\ acc[t] = Unread
  /\ acc' = [acc EXCEPT ![t] = Sum(global_var, t)]
  /\ UNCHANGED <<lockVars, delta, global_var, left, added>>

Store(t) ==
  /\ acc[t] # Unread /\ Leave(t)
  /\ global_var' = acc[t]
  /\ acc' = [acc EXCEPT ![t] = Unread]
  /\ added' = Sum(added, t)
  /\ UNCHANGED <<delta, left>>

ReleaseVibes(t) == Release(t) /\ UNCHANGED counterVars

\* atomic_increment: the ldrex and the add ...
LdrexAdd(t) ==
  /\ want[t] = NoLock /\ left[t] > 0 /\ acc[t] = Unread
  /\ acc' = [acc EXCEPT ![t] = Sum(global_var, t)]
  /\ monitor' = Global
  /\ UNCHANGED <<want, word, pc, reg, delta, global_var, left, added>>

\* Mutant of StrexAdded: no retry.
StrexAddedOnce(t) ==
  /\ want[t] = NoLock /\ acc[t] # Unread
  /\ monitor' = Open
  /\ acc' = [acc EXCEPT ![t] = Unread]
  /\ left' = [left EXCEPT ![t] = @ - 1] /\ added' = Sum(added, t)
  /\ \/ MayStore(Global) /\ global_var' = acc[t]
     \/ MayNotStore(Global) /\ UNCHANGED global_var
  /\ UNCHANGED <<want, word, pc, reg, delta>>

\* ... the strex, and bne 1b if it failed.
StrexAdded(t) ==
  /\ want[t] = NoLock /\ acc[t] # Unread
  /\ monitor' = Open
  /\ acc' = [acc EXCEPT ![t] = Unread]
  /\ \/ /\ MayStore(Global)
        /\ global_var' = acc[t] /\ added' = Sum(added, t)
        /\ left' = [left EXCEPT ![t] = @ - 1]
     \/ MayNotStore(Global) /\ UNCHANGED <<global_var, left, added>>
  /\ UNCHANGED <<want, word, pc, reg, delta>>

CounterStep(t) ==
  \/ CallFunction(t) \/ Secure(t) \/ Load(t) \/ Store(t) \/ ReleaseVibes(t)
  \/ LdrexAdd(t) \/ StrexAdded(t)

CounterNext == \E t \in Threads : CounterStep(t)

CounterSpec == CounterInit /\ [][CounterNext]_<<lockVars, counterVars>>

-----------------------------------------------------------------------------
\* No update is lost: *global_var is the sum of the completed ones.  With
\* atomic_increment this needs that each of the two threads does one only: a
\* second one can leave the monitor set for the stale strex of the other
\* thread.
NoUpdateLost == global_var = added

CountersFinish == \A t \in Threads : left[t] = 0 /\ pc[t] = "idle"
=============================================================================
