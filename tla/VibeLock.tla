---------------------------- MODULE VibeLock ----------------------------
(***************************************************************************)
(* The spin lock of equiv-checker-util.h, instruction by instruction.      *)
(*                                                                         *)
(* The checker may switch threads between any two user instructions, also  *)
(* between the ldrex and the strex of a compare-and-swap.  The processor   *)
(* keeps one local exclusive monitor.  It does not know of threads, and    *)
(* switchto_user_asm, which resumes a thread, has no clrex: a thread can   *)
(* meet a monitor that another one opened or closed.                       *)
(***************************************************************************)
EXTENDS Integers

CONSTANTS
  Threads,
  Locks,          \* the lock words (vibe_check_t)
  NoLock          \* for a thread that uses none

ASSUME NoLockAssumption == NoLock \notin Locks

UNLOCKED == 0
LOCKED   == 1

Open == "open"    \* the monitor: nothing is tagged for exclusive access

VARIABLES
  want,           \* the lock the functions of a thread use; never changes
  word,           \* the lock words
  monitor,        \* the address an ldrex tagged, or Open
  pc,             \* where a thread is
  reg             \* what its ldrex returned

lockVars == <<want, word, monitor, pc, reg>>

Pcs == {"idle", "ldrex", "strexeq", "yield", "cs", "release"}

TypeOK ==
  /\ want \in [Threads -> Locks \cup {NoLock}]
  /\ word \in [Locks -> {UNLOCKED, LOCKED}]
  /\ monitor \in Locks \cup {Open}
  /\ pc \in [Threads -> Pcs]
  /\ reg \in [Threads -> {UNLOCKED, LOCKED}]

\* vibe_init; no exclusive access is under way.
Init ==
  /\ want \in [Threads -> Locks \cup {NoLock}]
  /\ word = [l \in Locks |-> UNLOCKED]
  /\ monitor = Open
  /\ pc = [t \in Threads |-> "idle"]
  /\ reg = [t \in Threads |-> UNLOCKED]

Goto(t, where) == pc' = [pc EXCEPT ![t] = where]

-----------------------------------------------------------------------------
\* Mutant of MayStore: strex does not look at the monitor.
MayAlwaysStore(a) == TRUE

\* The monitor.  A strex succeeds if the monitor is set; whether it also has
\* to be set for the same address is left to the implementation, and so is
\* whether a plain store to the tagged address clears it.  Other plain stores
\* leave it, and no ldrex tags what the critical sections store to.
MayStore(a)     == monitor # Open
MayNotStore(a)  == monitor # a
AfterPlainStore == {monitor, Open}

\* secure_vibes or vibe_check is called.
Call(t) ==
  /\ pc[t] = "idle" /\ want[t] # NoLock
  /\ Goto(t, "ldrex")
  /\ UNCHANGED <<want, word, monitor, reg>>

\* atomic_compare_and_swap(lock, UNLOCKED, LOCKED): the ldrex ...
Ldrex(t) ==
  /\ pc[t] = "ldrex"
  /\ reg' = [reg EXCEPT ![t] = word[want[t]]]
  /\ monitor' = want[t]
  /\ Goto(t, "strexeq")
  /\ UNCHANGED <<want, word>>

\* ... and teq with strexeq.  If the lock was taken nothing is executed:
\* the status stays 1 and the monitor stays as it is.
Taken(t) ==
  /\ pc[t] = "strexeq" /\ reg[t] # UNLOCKED
  /\ Goto(t, "yield")
  /\ UNCHANGED <<want, word, monitor, reg>>

StrexSucceeds(t) ==
  /\ pc[t] = "strexeq" /\ reg[t] = UNLOCKED /\ MayStore(want[t])
  /\ word' = [word EXCEPT ![want[t]] = LOCKED]
  /\ monitor' = Open
  /\ Goto(t, "cs")
  /\ UNCHANGED <<want, reg>>

StrexFails(t) ==
  /\ pc[t] = "strexeq" /\ reg[t] = UNLOCKED /\ MayNotStore(want[t])
  /\ monitor' = Open
  /\ Goto(t, "yield")
  /\ UNCHANGED <<want, word, reg>>

\* Status 1: secure_vibes yields and tries again ...
Retry(t) ==
  /\ pc[t] = "yield"
  /\ Goto(t, "ldrex")
  /\ UNCHANGED <<want, word, monitor, reg>>

\* ... while vibe_check returns LOCKED.
GiveUp(t) ==
  /\ pc[t] = "yield"
  /\ Goto(t, "idle")
  /\ UNCHANGED <<want, word, monitor, reg>>

\* Mutant of Release: returns without a store to the lock.
ReleaseForgets(t) ==
  /\ pc[t] = "release"
  /\ Goto(t, "idle")
  /\ UNCHANGED <<want, word, monitor, reg>>

\* The critical section ends with release_vibes, a plain store.
Leave(t) ==
  /\ pc[t] = "cs"
  /\ Goto(t, "release")
  /\ UNCHANGED <<want, word, monitor, reg>>

Release(t) ==
  /\ pc[t] = "release"
  /\ word' = [word EXCEPT ![want[t]] = UNLOCKED]
  /\ monitor' \in AfterPlainStore
  /\ Goto(t, "idle")
  /\ UNCHANGED <<want, reg>>

CompareAndSwap(t) == Ldrex(t) \/ Taken(t) \/ StrexSucceeds(t) \/ StrexFails(t)

SecureVibes(t) == CompareAndSwap(t) \/ Retry(t)

Next ==
  \E t \in Threads : Call(t) \/ SecureVibes(t) \/ GiveUp(t) \/ Leave(t) \/ Release(t)

Spec == Init /\ [][Next]_lockVars

-----------------------------------------------------------------------------
Holding(t) == pc[t] \in {"cs", "release"}

\* Threads that share a lock are never in its critical section together.
Exclusive ==
  \A t, u \in Threads : t # u /\ Holding(t) /\ Holding(u) => want[t] # want[u]

\* No third thread uses a lock, this or another.
AtMostTwoUsers ==
  \A t, u, v \in {w \in Threads : want[w] # NoLock} : t = u \/ u = v \/ t = v

\* The lock of 7-vibes.c, 8-more_vibes.c and 9-stack.c excludes, whatever
\* instruction a switch comes after, as long as only two threads use locks.
\* A third one can leave the monitor set for a strex whose ldrex is stale.
MutualExclusion == AtMostTwoUsers => Exclusive

\* The inductive invariant: while a thread holds the lock, the other one
\* cannot be at a strexeq that would succeed.
StaleStrex(t) == pc[t] = "strexeq" /\ reg[t] = UNLOCKED

HolderLocks == \A t \in Threads : Holding(t) => word[want[t]] = LOCKED

StaleStrexFails ==
  \A t, u \in Threads :
    t # u /\ Holding(t) /\ StaleStrex(u) /\ want[t] = want[u] => monitor = Open

UsersWant == \A t \in Threads : pc[t] # "idle" => want[t] # NoLock

LockInv ==
  /\ TypeOK /\ UsersWant
  /\ AtMostTwoUsers => Exclusive /\ HolderLocks /\ StaleStrexFails
=============================================================================
