------------------------- MODULE VibeLockProofs -------------------------
(***************************************************************************)
(* The lock of equiv-checker-util.h excludes, for any number of threads    *)
(* and locks, if at most two of the threads use locks; the counters of the *)
(* demo programs lose no update, with the lock or with one                 *)
(* atomic_increment a thread; the queue with two locks is first in, first  *)
(* out unless its ends meet.                                               *)
(***************************************************************************)
EXTENDS SharedCounter, TwoLockQueue, SequenceTheorems, TLAPS

USE DEF UNLOCKED, LOCKED, Open

\* vibe_init establishes the invariant.
LEMMA LockInitially == Init => LockInv
<1>. SUFFICES ASSUME Init PROVE LockInv
  OBVIOUS
<1>1. TypeOK /\ UsersWant
  BY DEF Init, TypeOK, UsersWant, Pcs
<1>2. Exclusive /\ HolderLocks /\ StaleStrexFails
  BY DEF Init, Exclusive, HolderLocks, StaleStrexFails, Holding
<1>. QED
  BY <1>1, <1>2 DEF LockInv

\* What does not depend on the number of users.
LEMMA LockTypes == LockInv /\ [Next]_lockVars => TypeOK' /\ UsersWant' /\ want' = want
<1>. SUFFICES ASSUME LockInv, [Next]_lockVars
              PROVE  TypeOK' /\ UsersWant' /\ want' = want
  OBVIOUS
<1>. USE DEF LockInv, TypeOK, UsersWant, Pcs, Goto
<1>1. CASE UNCHANGED lockVars
  BY <1>1 DEF lockVars
<1>2. ASSUME NEW t \in Threads, Call(t) PROVE TypeOK' /\ UsersWant' /\ want' = want
  BY <1>2 DEF Call
<1>3. ASSUME NEW t \in Threads, Ldrex(t) PROVE TypeOK' /\ UsersWant' /\ want' = want
  <2>1. want[t] \in Locks
    BY <1>3 DEF Ldrex
  <2>. QED
    BY <1>3, <2>1 DEF Ldrex
<1>4. ASSUME NEW t \in Threads, Taken(t) PROVE TypeOK' /\ UsersWant' /\ want' = want
  BY <1>4 DEF Taken
<1>5. ASSUME NEW t \in Threads, StrexSucceeds(t) PROVE TypeOK' /\ UsersWant' /\ want' = want
  BY <1>5 DEF StrexSucceeds
<1>6. ASSUME NEW t \in Threads, StrexFails(t) PROVE TypeOK' /\ UsersWant' /\ want' = want
  BY <1>6 DEF StrexFails
<1>7. ASSUME NEW t \in Threads, Retry(t) PROVE TypeOK' /\ UsersWant' /\ want' = want
  BY <1>7 DEF Retry
<1>8. ASSUME NEW t \in Threads, GiveUp(t) PROVE TypeOK' /\ UsersWant' /\ want' = want
  BY <1>8 DEF GiveUp
<1>9. ASSUME NEW t \in Threads, Leave(t) PROVE TypeOK' /\ UsersWant' /\ want' = want
  BY <1>9 DEF Leave
<1>10. ASSUME NEW t \in Threads, Release(t) PROVE TypeOK' /\ UsersWant' /\ want' = want
  BY <1>10 DEF Release, AfterPlainStore
<1>. QED
  BY <1>1, <1>2, <1>3, <1>4, <1>5, <1>6, <1>7, <1>8, <1>9, <1>10
     DEF Next, SecureVibes, CompareAndSwap

\* The exclusion proper.  Of two users one holds the lock, so an ldrex of the
\* other one finds it locked, and the strex that took it closed the monitor.
LEMMA TwoUsersExclude ==
  LockInv /\ AtMostTwoUsers /\ [Next]_lockVars
    => (Exclusive /\ HolderLocks /\ StaleStrexFails)'
<1>. SUFFICES ASSUME LockInv, AtMostTwoUsers, [Next]_lockVars
              PROVE  (Exclusive /\ HolderLocks /\ StaleStrexFails)'
  OBVIOUS
<1>. DEFINE Goal == (Exclusive /\ HolderLocks /\ StaleStrexFails)'
<1>a. TypeOK /\ UsersWant /\ Exclusive /\ HolderLocks /\ StaleStrexFails
  BY DEF LockInv
<1>b. \A t, u, v \in Threads :
        pc[t] # "idle" /\ pc[u] # "idle" /\ pc[v] # "idle" => t = u \/ u = v \/ t = v
  BY <1>a DEF AtMostTwoUsers, UsersWant
<1>. USE DEF TypeOK, Exclusive, HolderLocks, StaleStrexFails, Holding, StaleStrex, Goto
<1>1. CASE UNCHANGED lockVars
  BY <1>1, <1>a DEF lockVars
<1>2. ASSUME NEW t \in Threads, Call(t) PROVE Goal
  BY <1>2, <1>a DEF Call
<1>3. ASSUME NEW t \in Threads, Ldrex(t) PROVE Goal
  <2>1. \A u \in Threads : Holding(u) /\ want[u] = want[t] => reg'[t] = LOCKED
    BY <1>3, <1>a DEF Ldrex
  <2>2. Exclusive' /\ HolderLocks'
    BY <1>3, <1>a DEF Ldrex
  <2>3. ASSUME NEW h \in Threads, NEW u \in Threads, h # u, Holding(h)', StaleStrex(u)',
               want'[h] = want'[u]
        PROVE  FALSE
    <3>1. Holding(h) /\ h # t
      BY <1>3, <2>3, <1>a DEF Ldrex
    <3>2. CASE u = t
      BY <1>3, <2>1, <2>3, <3>1, <3>2 DEF Ldrex
    <3>3. CASE u # t
      BY <1>3, <1>a, <1>b, <2>3, <3>1, <3>3 DEF Ldrex
    <3>. QED
      BY <3>2, <3>3
  <2>. QED
    BY <2>2, <2>3
<1>4. ASSUME NEW t \in Threads, Taken(t) PROVE Goal
  BY <1>4, <1>a DEF Taken
<1>5. ASSUME NEW t \in Threads, StrexSucceeds(t) PROVE Goal
  <2>1. \A h \in Threads : h # t /\ Holding(h) => want[h] # want[t]
    BY <1>5, <1>a DEF StrexSucceeds, MayStore
  <2>2. want[t] \in Locks
    BY <1>5, <1>a DEF StrexSucceeds, UsersWant
  <2>3. Exclusive' /\ HolderLocks'
    BY <1>5, <1>a, <2>1, <2>2 DEF StrexSucceeds
  <2>4. StaleStrexFails'
    BY <1>5 DEF StrexSucceeds
  <2>. QED
    BY <2>3, <2>4
<1>6. ASSUME NEW t \in Threads, StrexFails(t) PROVE Goal
  BY <1>6, <1>a DEF StrexFails
<1>7. ASSUME NEW t \in Threads, Retry(t) PROVE Goal
  BY <1>7, <1>a DEF Retry
<1>8. ASSUME NEW t \in Threads, GiveUp(t) PROVE Goal
  BY <1>8, <1>a DEF GiveUp
<1>9. ASSUME NEW t \in Threads, Leave(t) PROVE Goal
  BY <1>9, <1>a DEF Leave
<1>10. ASSUME NEW t \in Threads, Release(t) PROVE Goal
  <2>1. want[t] \in Locks
    BY <1>10, <1>a DEF Release, UsersWant
  <2>2. Exclusive' /\ HolderLocks'
    BY <1>10, <1>a, <2>1 DEF Release
  <2>3. StaleStrexFails'
    BY <1>10, <1>a DEF Release, AfterPlainStore
  <2>. QED
    BY <2>2, <2>3
<1>. QED
  BY <1>1, <1>2, <1>3, <1>4, <1>5, <1>6, <1>7, <1>8, <1>9, <1>10
     DEF Next, SecureVibes, CompareAndSwap

\* The strengthened invariant: a stale strex cannot succeed while the lock is
\* held.
THEOREM LockInvariant == Spec => []LockInv
<1>1. LockInv /\ [Next]_lockVars => LockInv'
  <2>. SUFFICES ASSUME LockInv, [Next]_lockVars PROVE LockInv'
    OBVIOUS
  <2>1. TypeOK' /\ UsersWant' /\ want' = want
    BY LockTypes
  <2>2. AtMostTwoUsers' = AtMostTwoUsers
    BY <2>1 DEF AtMostTwoUsers
  <2>. QED
    BY <2>1, <2>2, TwoUsersExclude DEF LockInv
<1>. QED
  BY LockInitially, <1>1, PTL DEF Spec

\* secure_vibes and release_vibes give two threads mutual exclusion although
\* the monitor outlives a context switch.
THEOREM LockExcludes == Spec => []MutualExclusion
<1>1. LockInv => MutualExclusion
  BY DEF LockInv, MutualExclusion
<1>. QED
  BY <1>1, LockInvariant, PTL

-----------------------------------------------------------------------------
(***************************************************************************)
(* The counters.  A program either uses the lock or atomic_increment; in   *)
(* either case at most two threads count.                                  *)
(***************************************************************************)
CounterTypes ==
  /\ delta \in [Threads -> Int] /\ left \in [Threads -> Int] /\ acc \in [Threads -> Int]
  /\ want \in [Threads -> Locks \cup {NoLock}]
  /\ global_var \in Int

\* With the lock: what a register holds is one update ahead of *global_var as
\* long as its thread is in the critical section.
LockedInv ==
  /\ LockInv /\ AtMostTwoUsers
  /\ \A t \in Threads : want[t] \in {cur_vibes, NoLock}
  /\ \A t \in Threads : want[t] = NoLock => left[t] = 0
  /\ \A t \in Threads : acc[t] # Unread => pc[t] = "cs" /\ acc[t] = Sum(global_var, t)

\* With atomic_increment: if it is not, the monitor is open and no other
\* thread has a call left in which it could set it again.
AtomicInv ==
  /\ \A t \in Threads : want[t] = NoLock /\ pc[t] = "idle"
  /\ \A t \in Threads : left[t] \in {0, 1}
  /\ \A t, u, v \in Threads :
       left[t] = 1 /\ left[u] = 1 /\ left[v] = 1 => t = u \/ u = v \/ t = v
  /\ \A t \in Threads : acc[t] # Unread => left[t] = 1
  /\ \A t \in Threads : acc[t] # Unread =>
       \/ acc[t] = Sum(global_var, t)
       \/ monitor = Open /\ \A u \in Threads : u # t => left[u] = 0

CounterInv == CounterTypes /\ NoUpdateLost /\ (LockedInv \/ AtomicInv)

\* A register holds a number.
LEMMA SumIsInt == ASSUME CounterTypes, NEW t \in Threads, NEW v \in Int PROVE Sum(v, t) \in Int
BY SharedCounterAssumption DEF CounterTypes, Sum

\* Two counting threads at the start of a program.
LEMMA CounterStarts == CounterInit => CounterInv
<1>. SUFFICES ASSUME CounterInit PROVE CounterInv
  OBVIOUS
<1>1. PICK a \in Threads, b \in Threads, l \in {cur_vibes, NoLock} :
        /\ delta \in [Threads -> Deltas \cup {0}]
        /\ \A t \in Threads : Counting(t) <=> t \in {a, b}
        /\ want = [t \in Threads |-> IF Counting(t) THEN l ELSE NoLock]
  <2>1. PICK pair \in {ts \in Threads \X Threads : ts[1] # ts[2]} :
          /\ delta \in [Threads -> Deltas \cup {0}]
          /\ \A t \in Threads : Counting(t) <=> t \in {pair[1], pair[2]}
          /\ \E l \in {cur_vibes, NoLock} :
               want = [t \in Threads |-> IF Counting(t) THEN l ELSE NoLock]
    BY DEF CounterInit
  <2>. QED
    BY <2>1
<1>2. CounterTypes /\ NoUpdateLost
  <2>1. delta \in [Threads -> Int]
    <3>1. delta \in [Threads -> Deltas \cup {0}]
      BY <1>1
    <3>2. \A d \in Deltas \cup {0} : d \in Int
      BY SharedCounterAssumption
    <3>. QED
      BY <3>1, <3>2
  <2>4. want \in [Threads -> Locks \cup {NoLock}]
    BY DEF CounterInit, Init
  <2>2. left \in [Threads -> Int]
    <3>. DEFINE of(t) == IF ~ Counting(t) THEN 0 ELSE IF want[t] = NoLock THEN 1 ELSE Calls
    <3>1. left = [t \in Threads |-> of(t)]
      BY DEF CounterInit
    <3>2. \A t \in Threads : of(t) \in Int
      BY SharedCounterAssumption
    <3>. HIDE DEF of
    <3>. QED
      BY <3>1, <3>2
  <2>3. acc \in [Threads -> Int] /\ global_var = 0 /\ added = 0
    BY DEF CounterInit, Unread
  <2>. QED
    BY <2>1, <2>2, <2>3, <2>4 DEF CounterTypes, NoUpdateLost
<1>3. acc = [t \in Threads |-> Unread] /\ Init
  BY DEF CounterInit
<1>4. CASE l = cur_vibes
  <2>1. \A t \in Threads : want[t] # NoLock <=> t \in {a, b}
    BY <1>1, <1>4, SharedCounterAssumption, NoLockAssumption
  <2>2. AtMostTwoUsers
    BY <2>1 DEF AtMostTwoUsers
  <2>3. \A t \in Threads : want[t] = NoLock => left[t] = 0
    BY <1>1, <2>1 DEF CounterInit
  <2>. QED
    BY <1>1, <1>2, <1>3, <1>4, <2>2, <2>3, LockInitially DEF CounterInv, LockedInv
<1>5. CASE l = NoLock
  <2>1. \A t \in Threads : want[t] = NoLock
    BY <1>1, <1>5
  <2>2. \A t \in Threads : pc[t] = "idle"
    BY <1>3 DEF Init
  <2>3. \A t \in Threads : left[t] = IF t \in {a, b} THEN 1 ELSE 0
    BY <1>1, <2>1 DEF CounterInit
  <2>. QED
    BY <1>2, <1>3, <2>1, <2>2, <2>3 DEF CounterInv, AtomicInv
<1>. QED
  BY <1>4, <1>5

\* The steps of a program that uses the lock.
LEMMA LockedSteps ==
  ASSUME CounterTypes, NoUpdateLost, LockedInv, NEW t \in Threads, CounterStep(t)
  PROVE  CounterTypes' /\ NoUpdateLost' /\ LockedInv'
<1>. USE DEF CounterTypes, NoUpdateLost, counterVars
<1>a. /\ LockInv /\ AtMostTwoUsers
      /\ \A u \in Threads : want[u] \in {cur_vibes, NoLock}
      /\ \A u \in Threads : want[u] = NoLock => left[u] = 0
      /\ \A u \in Threads : acc[u] # Unread => pc[u] = "cs" /\ acc[u] = Sum(global_var, u)
  BY DEF LockedInv
<1>b. UsersWant /\ TypeOK /\ Exclusive
  BY <1>a DEF LockInv
<1>c. ASSUME [Next]_lockVars
      PROVE  LockInv' /\ AtMostTwoUsers' /\ want' = want
  <2>1. want' = want
    BY <1>a, <1>c, LockTypes
  <2>2. AtMostTwoUsers' /\ TypeOK' /\ UsersWant'
    BY <1>a, <1>c, <2>1, LockTypes DEF AtMostTwoUsers
  <2>. QED
    BY <1>a, <1>c, <2>1, <2>2, TwoUsersExclude DEF LockInv
<1>1. CASE CallFunction(t)
  <2>1. Next
    BY <1>1 DEF CallFunction, Next
  <2>2. left' = [left EXCEPT ![t] = left[t] - 1] /\ UNCHANGED <<delta, global_var, acc, added>>
    BY <1>1 DEF CallFunction
  <2>3. want[t] # NoLock /\ pc[t] = "idle" /\ pc' = [pc EXCEPT ![t] = "ldrex"]
    BY <1>1 DEF CallFunction, Call, Goto
  <2>4. \A u \in Threads : acc[u] # Unread => pc'[u] = "cs"
    BY <1>a, <1>b, <2>3 DEF TypeOK
  <2>. QED
    BY <1>a, <1>c, <2>1, <2>2, <2>3, <2>4 DEF LockedInv, Sum
<1>2. CASE Secure(t)
  <2>1. Next
    BY <1>2 DEF Secure, Next
  <2>2. UNCHANGED <<delta, global_var, acc, left, added>>
    BY <1>2 DEF Secure
  <2>3. pc[t] # "cs" /\ \A u \in Threads : u # t => pc'[u] = pc[u]
    BY <1>2, <1>b DEF Secure, SecureVibes, CompareAndSwap, Ldrex, Taken, StrexSucceeds,
       StrexFails, Retry, Goto, TypeOK
  <2>. QED
    BY <1>a, <1>c, <2>1, <2>2, <2>3 DEF LockedInv, Sum
<1>3. CASE Load(t)
  <2>1. UNCHANGED lockVars /\ UNCHANGED <<delta, global_var, left, added>>
        /\ acc' = [acc EXCEPT ![t] = Sum(global_var, t)] /\ pc[t] = "cs"
    BY <1>3 DEF Load
  <2>2. Sum(global_var, t) \in Int
    BY SumIsInt
  <2>3. acc' \in [Threads -> Int] /\ CounterTypes'
    BY <2>1, <2>2 DEF lockVars
  <2>4. \A u \in Threads : acc'[u] # Unread => pc'[u] = "cs" /\ acc'[u] = Sum(global_var, u)
    BY <1>a, <2>1 DEF lockVars
  <2>. QED
    BY <1>a, <1>c, <2>1, <2>3, <2>4 DEF LockedInv, Sum
<1>4. CASE Store(t)
  <2>1. Leave(t) /\ acc[t] # Unread /\ UNCHANGED <<delta, left>>
        /\ global_var' = acc[t] /\ acc' = [acc EXCEPT ![t] = Unread] /\ added' = Sum(added, t)
    BY <1>4 DEF Store
  <2>2. Next
    BY <2>1 DEF Next
  <2>3. acc[t] = Sum(global_var, t) /\ pc[t] = "cs"
    BY <1>a, <2>1
  <2>4. \A u \in Threads : u # t => acc[u] = Unread
    <3>1. \A u \in Threads : pc[u] = "cs" => want[u] = cur_vibes
      BY <1>a, <1>b DEF UsersWant
    <3>. QED
      BY <1>a, <1>b, <2>3, <3>1 DEF Exclusive, Holding
  <2>5. \A u \in Threads : acc'[u] = Unread
    BY <2>1, <2>4
  <2>6. acc' \in [Threads -> Int] /\ global_var' \in Int /\ NoUpdateLost'
    BY <2>1, <2>3, SumIsInt DEF Unread
  <2>. QED
    BY <1>a, <1>c, <2>1, <2>2, <2>5, <2>6 DEF LockedInv
<1>5. CASE ReleaseVibes(t)
  <2>1. Next
    BY <1>5 DEF ReleaseVibes, Next
  <2>2. UNCHANGED <<delta, global_var, acc, left, added>>
    BY <1>5 DEF ReleaseVibes
  <2>3. pc[t] = "release" /\ \A u \in Threads : u # t => pc'[u] = pc[u]
    BY <1>5, <1>b DEF ReleaseVibes, Release, Goto, TypeOK
  <2>. QED
    BY <1>a, <1>c, <2>1, <2>2, <2>3 DEF LockedInv, Sum
<1>6. CASE LdrexAdd(t) \/ StrexAdded(t)
  <2>1. want[t] = NoLock /\ (left[t] > 0 \/ acc[t] # Unread)
    BY <1>6 DEF LdrexAdd, StrexAdded
  <2>. QED
    BY <1>a, <1>b, <2>1 DEF UsersWant
<1>. QED
  BY <1>1, <1>2, <1>3, <1>4, <1>5, <1>6 DEF CounterStep

\* The steps of a program that uses atomic_increment.
LEMMA AtomicSteps ==
  ASSUME CounterTypes, NoUpdateLost, AtomicInv, NEW t \in Threads, CounterStep(t)
  PROVE  CounterTypes' /\ NoUpdateLost' /\ AtomicInv'
<1>. USE DEF CounterTypes, NoUpdateLost
<1>a. /\ \A u \in Threads : want[u] = NoLock /\ pc[u] = "idle"
      /\ \A u \in Threads : left[u] \in {0, 1}
      /\ \A u, v, w \in Threads :
           left[u] = 1 /\ left[v] = 1 /\ left[w] = 1 => u = v \/ v = w \/ u = w
      /\ \A u \in Threads : acc[u] # Unread => left[u] = 1
      /\ \A u \in Threads : acc[u] # Unread =>
           \/ acc[u] = Sum(global_var, u)
           \/ monitor = Open /\ \A v \in Threads : v # u => left[v] = 0
  BY DEF AtomicInv
<1>1. LdrexAdd(t) \/ StrexAdded(t)
  BY <1>a DEF CounterStep, CallFunction, Secure, Load, Store, ReleaseVibes, Call, SecureVibes,
     CompareAndSwap, Ldrex, Taken, StrexSucceeds, StrexFails, Retry, Leave, Release
<1>2. CASE LdrexAdd(t)
  <2>1. /\ left[t] > 0 /\ acc' = [acc EXCEPT ![t] = Sum(global_var, t)]
        /\ UNCHANGED <<want, pc, delta, global_var, left, added>>
    BY <1>2 DEF LdrexAdd
  <2>2. left[t] = 1 /\ acc' \in [Threads -> Int]
    BY <1>a, <2>1, SumIsInt
  <2>3. \A u \in Threads : acc'[u] # Unread => acc'[u] = Sum(global_var, u)
    BY <1>a, <2>1, <2>2
  <2>4. \A u \in Threads : acc'[u] # Unread => left[u] = 1
    BY <1>a, <2>1, <2>2
  <2>. QED
    BY <1>a, <2>1, <2>2, <2>3, <2>4 DEF AtomicInv, Sum
<1>3. CASE StrexAdded(t)
  <2>1. /\ acc[t] # Unread /\ monitor' = Open /\ acc' = [acc EXCEPT ![t] = Unread]
        /\ UNCHANGED <<want, pc, delta>>
    BY <1>3 DEF StrexAdded
  <2>2. /\ acc' \in [Threads -> Int] /\ acc'[t] = Unread
        /\ \A u \in Threads : u # t => acc'[u] = acc[u]
    BY <2>1 DEF Unread
  <2>3. CASE /\ MayStore(Global) /\ global_var' = acc[t] /\ added' = Sum(added, t)
             /\ left' = [left EXCEPT ![t] = left[t] - 1]
    <3>1. acc[t] = Sum(global_var, t) /\ left[t] = 1
      BY <1>a, <2>1, <2>3 DEF MayStore
    <3>2. /\ left'[t] = 0 /\ left' \in [Threads -> Int]
          /\ \A u \in Threads : u # t => left'[u] = left[u]
      BY <2>3, <3>1
    <3>3. ASSUME NEW u \in Threads, acc'[u] # Unread
          PROVE  /\ left'[u] = 1
                 /\ \A v \in Threads : v # u => left'[v] = 0
      <4>1. u # t /\ left[u] = 1
        BY <1>a, <2>2, <3>3
      <4>2. \A v \in Threads : v # u /\ v # t => left[v] = 0
        BY <1>a, <3>1, <4>1
      <4>. QED
        BY <3>2, <4>1, <4>2
    <3>4. NoUpdateLost' /\ CounterTypes'
      BY <2>1, <2>2, <2>3, <3>1, <3>2, SumIsInt
    <3>5. \A u \in Threads : left'[u] \in {0, 1}
      BY <1>a, <3>2
    <3>6. \A u, v, w \in Threads :
            left'[u] = 1 /\ left'[v] = 1 /\ left'[w] = 1 => u = v \/ v = w \/ u = w
      BY <1>a, <3>2
    <3>. QED
      BY <1>a, <2>1, <3>3, <3>4, <3>5, <3>6 DEF AtomicInv
  <2>4. CASE UNCHANGED <<global_var, left, added>>
    <3>1. \A u \in Threads : acc'[u] # Unread =>
            \/ acc'[u] = Sum(global_var, u)
            \/ \A v \in Threads : v # u => left[v] = 0
      BY <1>a, <2>2
    <3>2. \A u \in Threads : acc'[u] # Unread => left[u] = 1
      BY <1>a, <2>2
    <3>. QED
      BY <1>a, <2>1, <2>2, <2>4, <3>1, <3>2 DEF AtomicInv, Sum
  <2>. QED
    BY <1>3, <2>3, <2>4 DEF StrexAdded
<1>. QED
  BY <1>1, <1>2, <1>3

\* A counter that two threads update under the vibe lock, or by one
\* atomic_increment each, is the sum of the updates that completed.
THEOREM UpdatesAreKept == CounterSpec => []NoUpdateLost
<1>1. CounterInv /\ [CounterNext]_<<lockVars, counterVars>> => CounterInv'
  <2>1. CounterInv /\ CounterNext => CounterInv'
    BY LockedSteps, AtomicSteps DEF CounterInv, CounterNext
  <2>2. CounterInv /\ UNCHANGED <<lockVars, counterVars>> => CounterInv'
    <3>. SUFFICES ASSUME CounterInv, UNCHANGED <<lockVars, counterVars>> PROVE CounterInv'
      OBVIOUS
    <3>1. CounterTypes' /\ NoUpdateLost'
      BY DEF CounterInv, CounterTypes, NoUpdateLost, lockVars, counterVars
    <3>2. CASE LockedInv
      <4>1. LockInv' /\ AtMostTwoUsers'
        BY <3>2, LockTypes, TwoUsersExclude DEF LockedInv, LockInv, AtMostTwoUsers, lockVars
      <4>. QED
        BY <3>1, <3>2, <4>1 DEF CounterInv, LockedInv, lockVars, counterVars, Sum
    <3>3. CASE AtomicInv
      BY <3>1, <3>3 DEF CounterInv, AtomicInv, lockVars, counterVars, Sum
    <3>. QED
      BY <3>2, <3>3 DEF CounterInv
  <2>. QED
    BY <2>1, <2>2
<1>2. CounterInv => NoUpdateLost
  BY DEF CounterInv
<1>. QED
  BY CounterStarts, <1>1, <1>2, PTL DEF CounterSpec

-----------------------------------------------------------------------------
(***************************************************************************)
(* The queue of 10-cq.c.  Between the accesses of an enqueue and a dequeue *)
(* the elements from front to rear are the ones accepted and not taken,    *)
(* but for one that is not written yet and one that is read and not yet    *)
(* removed.                                                                *)
(***************************************************************************)
\* The positions of a circular array, from f on, and how many up to r.
Pos(f, i)      == IF f + i - 1 < QUEUE_SIZE THEN f + i - 1 ELSE f + i - 1 - QUEUE_SIZE
Distance(f, r) == IF r >= f THEN r - f + 1 ELSE r + QUEUE_SIZE - f + 1

InEnqueue == {"test_full", "test_first", "set_front", "reload", "set_rear", "write"}
InDequeue == {"read", "test_last", "reset_front", "reset_rear", "set_next"}

QueueTypes ==
  /\ want \in [Threads -> Locks \cup {NoLock}] /\ pc \in [Threads -> Pcs]
  /\ at \in [Threads -> {"out", "begin", "return"} \cup InEnqueue \cup InDequeue]
  /\ idx \in [Threads -> Cells \cup {None}]
  /\ front \in Cells \cup {None} /\ rear \in Cells \cup {None}
  /\ data \in [Cells -> Nat]

HistoryInv ==
  /\ accepted \in Seq(Nat) /\ taken \in Seq(Nat)
  /\ \A i \in 1..Len(accepted) : accepted[i] = i
  /\ \A i \in 1..Len(taken) : taken[i] = i

\* Where the threads are.
PlacesInv ==
  \A t \in Threads :
    /\ at[t] # "out" <=> Holding(t)
    /\ pc[t] = "release" => at[t] = "return"
    /\ at[t] \in InEnqueue => Enqueues(t)
    /\ at[t] \in InDequeue => Dequeues(t)

\* The first element is being inserted.
Half == front # None /\ rear = None

\* An element is counted but not yet written, or read but not yet removed.
Writing  == \E t \in Threads : at[t] = "write"
Pointing == \E t \in Threads : at[t] \in {"test_last", "reset_front", "set_next"}

gone == IF Pointing THEN Len(taken) - 1 ELSE Len(taken)

ShapeInv ==
  /\ front = None => Len(accepted) = Len(taken)
  /\ Half => front = 0 /\ Len(accepted) = Len(taken)
  /\ front # None /\ rear # None =>
       /\ Len(accepted) = gone + Distance(front, rear)
       /\ \A i \in 1..Distance(front, rear) :
            (Writing /\ i = Distance(front, rear)) \/ data[Pos(front, i)] = gone + i

\* What a thread in queue_enqueue or queue_dequeue has found out still holds.
EnqueueInv(t) ==
  /\ Enqueues(t) /\ at[t] \in {"begin", "test_full", "test_first", "set_front", "write", "return"} => ~ Half
  /\ at[t] \in {"test_full", "test_first", "set_front", "reload", "write"} => idx[t] = rear
  /\ at[t] = "set_front" => front = None
  /\ at[t] \in {"reload", "set_rear", "write"} => front # None
  /\ at[t] \in {"test_first", "reload", "set_rear"} /\ front # None /\ rear # None =>
       Distance(front, rear) < QUEUE_SIZE
  /\ at[t] = "set_rear" => idx[t] = Next1(rear)
  /\ at[t] = "write" => rear # None

DequeueInv(t) ==
  /\ at[t] \in {"read", "test_last", "reset_front", "set_next"} =>
       front # None /\ rear # None /\ idx[t] = front
  /\ at[t] = "reset_front" => front = rear
  /\ at[t] = "reset_rear" => front = None
  /\ at[t] = "set_next" => front # rear

MeetInv ==
  /\ Half => \E t \in Threads : at[t] \in {"reload", "set_rear"}
  /\ Half => \A u \in Threads : Dequeues(u) => at[u] = "out"
  /\ front = None /\ rear # None => \E t \in Threads : at[t] = "reset_rear"
  /\ \A t, u \in Threads : at[t] \in {"reset_front", "reset_rear"} /\ Enqueues(u) => at[u] = "out"

QueueInv ==
  /\ QueueTypes /\ HistoryInv /\ Exclusive /\ PlacesInv /\ ShapeInv /\ MeetInv
  /\ \A t \in Threads : EnqueueInv(t) /\ DequeueInv(t)

-----------------------------------------------------------------------------
\* The cell after one, and before the first.
LEMMA NextCell ==
  ASSUME NEW c \in Cells \cup {None}
  PROVE  Next1(c) \in Cells /\ Next1(c) = IF c + 1 < QUEUE_SIZE THEN c + 1 ELSE 0
<1>1. c + 1 \in Nat /\ c + 1 <= QUEUE_SIZE /\ QUEUE_SIZE \in Nat /\ QUEUE_SIZE > 1
  BY QueueAssumption DEF Cells, None
<1>2. (c + 1) % QUEUE_SIZE = IF c + 1 < QUEUE_SIZE THEN c + 1 ELSE 0
  <2>1. PICK n : n = c + 1
    OBVIOUS
  <2>2. n % QUEUE_SIZE = IF n < QUEUE_SIZE THEN n ELSE 0
    BY <1>1, <2>1, Z3
  <2>. QED
    BY <2>1, <2>2
<1>. QED
  BY <1>1, <1>2 DEF Next1, Cells

\* Distances and positions.
LEMMA Positions ==
  ASSUME NEW f \in Cells, NEW r \in Cells
  PROVE  /\ Distance(f, r) \in 1..QUEUE_SIZE
         /\ \A i \in 1..QUEUE_SIZE : Pos(f, i) \in Cells
         /\ \A i, j \in 1..QUEUE_SIZE : Pos(f, i) = Pos(f, j) => i = j
         /\ Pos(f, 1) = f /\ Pos(f, Distance(f, r)) = r
         /\ Distance(f, r) = 1 <=> f = r
         /\ Distance(f, r) = QUEUE_SIZE <=> Next1(r) = f
<1>. USE QueueAssumption DEF Cells, Distance, Pos
<1>1. /\ Distance(f, r) \in 1..QUEUE_SIZE
      /\ \A i \in 1..QUEUE_SIZE : Pos(f, i) \in Cells
      /\ \A i, j \in 1..QUEUE_SIZE : Pos(f, i) = Pos(f, j) => i = j
  OBVIOUS
<1>2. /\ Pos(f, 1) = f /\ Pos(f, Distance(f, r)) = r
      /\ Distance(f, r) = 1 <=> f = r
  OBVIOUS
<1>3. Distance(f, r) = QUEUE_SIZE <=> Next1(r) = f
  BY NextCell
<1>. QED
  BY <1>1, <1>2, <1>3

\* One more element behind the last one ...
LEMMA Longer ==
  ASSUME NEW f \in Cells, NEW r \in Cells, Distance(f, r) < QUEUE_SIZE
  PROVE  Distance(f, Next1(r)) = Distance(f, r) + 1
<1>1. Next1(r) = IF r + 1 < QUEUE_SIZE THEN r + 1 ELSE 0
  BY NextCell
<1>. QED
  BY <1>1, QueueAssumption DEF Cells, Distance

\* ... and one less in front.
LEMMA Shorter ==
  ASSUME NEW f \in Cells, NEW r \in Cells, f # r
  PROVE  /\ Distance(Next1(f), r) = Distance(f, r) - 1
         /\ \A i \in 1..(QUEUE_SIZE - 1) : Pos(Next1(f), i) = Pos(f, i + 1)
<1>1. Next1(f) = IF f + 1 < QUEUE_SIZE THEN f + 1 ELSE 0
  BY NextCell
<1>. QED
  BY <1>1, QueueAssumption DEF Cells, Distance, Pos

\* How many elements the queue holds.
LEMMA HeldFacts ==
  ASSUME QueueTypes
  PROVE  /\ None \in {front, rear} => Held = 0
         /\ None \notin {front, rear} => Held = Distance(front, rear)
         /\ None \notin Cells
<1>1. None \notin Cells
  BY DEF None, Cells
<1>2. ASSUME None \notin {front, rear} PROVE Held = Distance(front, rear)
  <2>1. front \in Cells /\ rear \in Cells
    BY <1>2 DEF QueueTypes
  <2>2. PICK n : n = rear + QUEUE_SIZE - front
    OBVIOUS
  <2>3. n \in Nat /\ n < 2 * QUEUE_SIZE /\ QUEUE_SIZE \in Nat /\ QUEUE_SIZE > 1
    BY <2>1, <2>2, QueueAssumption DEF Cells
  <2>4. n % QUEUE_SIZE = IF n < QUEUE_SIZE THEN n ELSE n - QUEUE_SIZE
    BY <2>3, Z3
  <2>. QED
    BY <1>2, <2>1, <2>2, <2>3, <2>4 DEF Held, Distance, Cells
<1>. QED
  BY <1>1, <1>2 DEF Held

\* One thread enqueues and one dequeues.
LEMMA OneAtEachEnd ==
  ASSUME PlacesInv, Exclusive, NEW t \in Threads, NEW u \in Threads,
         at[t] # "out", at[u] # "out", want[t] = want[u]
  PROVE  t = u
BY DEF PlacesInv, Exclusive

\* What a step that is not risky says of the threads after it.
LEMMA NotRisky ==
  ASSUME QueueTypes, Noted, ~ risky'
  PROVE  /\ ~ risky /\ Exclusive'
         /\ \A t, u \in Threads :
              Enqueues(t) /\ Dequeues(u) /\ at'[t] # "out" /\ at'[u] # "out" =>
                front \in Cells /\ rear \in Cells /\ front # rear
<1>1. ~ risky /\ Exclusive'
  BY DEF Noted
<1>2. ASSUME NEW t \in Threads, NEW u \in Threads, Enqueues(t), Dequeues(u),
             at'[t] # "out", at'[u] # "out"
      PROVE  front \in Cells /\ rear \in Cells /\ front # rear
  <2>1. ~ (Held <= 1)
    BY <1>2 DEF Noted, Inside
  <2>2. None \notin {front, rear}
    BY <2>1, HeldFacts
  <2>3. front \in Cells /\ rear \in Cells
    BY <2>2 DEF QueueTypes
  <2>4. ~ (Distance(front, rear) <= 1)
    BY <2>1, <2>2, HeldFacts
  <2>. QED
    BY <2>3, <2>4, Positions
<1>. QED
  BY <1>1, <1>2

\* What holds of a thread that does nothing holds on if front and rear do.
LEMMA OthersKeep ==
  ASSUME NEW u \in Threads, EnqueueInv(u), DequeueInv(u), at'[u] = at[u], idx'[u] = idx[u],
         UNCHANGED <<want, front, rear>>
  PROVE  EnqueueInv(u)' /\ DequeueInv(u)'
<1>1. EnqueueInv(u)'
  BY DEF EnqueueInv, Half, Enqueues
<1>2. DequeueInv(u)'
  BY DEF DequeueInv
<1>. QED
  BY <1>1, <1>2

\* The steps that change no variable of the queue.
Quiets == {"out", "begin", "test_full", "test_first", "set_front", "reload", "set_rear", "read",
           "reset_rear", "return"}

\* A step that changes none of them keeps the invariant if it keeps the parts
\* about the thread itself.
LEMMA QuietStep ==
  ASSUME QueueInv, NEW t \in Threads,
         QueueTypes', Exclusive', PlacesInv', MeetInv', EnqueueInv(t)', DequeueInv(t)',
         \A u \in Threads : u # t => at'[u] = at[u] /\ idx'[u] = idx[u],
         \/ at[t] \in Quiets /\ at'[t] \in Quiets
         \/ at'[t] \in {"reset_front", "set_next"} /\ at[t] = "test_last",
         UNCHANGED <<want, data, front, rear, accepted, taken>>
  PROVE  QueueInv'
<1>1. Writing' = Writing
  BY DEF Writing, Quiets
<1>2. Pointing' = Pointing
  BY DEF Pointing, Quiets
<1>3. gone' = gone
  BY <1>2 DEF gone
<1>4. ShapeInv'
  BY <1>1, <1>3 DEF QueueInv, ShapeInv, Half
<1>5. HistoryInv'
  BY DEF QueueInv, HistoryInv
<1>6. \A u \in Threads : EnqueueInv(u)' /\ DequeueInv(u)'
  <2>. SUFFICES ASSUME NEW u \in Threads, u # t PROVE EnqueueInv(u)' /\ DequeueInv(u)'
    OBVIOUS
  <2>. QED
    BY OthersKeep DEF QueueInv
<1>. QED
  BY <1>4, <1>5, <1>6 DEF QueueInv

\* Where a thread in its critical section goes.
LEMMA WorkPlaces ==
  ASSUME QueueTypes, PlacesInv, NEW t \in Threads, NEW from, NEW to, Work(t), Step(t, from, to),
         to \in {"return"} \cup InEnqueue \cup InDequeue,
         to \in InEnqueue => Enqueues(t), to \in InDequeue => Dequeues(t)
  PROVE  /\ PlacesInv' /\ UNCHANGED <<want, pc>>
         /\ at' \in [Threads -> {"out", "begin", "return"} \cup InEnqueue \cup InDequeue]
         /\ at[t] = from /\ from # "out" /\ at'[t] = to
         /\ \A u \in Threads : u # t => at'[u] = at[u]
<1>1. UNCHANGED <<want, pc>> /\ pc[t] = "cs" /\ at[t] = from /\ at' = [at EXCEPT ![t] = to]
  BY DEF Work, Step, lockVars
<1>2. at' \in [Threads -> {"out", "begin", "return"} \cup InEnqueue \cup InDequeue]
  BY <1>1 DEF QueueTypes
<1>3. from # "out"
  BY <1>1 DEF PlacesInv, Holding
<1>4. to # "out" /\ to # "begin"
  BY DEF InEnqueue, InDequeue
<1>5. at'[t] = to /\ \A u \in Threads : u # t => at'[u] = at[u]
  BY <1>1 DEF QueueTypes
<1>6. PlacesInv'
  <2>. SUFFICES ASSUME NEW u \in Threads
       PROVE  /\ at'[u] # "out" <=> Holding(u)'
              /\ pc'[u] = "release" => at'[u] = "return"
              /\ at'[u] \in InEnqueue => Enqueues(u)'
              /\ at'[u] \in InDequeue => Dequeues(u)'
    BY DEF PlacesInv
  <2>1. CASE u = t
    BY <1>1, <1>4, <1>5, <2>1 DEF Holding, Enqueues, Dequeues
  <2>2. CASE u # t
    BY <1>1, <1>5, <2>2 DEF PlacesInv, Holding, Enqueues, Dequeues
  <2>. QED
    BY <2>1, <2>2
<1>. QED
  BY <1>1, <1>2, <1>3, <1>5, <1>6

-----------------------------------------------------------------------------
\* A call.
LEMMA CallOperationKeeps ==
  ASSUME QueueInv, NEW t \in Threads, CallOperation(t), Noted, ~ risky'
  PROVE  QueueInv'
<1>1. /\ pc[t] = "idle" /\ pc' = [pc EXCEPT ![t] = "ldrex"]
      /\ UNCHANGED <<want, data, front, rear, at, idx, accepted, taken>>
  BY DEF CallOperation, Call, Goto
<1>2. QueueTypes'
  BY <1>1 DEF QueueInv, QueueTypes, Pcs
<1>3. at[t] = "out" /\ pc'[t] = "ldrex" /\ \A u \in Threads : u # t => pc'[u] = pc[u]
  BY <1>1 DEF QueueInv, QueueTypes, PlacesInv, Holding
<1>4. PlacesInv'
  BY <1>1, <1>3 DEF QueueInv, PlacesInv, Holding, Enqueues, Dequeues, InEnqueue, InDequeue
<1>5. MeetInv'
  BY <1>1 DEF QueueInv, MeetInv, Half, Enqueues, Dequeues
<1>6. EnqueueInv(t)' /\ DequeueInv(t)'
  BY <1>1, OthersKeep DEF QueueInv
<1>7. Exclusive'
  BY NotRisky DEF QueueInv
<1>. QED
  BY <1>1, <1>2, <1>3, <1>4, <1>5, <1>6, <1>7, QuietStep DEF Quiets

\* The lock is taken, or not.  A thread that enters finds no first element
\* being inserted and no last one being removed.
LEMMA SecuringKeeps ==
  ASSUME QueueInv, NEW t \in Threads, Securing(t), Noted, ~ risky'
  PROVE  QueueInv'
<1>1. /\ pc[t] \in {"ldrex", "strexeq", "yield"}
      /\ \E where \in {"ldrex", "strexeq", "yield", "cs"} : pc' = [pc EXCEPT ![t] = where]
      /\ at' = [at EXCEPT ![t] = IF pc'[t] = "cs" THEN "begin" ELSE @]
      /\ UNCHANGED <<want, data, front, rear, idx, accepted, taken>>
  BY DEF Securing, SecureVibes, CompareAndSwap, Ldrex, Taken, StrexSucceeds, StrexFails, Retry, Goto
<1>2. at[t] = "out"
  BY <1>1 DEF QueueInv, PlacesInv, Holding
<1>3. /\ pc'[t] \in {"ldrex", "strexeq", "yield", "cs"}
      /\ \A u \in Threads : u # t => pc'[u] = pc[u] /\ at'[u] = at[u]
      /\ pc'[t] = "cs" => at'[t] = "begin"
      /\ pc'[t] # "cs" => at'[t] = "out"
  BY <1>1, <1>2 DEF QueueInv, QueueTypes
<1>4. QueueTypes'
  BY <1>1 DEF QueueInv, QueueTypes, Pcs
<1>5. PlacesInv'
  BY <1>1, <1>3 DEF QueueInv, PlacesInv, Holding, Enqueues, Dequeues, InEnqueue, InDequeue
<1>6. Exclusive'
  BY NotRisky DEF QueueInv
<1>7. ASSUME Half, at'[t] = "begin" PROVE ~ Enqueues(t) /\ ~ Dequeues(t)
  <2>1. PICK e \in Threads : at[e] \in {"reload", "set_rear"}
    BY <1>7 DEF QueueInv, MeetInv
  <2>2. Enqueues(e) /\ e # t /\ at'[e] # "out" /\ want' = want /\ at'[t] # "out"
    BY <1>1, <1>2, <1>3, <1>7, <2>1 DEF QueueInv, PlacesInv, InEnqueue
  <2>3. ~ Enqueues(t)
    BY <1>5, <1>6, <2>2 DEF PlacesInv, Exclusive, Enqueues
  <2>4. ~ Dequeues(t)
    BY <1>7, <2>2, NotRisky, HeldFacts DEF QueueInv, Half
  <2>. QED
    BY <2>3, <2>4
<1>8. ASSUME NEW d \in Threads, at[d] \in {"reset_front", "reset_rear"}, at'[t] = "begin" PROVE ~ Enqueues(t)
  <2>1. Dequeues(d) /\ at'[d] # "out"
    BY <1>2, <1>3, <1>8 DEF QueueInv, PlacesInv, InDequeue
  <2>2. front = None \/ front = rear
    BY <1>8 DEF QueueInv, DequeueInv
  <2>. QED
    BY <1>8, <2>1, <2>2, NotRisky, HeldFacts DEF QueueInv
<1>9. EnqueueInv(t)' /\ DequeueInv(t)'
  <2>1. CASE at'[t] = "out"
    BY <2>1 DEF EnqueueInv, DequeueInv
  <2>2. CASE at'[t] = "begin"
    BY <1>1, <1>7, <2>2 DEF EnqueueInv, DequeueInv, Half, Enqueues
  <2>. QED
    BY <1>3, <2>1, <2>2
<1>10. MeetInv'
  <2>1. Half' = Half
    BY <1>1 DEF Half
  <2>2. Half => \E e \in Threads : at'[e] \in {"reload", "set_rear"}
    BY <1>2, <1>3 DEF QueueInv, MeetInv
  <2>3. Half => \A u \in Threads : Dequeues(u)' => at'[u] = "out"
    BY <1>1, <1>3, <1>7 DEF QueueInv, MeetInv, Dequeues
  <2>4. front' = None /\ rear' # None => \E d \in Threads : at'[d] = "reset_rear"
    BY <1>1, <1>2, <1>3 DEF QueueInv, MeetInv
  <2>5. \A d, u \in Threads : at'[d] \in {"reset_front", "reset_rear"} /\ Enqueues(u)' => at'[u] = "out"
    BY <1>1, <1>2, <1>3, <1>8 DEF QueueInv, MeetInv, Enqueues
  <2>. QED
    BY <2>1, <2>2, <2>3, <2>4, <2>5 DEF MeetInv
<1>. QED
  BY <1>1, <1>2, <1>3, <1>4, <1>5, <1>6, <1>9, <1>10, QuietStep DEF Quiets

\* release_vibes: the thread leaves nothing behind.
LEMMA ReturnKeeps ==
  ASSUME QueueInv, NEW t \in Threads, Return(t), Noted, ~ risky'
  PROVE  QueueInv'
<1>1. /\ at[t] = "return"
      /\ \/ pc[t] = "cs" /\ pc' = [pc EXCEPT ![t] = "release"] /\ at' = at
         \/ pc[t] = "release" /\ pc' = [pc EXCEPT ![t] = "idle"] /\ at' = [at EXCEPT ![t] = "out"]
      /\ UNCHANGED <<want, data, front, rear, idx, accepted, taken>>
  BY DEF Return, Leave, Release, Goto
<1>2. QueueTypes'
  BY <1>1 DEF QueueInv, QueueTypes, Pcs
<1>3. /\ \/ at'[t] = "return" /\ pc'[t] = "release"
         \/ at'[t] = "out" /\ pc'[t] = "idle"
      /\ \A u \in Threads : u # t => pc'[u] = pc[u] /\ at'[u] = at[u]
  BY <1>1 DEF QueueInv, QueueTypes
<1>4. PlacesInv'
  BY <1>1, <1>3 DEF QueueInv, PlacesInv, Holding, Enqueues, Dequeues, InEnqueue, InDequeue
<1>5. MeetInv'
  BY <1>1, <1>3 DEF QueueInv, MeetInv, Half, Enqueues, Dequeues
<1>6. EnqueueInv(t)' /\ DequeueInv(t)'
  <2>1. EnqueueInv(t)
    BY DEF QueueInv
  <2>. QED
    BY <1>1, <1>3, <2>1 DEF EnqueueInv, DequeueInv, Half, Enqueues
<1>7. Exclusive'
  BY NotRisky DEF QueueInv
<1>. QED
  BY <1>1, <1>2, <1>3, <1>4, <1>5, <1>6, <1>7, QuietStep DEF Quiets

-----------------------------------------------------------------------------
\* The steps inside that change no variable of the queue.
LEMMA QuietWork ==
  ASSUME QueueInv, NEW t \in Threads, NEW from, NEW to, Work(t), Step(t, from, to), Noted, ~ risky',
         from \in {"begin"} \cup Quiets, to \in {"return"} \cup (Quiets \cap (InEnqueue \cup InDequeue)),
         to \in InEnqueue => Enqueues(t), to \in InDequeue => Dequeues(t),
         from \in {"reload", "set_rear"} => to \in {"reload", "set_rear"},
         from # "reset_rear", to # "reset_rear",
         \E i \in Cells \cup {None} : idx' = [idx EXCEPT ![t] = i],
         UNCHANGED <<data, front, rear, accepted, taken>>,
         EnqueueInv(t)', DequeueInv(t)'
  PROVE  QueueInv'
<1>. DEFINE OK == to \in {"return"} \cup InEnqueue \cup InDequeue
<1>0. OK
  OBVIOUS
<1>1. /\ PlacesInv' /\ UNCHANGED <<want, pc>>
      /\ at' \in [Threads -> {"out", "begin", "return"} \cup InEnqueue \cup InDequeue]
      /\ at[t] = from /\ from # "out" /\ at'[t] = to
      /\ \A u \in Threads : u # t => at'[u] = at[u]
  BY <1>0, WorkPlaces DEF QueueInv
<1>2. idx' \in [Threads -> Cells \cup {None}] /\ \A u \in Threads : u # t => idx'[u] = idx[u]
  BY DEF QueueInv, QueueTypes
<1>3. QueueTypes'
  BY <1>1, <1>2 DEF QueueInv, QueueTypes
<1>4. to # "reset_front"
  BY DEF Quiets, InEnqueue, InDequeue
<1>5. MeetInv'
  <2>1. Half' = Half
    BY DEF Half
  <2>2. Half => \E e \in Threads : at'[e] \in {"reload", "set_rear"}
    BY <1>1 DEF QueueInv, MeetInv
  <2>3. Half => \A u \in Threads : Dequeues(u)' => at'[u] = "out"
    BY <1>1 DEF QueueInv, MeetInv, Dequeues
  <2>4. front' = None /\ rear' # None => \E d \in Threads : at'[d] = "reset_rear"
    BY <1>1 DEF QueueInv, MeetInv
  <2>5. \A d, u \in Threads : at'[d] \in {"reset_front", "reset_rear"} /\ Enqueues(u)' => at'[u] = "out"
    BY <1>1, <1>4 DEF QueueInv, MeetInv, Enqueues
  <2>. QED
    BY <2>1, <2>2, <2>3, <2>4, <2>5 DEF MeetInv
<1>6. Exclusive'
  BY NotRisky DEF QueueInv
<1>7. at[t] \in Quiets /\ at'[t] \in Quiets
  BY <1>1 DEF Quiets
<1>. QED
  BY <1>1, <1>2, <1>3, <1>5, <1>6, <1>7, QuietStep

\* queue_enqueue up to the choice of the cell.
LEMMA LoadRearKeeps ==
  ASSUME QueueInv, NEW t \in Threads, LoadRear(t), Noted, ~ risky'
  PROVE  QueueInv'
<1>1. /\ Work(t) /\ Enqueues(t) /\ Step(t, "begin", "test_full")
      /\ at[t] = "begin" /\ at'[t] = "test_full" /\ want' = want
      /\ idx' = [idx EXCEPT ![t] = rear] /\ idx'[t] = rear /\ rear \in Cells \cup {None}
      /\ UNCHANGED <<data, front, rear, accepted, taken>>
  BY DEF LoadRear, QueueInv, QueueTypes, Step, Work, lockVars
<1>2. ~ Half
  BY <1>1 DEF QueueInv, EnqueueInv
<1>3. EnqueueInv(t)' /\ DequeueInv(t)'
  BY <1>1, <1>2 DEF EnqueueInv, DequeueInv, Half
<1>. QED
  BY <1>1, <1>3, QuietWork DEF Quiets, InEnqueue, InDequeue

\* if ((rear + 1) % QUEUE_SIZE == front)
LEMMA TestFullKeeps ==
  ASSUME QueueInv, NEW t \in Threads, TestFull(t), Noted, ~ risky'
  PROVE  QueueInv'
<1>1. PICK to : to = IF Next1(idx[t]) = front THEN "return" ELSE "test_first"
  OBVIOUS
<1>2. /\ Work(t) /\ Step(t, "test_full", to) /\ to \in {"return", "test_first"}
      /\ at[t] = "test_full" /\ at'[t] = to /\ want' = want
      /\ idx' = idx /\ UNCHANGED <<data, front, rear, accepted, taken>>
  BY <1>1 DEF TestFull, QueueInv, QueueTypes, Step, Work, lockVars
<1>3. Enqueues(t) /\ ~ Half /\ idx[t] = rear
  BY <1>2 DEF QueueInv, EnqueueInv, PlacesInv, InEnqueue
<1>4. to = "test_first" /\ front # None /\ rear # None => Distance(front, rear) < QUEUE_SIZE
  <2>. SUFFICES ASSUME to = "test_first", front # None, rear # None
                PROVE  Distance(front, rear) < QUEUE_SIZE
    OBVIOUS
  <2>1. Next1(rear) # front /\ front \in Cells /\ rear \in Cells
    BY <1>1, <1>3 DEF QueueInv, QueueTypes
  <2>2. Distance(front, rear) # QUEUE_SIZE /\ Distance(front, rear) \in 1..QUEUE_SIZE
    BY <2>1, Positions
  <2>. QED
    BY <2>2, QueueAssumption
<1>5. EnqueueInv(t)' /\ DequeueInv(t)'
  BY <1>2, <1>3, <1>4 DEF EnqueueInv, DequeueInv, Half
<1>6. idx' = [idx EXCEPT ![t] = idx[t]] /\ idx[t] \in Cells \cup {None}
  BY <1>2 DEF QueueInv, QueueTypes
<1>. QED
  BY <1>2, <1>3, <1>5, <1>6, QuietWork DEF Quiets, InEnqueue, InDequeue

\* if (front == -1)
LEMMA TestFirstKeeps ==
  ASSUME QueueInv, NEW t \in Threads, TestFirst(t), Noted, ~ risky'
  PROVE  QueueInv'
<1>1. PICK to : to = IF front = None THEN "set_front" ELSE "reload"
  OBVIOUS
<1>2. /\ Work(t) /\ Step(t, "test_first", to) /\ to \in {"set_front", "reload"}
      /\ at[t] = "test_first" /\ at'[t] = to /\ want' = want
      /\ idx' = idx /\ UNCHANGED <<data, front, rear, accepted, taken>>
  BY <1>1 DEF TestFirst, QueueInv, QueueTypes, Step, Work, lockVars
<1>3. /\ Enqueues(t) /\ ~ Half /\ idx[t] = rear
      /\ front # None /\ rear # None => Distance(front, rear) < QUEUE_SIZE
  BY <1>2 DEF QueueInv, EnqueueInv, PlacesInv, InEnqueue
<1>4. EnqueueInv(t)' /\ DequeueInv(t)'
  BY <1>1, <1>2, <1>3 DEF EnqueueInv, DequeueInv, Half
<1>5. idx' = [idx EXCEPT ![t] = idx[t]] /\ idx[t] \in Cells \cup {None}
  BY <1>2 DEF QueueInv, QueueTypes
<1>. QED
  BY <1>2, <1>3, <1>4, <1>5, QuietWork DEF Quiets, InEnqueue, InDequeue

\* The load of rear for its increment.
LEMMA ReloadRearKeeps ==
  ASSUME QueueInv, NEW t \in Threads, ReloadRear(t), Noted, ~ risky'
  PROVE  QueueInv'
<1>1. /\ Work(t) /\ Step(t, "reload", "set_rear")
      /\ at[t] = "reload" /\ at'[t] = "set_rear" /\ want' = want
      /\ \E r \in {idx[t], rear} : idx' = [idx EXCEPT ![t] = Next1(r)]
      /\ UNCHANGED <<data, front, rear, accepted, taken>>
  BY DEF ReloadRear, Reread, QueueInv, QueueTypes, Step, Work, lockVars
<1>2. /\ Enqueues(t) /\ idx[t] = rear /\ front # None
      /\ front # None /\ rear # None => Distance(front, rear) < QUEUE_SIZE
  BY <1>1 DEF QueueInv, EnqueueInv, PlacesInv, InEnqueue
<1>3. Next1(rear) \in Cells
  BY NextCell DEF QueueInv, QueueTypes
<1>4. idx' = [idx EXCEPT ![t] = Next1(rear)] /\ idx'[t] = Next1(rear)
  BY <1>1, <1>2 DEF QueueInv, QueueTypes
<1>5. EnqueueInv(t)' /\ DequeueInv(t)'
  BY <1>1, <1>2, <1>4 DEF EnqueueInv, DequeueInv, Half, Next1
<1>. QED
  BY <1>1, <1>2, <1>3, <1>4, <1>5, QuietWork DEF Quiets, InEnqueue, InDequeue

\* The first element: front is set while no other thread is inside.
LEMMA SetFrontKeeps ==
  ASSUME QueueInv, NEW t \in Threads, SetFront(t), Noted, ~ risky'
  PROVE  QueueInv'
<1>1. /\ Work(t) /\ Step(t, "set_front", "reload") /\ front' = 0
      /\ UNCHANGED <<data, rear, idx, accepted, taken>>
  BY DEF SetFront
<1>2. at[t] = "set_front" /\ Enqueues(t)
  BY <1>1 DEF Step, QueueInv, PlacesInv, InEnqueue
<1>3. /\ PlacesInv' /\ UNCHANGED <<want, pc>>
      /\ at' \in [Threads -> {"out", "begin", "return"} \cup InEnqueue \cup InDequeue]
      /\ at'[t] = "reload" /\ \A u \in Threads : u # t => at'[u] = at[u]
  <2>1. "reload" \in InEnqueue /\ "reload" \notin InDequeue
    BY DEF InEnqueue, InDequeue
  <2>. QED
    BY <1>1, <1>2, <2>1, WorkPlaces DEF QueueInv
<1>4. Exclusive' /\ \A u \in Threads : Dequeues(u) /\ at'[u] # "out" => front \in Cells
  BY <1>2, <1>3, NotRisky DEF QueueInv
<1>5. /\ front = None /\ rear = None /\ idx[t] = rear /\ None \notin Cells /\ 0 \in Cells
      /\ Len(accepted) = Len(taken)
  <2>1. front = None /\ idx[t] = rear
    BY <1>2 DEF QueueInv, EnqueueInv
  <2>2. rear = None
    BY <1>2, <2>1 DEF QueueInv, MeetInv
  <2>3. None \notin Cells /\ 0 \in Cells
    BY QueueAssumption DEF None, Cells
  <2>. QED
    BY <2>1, <2>2, <2>3 DEF QueueInv, ShapeInv
<1>6. \A u \in Threads : Dequeues(u) => at'[u] = "out"
  BY <1>4, <1>5
<1>7. Half' /\ front' # None
  BY <1>1, <1>5 DEF Half, None
<1>8. QueueTypes' /\ HistoryInv'
  BY <1>1, <1>3, <1>5 DEF QueueInv, QueueTypes, HistoryInv
<1>9. ShapeInv'
  BY <1>1, <1>5 DEF ShapeInv, None
<1>10. \A u \in Threads : u # t /\ Enqueues(u) => at'[u] = "out"
  BY <1>2, <1>3, <1>4 DEF PlacesInv, Exclusive, Enqueues
<1>11. MeetInv'
  BY <1>3, <1>6, <1>7 DEF MeetInv, Dequeues, PlacesInv, InDequeue
<1>12. ASSUME NEW u \in Threads PROVE EnqueueInv(u)' /\ DequeueInv(u)'
  <2>1. CASE u = t
    BY <1>1, <1>3, <1>5, <1>7, <2>1 DEF EnqueueInv, DequeueInv
  <2>2. CASE u # t
    <3>1. at'[u] \notin InEnqueue /\ at'[u] \notin InDequeue
      BY <1>3, <1>6, <1>10, <2>2 DEF PlacesInv, Enqueues, Dequeues, InEnqueue, InDequeue
    <3>2. Enqueues(u)' => at'[u] = "out"
      BY <1>3, <1>10, <2>2 DEF Enqueues
    <3>. QED
      BY <3>1, <3>2 DEF EnqueueInv, DequeueInv, InEnqueue, InDequeue
  <2>. QED
    BY <2>1, <2>2
<1>. QED
  BY <1>3, <1>4, <1>8, <1>9, <1>11, <1>12 DEF QueueInv

\* No other thread enqueues, and none is at an end it should not be.
LEMMA OnlyEnqueuer ==
  ASSUME QueueInv, NEW t \in Threads, Enqueues(t), at[t] # "out"
  PROVE  /\ \A u \in Threads : u # t /\ Enqueues(u) => at[u] = "out"
         /\ \A u \in Threads : at[u] \notin {"reset_front", "reset_rear"}
         /\ \A u \in Threads : u # t => at[u] \notin InEnqueue
<1>1. \A u \in Threads : u # t /\ Enqueues(u) => at[u] = "out"
  <2>. SUFFICES ASSUME NEW u \in Threads, u # t, Enqueues(u), at[u] # "out" PROVE FALSE
    OBVIOUS
  <2>1. want[t] = want[u] /\ PlacesInv /\ Exclusive
    BY DEF QueueInv, Enqueues
  <2>. QED
    BY <2>1, OneAtEachEnd
<1>2. \A u \in Threads : at[u] \notin {"reset_front", "reset_rear"}
  <2>1. \A d, u \in Threads : at[d] \in {"reset_front", "reset_rear"} /\ Enqueues(u) => at[u] = "out"
    BY DEF QueueInv, MeetInv
  <2>. QED
    BY <2>1
<1>3. \A u \in Threads : u # t => at[u] \notin InEnqueue
  BY <1>1 DEF QueueInv, PlacesInv, InEnqueue
<1>. QED
  BY <1>1, <1>2, <1>3

\* rear moves to the cell behind the last element, which is free.
LEMMA SetRearKeeps ==
  ASSUME QueueInv, NEW t \in Threads, SetRear(t), Noted, ~ risky'
  PROVE  QueueInv'
<1>1. /\ Work(t) /\ Step(t, "set_rear", "write") /\ rear' = idx[t]
      /\ accepted' = Append(accepted, Len(accepted) + 1)
      /\ UNCHANGED <<data, front, idx, taken>>
  BY DEF SetRear
<1>2. at[t] = "set_rear" /\ Enqueues(t)
  BY <1>1 DEF Step, QueueInv, PlacesInv, InEnqueue
<1>3. /\ PlacesInv' /\ UNCHANGED <<want, pc>>
      /\ at' \in [Threads -> {"out", "begin", "return"} \cup InEnqueue \cup InDequeue]
      /\ at'[t] = "write" /\ \A u \in Threads : u # t => at'[u] = at[u]
  <2>1. "write" \in InEnqueue /\ "write" \notin InDequeue
    BY DEF InEnqueue, InDequeue
  <2>. QED
    BY <1>1, <1>2, <2>1, WorkPlaces DEF QueueInv
<1>4. Exclusive'
  BY NotRisky DEF QueueInv
<1>5. /\ idx[t] = Next1(rear) /\ Next1(rear) \in Cells /\ front # None /\ front \in Cells
      /\ None \notin Cells
      /\ rear # None => rear \in Cells /\ Distance(front, rear) < QUEUE_SIZE
  BY <1>2, NextCell, HeldFacts DEF QueueInv, QueueTypes, EnqueueInv
<1>6. /\ \A u \in Threads : u # t => at'[u] \notin InEnqueue
      /\ \A u \in Threads : at'[u] \notin {"reset_front", "reset_rear"}
      /\ \A u \in Threads : u # t /\ Enqueues(u)' => at'[u] = "out"
      /\ ~ Writing
  <2>1. /\ \A u \in Threads : u # t /\ Enqueues(u) => at[u] = "out"
        /\ \A u \in Threads : at[u] \notin {"reset_front", "reset_rear"}
        /\ \A u \in Threads : u # t => at[u] \notin InEnqueue
    BY <1>2, OnlyEnqueuer
  <2>. QED
    BY <1>2, <1>3, <2>1 DEF Writing, InEnqueue, Enqueues
<1>7. /\ Len(accepted') = Len(accepted) + 1 /\ HistoryInv'
      /\ Len(accepted) \in Nat /\ Len(taken) \in Nat
  <2>1. accepted \in Seq(Nat) /\ Len(accepted) + 1 \in Nat
    BY DEF QueueInv, HistoryInv
  <2>2. Len(accepted') = Len(accepted) + 1 /\ accepted' \in Seq(Nat)
        /\ \A i \in 1..(Len(accepted) + 1) :
             accepted'[i] = IF i <= Len(accepted) THEN accepted[i] ELSE Len(accepted) + 1
    BY <1>1, <2>1
  <2>. QED
    BY <1>1, <2>1, <2>2 DEF QueueInv, HistoryInv
<1>8. QueueTypes'
  BY <1>1, <1>3, <1>5 DEF QueueInv, QueueTypes
<1>9. Pointing' = Pointing /\ gone' = gone /\ Writing'
  BY <1>1, <1>2, <1>3 DEF Pointing, gone, Writing
<1>10. ShapeInv'
  <2>1. CASE rear = None
    <3>1. front = 0 /\ Len(accepted) = Len(taken) /\ rear' = 0
      <4>1. Next1(rear) = 0
        BY <2>1, NextCell, QueueAssumption DEF None
      <4>. QED
        BY <1>1, <1>5, <2>1, <4>1 DEF QueueInv, ShapeInv, Half
    <3>2. ~ Pointing /\ gone = Len(taken)
      <4>1. \A u \in Threads : at[u] \notin {"test_last", "reset_front", "set_next"}
        BY <1>5, <2>1 DEF QueueInv, DequeueInv
      <4>. QED
        BY <4>1 DEF Pointing, gone
    <3>3. Distance(front', rear') = 1
      BY <1>1, <1>5, <3>1, Positions
    <3>. QED
      BY <1>1, <1>5, <1>7, <1>9, <3>1, <3>2, <3>3 DEF ShapeInv, Half
  <2>2. CASE rear # None
    <3>1. Distance(front', rear') = Distance(front, rear) + 1 /\ Distance(front, rear) \in Nat
      BY <1>1, <1>5, <2>2, Longer, Positions
    <3>2. /\ Len(accepted) = gone + Distance(front, rear)
          /\ \A i \in 1..Distance(front, rear) : data[Pos(front, i)] = gone + i
      BY <1>5, <1>6, <2>2 DEF QueueInv, ShapeInv
    <3>3. gone \in Int
      BY <1>7 DEF gone
    <3>4. \A i \in 1..(Distance(front, rear) + 1) :
            i = Distance(front, rear) + 1 \/ data[Pos(front, i)] = gone + i
      BY <3>1, <3>2
    <3>5. front' = front /\ data' = data /\ Pos(front', 1) = Pos(front, 1)
      BY <1>1
    <3>6. /\ Len(accepted') = gone' + Distance(front', rear')
          /\ \A i \in 1..Distance(front', rear') :
               (Writing' /\ i = Distance(front', rear')) \/ data'[Pos(front', i)] = gone' + i
      BY <1>7, <1>9, <3>1, <3>2, <3>3, <3>4, <3>5
    <3>7. front' # None /\ rear' # None
      BY <1>1, <1>5
    <3>. QED
      BY <3>6, <3>7 DEF ShapeInv, Half
  <2>. QED
    BY <2>1, <2>2
<1>11. MeetInv'
  BY <1>1, <1>5, <1>6 DEF MeetInv, Half
<1>12. ASSUME NEW u \in Threads PROVE EnqueueInv(u)' /\ DequeueInv(u)'
  <2>1. CASE u = t
    BY <1>1, <1>3, <1>5, <2>1 DEF EnqueueInv, DequeueInv, Half
  <2>2. CASE u # t
    <3>1. EnqueueInv(u)'
      BY <1>6, <2>2 DEF EnqueueInv, InEnqueue
    <3>2. rear # None => front # rear'
      <4>. SUFFICES ASSUME rear # None PROVE front # rear'
        OBVIOUS
      <4>1. Distance(front, rear) # QUEUE_SIZE
        BY <1>5, Positions, QueueAssumption
      <4>. QED
        BY <1>1, <1>5, <4>1, Positions
    <3>3. DequeueInv(u)'
      BY <1>1, <1>3, <1>5, <1>6, <2>2, <3>2 DEF QueueInv, DequeueInv
    <3>. QED
      BY <3>1, <3>3
  <2>. QED
    BY <2>1, <2>2
<1>. QED
  BY <1>3, <1>4, <1>7, <1>8, <1>10, <1>11, <1>12 DEF QueueInv

\* The element is written: the cell is no other element's.
LEMMA WriteDataKeeps ==
  ASSUME QueueInv, NEW t \in Threads, WriteData(t), Noted, ~ risky'
  PROVE  QueueInv'
<1>1. /\ Work(t) /\ Step(t, "write", "return")
      /\ \E i \in {idx[t], rear} : data' = [c \in Cells |-> IF c = i THEN Len(accepted) ELSE data[c]]
      /\ UNCHANGED <<front, rear, idx, accepted, taken>>
  BY DEF WriteData, Reread
<1>2. at[t] = "write" /\ Enqueues(t)
  BY <1>1 DEF Step, QueueInv, PlacesInv, InEnqueue
<1>3. /\ PlacesInv' /\ UNCHANGED <<want, pc>>
      /\ at' \in [Threads -> {"out", "begin", "return"} \cup InEnqueue \cup InDequeue]
      /\ at'[t] = "return" /\ \A u \in Threads : u # t => at'[u] = at[u]
  <2>1. "return" \notin InEnqueue /\ "return" \notin InDequeue
    BY DEF InEnqueue, InDequeue
  <2>. QED
    BY <1>1, <1>2, <2>1, WorkPlaces DEF QueueInv
<1>4. Exclusive'
  BY NotRisky DEF QueueInv
<1>5. /\ idx[t] = rear /\ rear \in Cells /\ front \in Cells /\ None \notin Cells
      /\ data' = [c \in Cells |-> IF c = rear THEN Len(accepted) ELSE data[c]]
  BY <1>1, <1>2, HeldFacts DEF QueueInv, QueueTypes, EnqueueInv
<1>6. Pointing' = Pointing /\ gone' = gone /\ ~ Writing'
  <2>1. \A u \in Threads : u # t => at[u] \notin InEnqueue
    BY <1>2, OnlyEnqueuer
  <2>. QED
    BY <1>1, <1>2, <1>3, <2>1 DEF Pointing, gone, Writing, InEnqueue
<1>7. HistoryInv' /\ Len(accepted) \in Nat
  BY <1>1 DEF QueueInv, HistoryInv
<1>8. QueueTypes'
  BY <1>1, <1>3, <1>5, <1>7 DEF QueueInv, QueueTypes
<1>9. ShapeInv'
  <2>1. /\ Len(accepted) = gone + Distance(front, rear)
        /\ \A i \in 1..Distance(front, rear) :
             i = Distance(front, rear) \/ data[Pos(front, i)] = gone + i
    BY <1>5 DEF QueueInv, ShapeInv
  <2>2. /\ Distance(front, rear) \in 1..QUEUE_SIZE /\ Pos(front, Distance(front, rear)) = rear
        /\ \A i \in 1..QUEUE_SIZE : Pos(front, i) \in Cells
        /\ \A i, j \in 1..QUEUE_SIZE : Pos(front, i) = Pos(front, j) => i = j
    BY <1>5, Positions
  <2>3. ASSUME NEW i \in 1..Distance(front, rear) PROVE data'[Pos(front, i)] = gone + i
    <3>1. i \in 1..QUEUE_SIZE
      BY <2>2, QueueAssumption
    <3>2. CASE i = Distance(front, rear)
      BY <1>5, <2>1, <2>2, <3>2
    <3>3. CASE i # Distance(front, rear)
      <4>1. Pos(front, i) # rear /\ Pos(front, i) \in Cells
        BY <2>2, <3>1, <3>3
      <4>. QED
        BY <1>5, <2>1, <3>3, <4>1
    <3>. QED
      BY <3>2, <3>3
  <2>4. front' = front /\ rear' = rear /\ accepted' = accepted
    BY <1>1
  <2>. QED
    BY <1>5, <1>6, <2>1, <2>3, <2>4 DEF ShapeInv, Half
<1>10. MeetInv'
  BY <1>1, <1>2, <1>3 DEF QueueInv, MeetInv, Half, Enqueues, Dequeues
<1>11. ASSUME NEW u \in Threads PROVE EnqueueInv(u)' /\ DequeueInv(u)'
  <2>1. CASE u = t
    BY <1>1, <1>3, <1>5, <2>1 DEF EnqueueInv, DequeueInv, Half
  <2>2. CASE u # t
    BY <1>1, <1>3, <2>2, OthersKeep DEF QueueInv
  <2>. QED
    BY <2>1, <2>2
<1>. QED
  BY <1>3, <1>4, <1>7, <1>8, <1>9, <1>10, <1>11 DEF QueueInv

-----------------------------------------------------------------------------
\* queue_dequeue up to the read.
LEMMA TestEmptyKeeps ==
  ASSUME QueueInv, NEW t \in Threads, TestEmpty(t), Noted, ~ risky'
  PROVE  QueueInv'
<1>1. PICK to : to = IF front = None THEN "return" ELSE "read"
  OBVIOUS
<1>2. /\ Work(t) /\ Dequeues(t) /\ Step(t, "begin", to) /\ to \in {"return", "read"}
      /\ at[t] = "begin" /\ at'[t] = to /\ want' = want
      /\ idx' = [idx EXCEPT ![t] = front] /\ idx'[t] = front /\ front \in Cells \cup {None}
      /\ UNCHANGED <<data, front, rear, accepted, taken>>
  BY <1>1 DEF TestEmpty, QueueInv, QueueTypes, Step, Work, lockVars
<1>3. ~ Half
  <2>1. Half => at[t] = "out"
    BY <1>2 DEF QueueInv, MeetInv
  <2>. QED
    BY <1>2, <2>1
<1>4. EnqueueInv(t)' /\ DequeueInv(t)'
  BY <1>1, <1>2, <1>3 DEF EnqueueInv, DequeueInv, Half
<1>. QED
  BY <1>2, <1>4, QuietWork DEF Quiets, InEnqueue, InDequeue

\* No other thread dequeues.
LEMMA OnlyDequeuer ==
  ASSUME QueueInv, NEW t \in Threads, Dequeues(t), at[t] # "out"
  PROVE  /\ \A u \in Threads : u # t /\ Dequeues(u) => at[u] = "out"
         /\ \A u \in Threads : u # t => at[u] \notin InDequeue
         /\ ~ Half
<1>1. \A u \in Threads : u # t /\ Dequeues(u) => at[u] = "out"
  <2>. SUFFICES ASSUME NEW u \in Threads, u # t, Dequeues(u), at[u] # "out" PROVE FALSE
    OBVIOUS
  <2>1. want[t] = want[u] /\ PlacesInv /\ Exclusive
    BY DEF QueueInv, Dequeues
  <2>. QED
    BY <2>1, OneAtEachEnd
<1>2. \A u \in Threads : u # t => at[u] \notin InDequeue
  BY <1>1 DEF QueueInv, PlacesInv, InDequeue
<1>3. Half => \A u \in Threads : Dequeues(u) => at[u] = "out"
  BY DEF QueueInv, MeetInv
<1>. QED
  BY <1>1, <1>2, <1>3

\* The element at the front is the next one: if it were the one that is being
\* written there would be an enqueue at a queue of one element.
LEMMA ReadDataKeeps ==
  ASSUME QueueInv, NEW t \in Threads, ReadData(t), Noted, ~ risky'
  PROVE  QueueInv'
<1>1. /\ Work(t) /\ Step(t, "read", "test_last")
      /\ \E i \in {idx[t], front} : taken' = Append(taken, IF i \in Cells THEN data[i] ELSE Garbage)
      /\ UNCHANGED <<data, front, rear, idx, accepted>>
  BY DEF ReadData, Reread
<1>2. at[t] = "read" /\ Dequeues(t)
  BY <1>1 DEF Step, QueueInv, PlacesInv, InDequeue
<1>3. /\ PlacesInv' /\ UNCHANGED <<want, pc>>
      /\ at' \in [Threads -> {"out", "begin", "return"} \cup InEnqueue \cup InDequeue]
      /\ at'[t] = "test_last" /\ \A u \in Threads : u # t => at'[u] = at[u]
  <2>1. "test_last" \notin InEnqueue /\ "test_last" \in InDequeue
    BY DEF InEnqueue, InDequeue
  <2>. QED
    BY <1>1, <1>2, <2>1, WorkPlaces DEF QueueInv
<1>4. /\ Exclusive'
      /\ \A u \in Threads : Enqueues(u) /\ at'[u] # "out" => front # rear
  BY <1>2, <1>3, NotRisky DEF QueueInv
<1>5. /\ idx[t] = front /\ rear \in Cells /\ front \in Cells /\ None \notin Cells
      /\ taken' = Append(taken, data[front])
  BY <1>1, <1>2, HeldFacts DEF QueueInv, QueueTypes, DequeueInv
<1>6. \A u \in Threads : u # t => at[u] \notin InDequeue
  BY <1>2, OnlyDequeuer
<1>7. Writing' = Writing /\ ~ Pointing /\ Pointing'
  BY <1>2, <1>3, <1>6 DEF Writing, Pointing, InDequeue
<1>8. Writing => front # rear
  <2>. SUFFICES ASSUME NEW u \in Threads, at[u] = "write" PROVE front # rear
    BY DEF Writing
  <2>1. Enqueues(u) /\ at'[u] # "out"
    BY <1>2, <1>3 DEF QueueInv, PlacesInv, InEnqueue
  <2>. QED
    BY <1>4, <2>1
<1>9. /\ gone = Len(taken) /\ Len(taken) \in Nat /\ Len(accepted) \in Nat
      /\ taken \in Seq(Nat) /\ data[front] \in Nat
  BY <1>5, <1>7 DEF gone, QueueInv, HistoryInv, QueueTypes
<1>10. data[front] = Len(taken) + 1
  <2>1. \A i \in 1..Distance(front, rear) :
          (Writing /\ i = Distance(front, rear)) \/ data[Pos(front, i)] = gone + i
    BY <1>5 DEF QueueInv, ShapeInv
  <2>2. /\ Distance(front, rear) \in 1..QUEUE_SIZE /\ Pos(front, 1) = front
        /\ Distance(front, rear) = 1 <=> front = rear
    BY <1>5, Positions
  <2>3. 1 \in 1..Distance(front, rear)
    BY <2>2, QueueAssumption
  <2>. QED
    BY <1>8, <1>9, <2>1, <2>2, <2>3
<1>11. Len(taken') = Len(taken) + 1 /\ gone' = gone /\ HistoryInv'
  <2>1. /\ Len(taken') = Len(taken) + 1 /\ taken' \in Seq(Nat)
        /\ \A i \in 1..(Len(taken) + 1) :
             taken'[i] = IF i <= Len(taken) THEN taken[i] ELSE data[front]
    BY <1>5, <1>9
  <2>2. gone' = Len(taken)
    BY <1>7, <1>9, <2>1 DEF gone
  <2>. QED
    BY <1>1, <1>9, <1>10, <2>1, <2>2 DEF QueueInv, HistoryInv
<1>12. QueueTypes'
  BY <1>1, <1>3 DEF QueueInv, QueueTypes
<1>13. ShapeInv'
  <2>1. front' # None /\ rear' # None
    BY <1>1, <1>5
  <2>. QED
    BY <1>1, <1>5, <1>7, <1>11, <2>1 DEF QueueInv, ShapeInv, Half
<1>14. MeetInv'
  BY <1>1, <1>2, <1>3, <1>5 DEF QueueInv, MeetInv, Half, Enqueues, Dequeues
<1>15. ASSUME NEW u \in Threads PROVE EnqueueInv(u)' /\ DequeueInv(u)'
  <2>1. CASE u = t
    BY <1>1, <1>3, <1>5, <2>1 DEF EnqueueInv, DequeueInv, Half
  <2>2. CASE u # t
    BY <1>1, <1>3, <2>2, OthersKeep DEF QueueInv
  <2>. QED
    BY <2>1, <2>2
<1>. QED
  BY <1>3, <1>4, <1>11, <1>12, <1>13, <1>14, <1>15 DEF QueueInv

\* Only a queue of one element is reset, so that no enqueue is under way.
LEMMA TestLastKeeps ==
  ASSUME QueueInv, NEW t \in Threads, TestLast(t), Noted, ~ risky'
  PROVE  QueueInv'
<1>1. PICK i \in {idx[t], front} :
        /\ Work(t) /\ Step(t, "test_last", IF i = rear THEN "reset_front" ELSE "set_next")
        /\ idx' = [idx EXCEPT ![t] = i]
        /\ UNCHANGED <<data, front, rear, accepted, taken>>
  BY DEF TestLast, Reread
<1>2. at[t] = "test_last" /\ Dequeues(t)
  BY <1>1 DEF Step, QueueInv, PlacesInv, InDequeue
<1>3. i = front /\ front # None /\ rear # None /\ front \in Cells
  BY <1>1, <1>2 DEF QueueInv, QueueTypes, DequeueInv
<1>4. PICK to : to = IF front = rear THEN "reset_front" ELSE "set_next"
  OBVIOUS
<1>5. Step(t, "test_last", to) /\ Work(t)
  BY <1>1, <1>3, <1>4
<1>6. /\ PlacesInv' /\ UNCHANGED <<want, pc>>
      /\ at' \in [Threads -> {"out", "begin", "return"} \cup InEnqueue \cup InDequeue]
      /\ at'[t] = to /\ \A u \in Threads : u # t => at'[u] = at[u]
  <2>1. to \notin InEnqueue /\ to \in InDequeue
    BY <1>4 DEF InEnqueue, InDequeue
  <2>. QED
    BY <1>2, <1>5, <2>1, WorkPlaces DEF QueueInv
<1>7. /\ Exclusive'
      /\ \A u \in Threads : Enqueues(u) /\ at'[u] # "out" => front # rear
  <2>1. at'[t] # "out"
    BY <1>4, <1>6
  <2>. QED
    BY <1>2, <2>1, NotRisky DEF QueueInv
<1>8. idx'[t] = front /\ \A u \in Threads : u # t => idx'[u] = idx[u]
  BY <1>1, <1>3 DEF QueueInv, QueueTypes
<1>9. QueueTypes'
  BY <1>1, <1>3, <1>6 DEF QueueInv, QueueTypes
<1>10. MeetInv'
  <2>1. ~ Half'
    BY <1>1, <1>3 DEF Half
  <2>2. \A d, u \in Threads : at'[d] \in {"reset_front", "reset_rear"} /\ Enqueues(u)' => at'[u] = "out"
    <3>. SUFFICES ASSUME NEW d \in Threads, NEW u \in Threads,
                         at'[d] \in {"reset_front", "reset_rear"}, Enqueues(u), at'[u] # "out"
                  PROVE  FALSE
      BY <1>6 DEF Enqueues
    <3>1. CASE d = t
      BY <1>4, <1>6, <1>7, <3>1
    <3>2. CASE d # t
      <4>1. at[d] \in {"reset_front", "reset_rear"}
        BY <1>6, <3>2
      <4>2. at[d] \notin InDequeue
        BY <1>2, <3>2, OnlyDequeuer
      <4>. QED
        BY <4>1, <4>2 DEF InDequeue
    <3>. QED
      BY <3>1, <3>2
  <2>. QED
    BY <1>1, <1>3, <2>1, <2>2 DEF MeetInv
<1>11. EnqueueInv(t)' /\ DequeueInv(t)'
  BY <1>1, <1>3, <1>4, <1>6, <1>8 DEF EnqueueInv, DequeueInv, Half
<1>. QED
  BY <1>1, <1>2, <1>4, <1>6, <1>7, <1>8, <1>9, <1>10, <1>11, QuietStep

\* A thread outside has nothing to keep.
LEMMA OutsideKeeps ==
  ASSUME NEW u \in Threads, at'[u] \notin InEnqueue, at'[u] \notin InDequeue,
         Enqueues(u)' => at'[u] = "out" \/ ~ Half'
  PROVE  EnqueueInv(u)' /\ DequeueInv(u)'
BY DEF EnqueueInv, DequeueInv, InEnqueue, InDequeue

\* The last element is removed: front first ...
LEMMA ResetFrontKeeps ==
  ASSUME QueueInv, NEW t \in Threads, ResetFront(t), Noted, ~ risky'
  PROVE  QueueInv'
<1>1. /\ Work(t) /\ Step(t, "reset_front", "reset_rear") /\ front' = None
      /\ UNCHANGED <<data, rear, idx, accepted, taken>>
  BY DEF ResetFront
<1>2. at[t] = "reset_front" /\ Dequeues(t)
  BY <1>1 DEF Step, QueueInv, PlacesInv, InDequeue
<1>3. /\ PlacesInv' /\ UNCHANGED <<want, pc>>
      /\ at' \in [Threads -> {"out", "begin", "return"} \cup InEnqueue \cup InDequeue]
      /\ at'[t] = "reset_rear" /\ \A u \in Threads : u # t => at'[u] = at[u]
  <2>1. "reset_rear" \notin InEnqueue /\ "reset_rear" \in InDequeue
    BY DEF InEnqueue, InDequeue
  <2>. QED
    BY <1>1, <1>2, <2>1, WorkPlaces DEF QueueInv
<1>4. Exclusive'
  BY NotRisky DEF QueueInv
<1>5. /\ front = rear /\ rear \in Cells /\ front \in Cells /\ None \notin Cells
  BY <1>1, <1>2, HeldFacts DEF QueueInv, QueueTypes, DequeueInv
<1>6. /\ \A u \in Threads : Enqueues(u) => at[u] = "out"
      /\ \A u \in Threads : at[u] \notin InEnqueue
  <2>1. \A u \in Threads : Enqueues(u) => at[u] = "out"
    BY <1>2 DEF QueueInv, MeetInv
  <2>. QED
    BY <2>1 DEF QueueInv, PlacesInv, InEnqueue
<1>7. \A u \in Threads : u # t => at[u] \notin InDequeue
  BY <1>2, OnlyDequeuer
<1>8. QueueTypes' /\ HistoryInv' /\ ~ Half' /\ Len(taken) \in Nat
  BY <1>1, <1>3 DEF QueueInv, QueueTypes, HistoryInv, Half
<1>9. Pointing /\ gone = Len(taken) - 1
  BY <1>2 DEF Pointing, gone
<1>10. ShapeInv'
  <2>1. Len(accepted) = gone + 1
    BY <1>5, Positions DEF QueueInv, ShapeInv
  <2>. QED
    BY <1>1, <1>8, <1>9, <2>1 DEF ShapeInv
<1>11. MeetInv'
  BY <1>2, <1>3, <1>6, <1>8 DEF MeetInv, Enqueues
<1>12. ASSUME NEW u \in Threads PROVE EnqueueInv(u)' /\ DequeueInv(u)'
  <2>1. CASE u = t
    BY <1>1, <1>3, <2>1 DEF EnqueueInv, DequeueInv
  <2>2. CASE u # t
    <3>1. at'[u] \notin InEnqueue /\ at'[u] \notin InDequeue
      BY <1>3, <1>6, <1>7, <2>2
    <3>. QED
      BY <1>8, <3>1, OutsideKeeps
  <2>. QED
    BY <2>1, <2>2
<1>. QED
  BY <1>3, <1>4, <1>8, <1>10, <1>11, <1>12 DEF QueueInv

\* ... then rear.
LEMMA ResetRearKeeps ==
  ASSUME QueueInv, NEW t \in Threads, ResetRear(t), Noted, ~ risky'
  PROVE  QueueInv'
<1>1. /\ Work(t) /\ Step(t, "reset_rear", "return") /\ rear' = None
      /\ UNCHANGED <<data, front, idx, accepted, taken>>
  BY DEF ResetRear
<1>2. at[t] = "reset_rear" /\ Dequeues(t)
  BY <1>1 DEF Step, QueueInv, PlacesInv, InDequeue
<1>3. /\ PlacesInv' /\ UNCHANGED <<want, pc>>
      /\ at' \in [Threads -> {"out", "begin", "return"} \cup InEnqueue \cup InDequeue]
      /\ at'[t] = "return" /\ \A u \in Threads : u # t => at'[u] = at[u]
  <2>1. "return" \notin InEnqueue /\ "return" \notin InDequeue
    BY DEF InEnqueue, InDequeue
  <2>. QED
    BY <1>1, <1>2, <2>1, WorkPlaces DEF QueueInv
<1>4. Exclusive'
  BY NotRisky DEF QueueInv
<1>5. front = None
  BY <1>2 DEF QueueInv, DequeueInv
<1>6. \A u \in Threads : at[u] \notin InEnqueue
  <2>1. \A u \in Threads : Enqueues(u) => at[u] = "out"
    BY <1>2 DEF QueueInv, MeetInv
  <2>. QED
    BY <2>1 DEF QueueInv, PlacesInv, InEnqueue
<1>7. \A u \in Threads : u # t => at[u] \notin InDequeue
  BY <1>2, OnlyDequeuer
<1>8. QueueTypes' /\ HistoryInv' /\ ~ Half'
  BY <1>1, <1>3, <1>5 DEF QueueInv, QueueTypes, HistoryInv, Half
<1>9. ShapeInv'
  BY <1>1, <1>5, <1>8 DEF QueueInv, ShapeInv
<1>10. \A u \in Threads : at'[u] \notin InEnqueue /\ at'[u] \notin InDequeue
  <2>1. "return" \notin InEnqueue /\ "return" \notin InDequeue
    BY DEF InEnqueue, InDequeue
  <2>. QED
    BY <1>3, <1>6, <1>7, <2>1
<1>11. MeetInv'
  BY <1>1, <1>8, <1>10 DEF MeetInv, InDequeue
<1>12. ASSUME NEW u \in Threads PROVE EnqueueInv(u)' /\ DequeueInv(u)'
  BY <1>8, <1>10, OutsideKeeps
<1>. QED
  BY <1>3, <1>4, <1>8, <1>9, <1>11, <1>12 DEF QueueInv

\* An element that is not the last one is removed: an enqueue at the other
\* end does not notice.
LEMMA SetNextKeeps ==
  ASSUME QueueInv, NEW t \in Threads, SetNext(t), Noted, ~ risky'
  PROVE  QueueInv'
<1>1. /\ Work(t) /\ Step(t, "set_next", "return")
      /\ \E i \in {idx[t], front} : front' = Next1(i)
      /\ UNCHANGED <<data, rear, idx, accepted, taken>>
  BY DEF SetNext, Reread
<1>2. at[t] = "set_next" /\ Dequeues(t)
  BY <1>1 DEF Step, QueueInv, PlacesInv, InDequeue
<1>3. /\ PlacesInv' /\ UNCHANGED <<want, pc>>
      /\ at' \in [Threads -> {"out", "begin", "return"} \cup InEnqueue \cup InDequeue]
      /\ at'[t] = "return" /\ \A u \in Threads : u # t => at'[u] = at[u]
  <2>1. "return" \notin InEnqueue /\ "return" \notin InDequeue
    BY DEF InEnqueue, InDequeue
  <2>. QED
    BY <1>1, <1>2, <2>1, WorkPlaces DEF QueueInv
<1>4. Exclusive'
  BY NotRisky DEF QueueInv
<1>5. /\ front # rear /\ rear \in Cells /\ front \in Cells /\ None \notin Cells
      /\ front' = Next1(front) /\ front' \in Cells
  <2>1. /\ front # rear /\ front # None /\ rear # None /\ idx[t] = front
        /\ front \in Cells \cup {None} /\ rear \in Cells \cup {None}
    BY <1>2 DEF QueueInv, QueueTypes, DequeueInv
  <2>2. front' = Next1(front)
    BY <1>1, <2>1
  <2>. QED
    BY <2>1, <2>2, NextCell, HeldFacts DEF QueueInv
<1>6. /\ \A u \in Threads : at[u] \notin {"reset_front", "reset_rear"} /\ (u # t => at[u] \notin InDequeue)
  <2>1. \A u \in Threads : u # t => at[u] \notin InDequeue
    BY <1>2, OnlyDequeuer
  <2>. QED
    BY <1>2, <2>1 DEF InDequeue
<1>7. QueueTypes' /\ HistoryInv' /\ ~ Half' /\ Len(taken) \in Nat
  BY <1>1, <1>3, <1>5 DEF QueueInv, QueueTypes, HistoryInv, Half
<1>8. /\ Pointing /\ gone = Len(taken) - 1 /\ Writing' = Writing
      /\ ~ Pointing' /\ gone' = Len(taken)
  <2>1. Pointing /\ ~ Pointing' /\ Writing' = Writing
    BY <1>2, <1>3, <1>6 DEF Pointing, Writing, InDequeue
  <2>. QED
    BY <1>1, <2>1 DEF gone
<1>9. /\ Distance(front', rear') = Distance(front, rear) - 1
      /\ Distance(front, rear) \in 1..QUEUE_SIZE
      /\ \A i \in 1..(QUEUE_SIZE - 1) : Pos(front', i) = Pos(front, i + 1)
  BY <1>1, <1>5, Shorter, Positions
<1>10. ShapeInv'
  <2>1. /\ Len(accepted) = gone + Distance(front, rear)
        /\ \A i \in 1..Distance(front, rear) :
             (Writing /\ i = Distance(front, rear)) \/ data[Pos(front, i)] = gone + i
    BY <1>5 DEF QueueInv, ShapeInv
  <2>2. ASSUME NEW i \in 1..Distance(front', rear')
        PROVE  (Writing' /\ i = Distance(front', rear')) \/ data'[Pos(front', i)] = gone' + i
    <3>1. PICK j : j = i + 1
      OBVIOUS
    <3>2. j \in 1..Distance(front, rear) /\ Pos(front', i) = Pos(front, j) /\ i \in Nat
      BY <1>9, <3>1, QueueAssumption
    <3>3. (Writing /\ j = Distance(front, rear)) \/ data[Pos(front, j)] = gone + j
      BY <2>1, <3>2
    <3>4. j = Distance(front, rear) => i = Distance(front', rear')
      BY <1>9, <3>1, <3>2
    <3>5. gone + j = gone' + i
      BY <1>7, <1>8, <3>1, <3>2
    <3>. QED
      BY <1>1, <1>8, <3>2, <3>3, <3>4, <3>5
  <2>3. Len(accepted') = gone' + Distance(front', rear')
    BY <1>1, <1>7, <1>8, <1>9, <2>1
  <2>4. front' # None /\ rear' # None
    BY <1>1, <1>5
  <2>. QED
    BY <2>2, <2>3, <2>4 DEF ShapeInv, Half
<1>11. MeetInv'
  <2>1. \A u \in Threads : at'[u] \notin {"reset_front", "reset_rear"}
    BY <1>3, <1>6
  <2>2. front' # None
    BY <1>5
  <2>. QED
    BY <1>7, <2>1, <2>2 DEF MeetInv
<1>12. ASSUME NEW u \in Threads PROVE EnqueueInv(u)' /\ DequeueInv(u)'
  <2>1. DequeueInv(u)'
    BY <1>3, <1>6 DEF DequeueInv, InDequeue
  <2>2. CASE u = t
    BY <1>3, <1>7, <2>1, <2>2 DEF EnqueueInv
  <2>3. CASE u # t
    <3>1. EnqueueInv(u) /\ at'[u] = at[u] /\ idx'[u] = idx[u] /\ want' = want /\ rear' = rear
      BY <1>1, <1>3, <2>3 DEF QueueInv
    <3>2. at[u] # "set_front"
      BY <1>5, <3>1 DEF EnqueueInv
    <3>3. at[u] \in {"test_first", "reload", "set_rear"} => Distance(front', rear') < QUEUE_SIZE
      BY <1>9, QueueAssumption
    <3>4. front' # None /\ rear # None /\ ~ Half'
      BY <1>5, <1>7
    <3>5. Next1(rear)' = Next1(rear)
      BY <3>1 DEF Next1
    <3>6. EnqueueInv(u)'
      BY <3>1, <3>2, <3>3, <3>4, <3>5 DEF EnqueueInv
    <3>. QED
      BY <2>1, <3>6
  <2>. QED
    BY <2>2, <2>3
<1>. QED
  BY <1>3, <1>4, <1>7, <1>10, <1>11, <1>12 DEF QueueInv

-----------------------------------------------------------------------------
\* An empty queue.
LEMMA QueueStarts == QueueInit => QueueInv
<1>. SUFFICES ASSUME QueueInit PROVE QueueInv
  OBVIOUS
<1>1. /\ want \in [Threads -> Locks \cup {NoLock}] /\ pc = [t \in Threads |-> "idle"]
      /\ data = [c \in Cells |-> Garbage] /\ front = None /\ rear = None
      /\ at = [t \in Threads |-> "out"] /\ idx = [t \in Threads |-> None]
      /\ accepted = <<>> /\ taken = <<>>
  BY DEF QueueInit, Init
<1>2. QueueTypes
  <2>1. Garbage \in Nat
    BY DEF Garbage
  <2>. QED
    BY <1>1, <2>1 DEF QueueTypes, Pcs
<1>3. HistoryInv
  BY <1>1 DEF HistoryInv
<1>4. PlacesInv /\ Exclusive
  BY <1>1 DEF PlacesInv, Exclusive, Holding, InEnqueue, InDequeue
<1>5. ShapeInv /\ MeetInv
  BY <1>1 DEF ShapeInv, MeetInv, Half
<1>6. \A t \in Threads : EnqueueInv(t) /\ DequeueInv(t)
  BY <1>1 DEF EnqueueInv, DequeueInv, Half
<1>. QED
  BY <1>2, <1>3, <1>4, <1>5, <1>6 DEF QueueInv

\* The invariant of a queue that is used as it can be.
THEOREM QueueInvariant == QueueSpec => [](~ risky => QueueInv)
<1>1. QueueInit => (~ risky => QueueInv)
  BY QueueStarts
<1>2. (~ risky => QueueInv) /\ [QueueNext]_<<lockVars, queueVars>> => (~ risky => QueueInv)'
  <2>. SUFFICES ASSUME ~ risky => QueueInv, [QueueNext]_<<lockVars, queueVars>>, ~ risky'
                PROVE  QueueInv'
    OBVIOUS
  <2>1. CASE QueueNext
    <3>1. PICK t \in Threads :
            (CallOperation(t) \/ Securing(t) \/ Enqueue(t) \/ Dequeue(t) \/ Return(t)) /\ Noted
      BY <2>1 DEF QueueNext, QueueStep
    <3>2. ~ risky /\ QueueInv
      BY <3>1 DEF Noted
    <3>. QED
      BY <3>1, <3>2, CallOperationKeeps, SecuringKeeps, ReturnKeeps, LoadRearKeeps, TestFullKeeps,
         TestFirstKeeps, SetFrontKeeps, ReloadRearKeeps, SetRearKeeps, WriteDataKeeps,
         TestEmptyKeeps, ReadDataKeeps, TestLastKeeps, ResetFrontKeeps, ResetRearKeeps, SetNextKeeps
      DEF Enqueue, Dequeue
  <2>2. CASE UNCHANGED <<lockVars, queueVars>>
    BY <2>2 DEF lockVars, queueVars, QueueInv, QueueTypes, HistoryInv, PlacesInv, Exclusive, Holding,
       ShapeInv, Half, Writing, Pointing, gone, MeetInv, EnqueueInv, DequeueInv, Enqueues, Dequeues,
       Distance, Next1
  <2>. QED
    BY <2>1, <2>2
<1>. QED
  BY <1>1, <1>2, PTL DEF QueueSpec

\* A sequence that counts up to where the next one goes on counting.
LEMMA CountsOn ==
  ASSUME NEW a \in Seq(Nat), NEW b \in Seq(Nat),
         \A i \in 1..Len(a) : a[i] = i, \A i \in 1..Len(b) : b[i] = Len(a) + i
  PROVE  /\ a \o b \in Seq(Nat) /\ Len(a \o b) = Len(a) + Len(b)
         /\ \A i \in 1..(Len(a) + Len(b)) : (a \o b)[i] = i
<1>1. /\ a \o b \in Seq(Nat) /\ Len(a \o b) = Len(a) + Len(b)
      /\ \A i \in 1..(Len(a) + Len(b)) :
           (a \o b)[i] = IF i <= Len(a) THEN a[i] ELSE b[i - Len(a)]
  BY ConcatProperties
<1>2. ASSUME NEW i \in 1..(Len(a) + Len(b)) PROVE (a \o b)[i] = i
  <2>1. CASE i <= Len(a)
    BY <1>1, <2>1
  <2>2. CASE i > Len(a)
    <3>1. i - Len(a) \in 1..Len(b)
      BY <2>2
    <3>. QED
      BY <1>1, <2>2, <3>1
  <2>. QED
    BY <2>1, <2>2
<1>. QED
  BY <1>1, <1>2

\* 10-cq.c hands out the values in the order in which they were enqueued, for
\* any number of threads and any size of the queue, as long as an enqueue and
\* a dequeue never meet with fewer than two elements.
THEOREM QueueOfTwoLocksIsFifo == QueueSpec => []FifoUnlessRisky
<1>1. QueueInv => FifoUnlessRisky
  <2>. SUFFICES ASSUME QueueInv PROVE FifoUnlessRisky
    OBVIOUS
  <2>1. /\ accepted \in Seq(Nat) /\ taken \in Seq(Nat) /\ Len(accepted) \in Nat /\ Len(taken) \in Nat
        /\ \A i \in 1..Len(accepted) : accepted[i] = i
        /\ \A i \in 1..Len(taken) : taken[i] = i
    BY DEF QueueInv, HistoryInv
  <2>2. /\ front # None => front \in Cells
        /\ rear # None => rear \in Cells
        /\ None \notin Cells
    BY HeldFacts DEF QueueInv, QueueTypes
  <2>3. Len(taken) <= Len(accepted)
    <3>1. CASE front = None \/ rear = None
      BY <2>1, <3>1 DEF QueueInv, ShapeInv, Half
    <3>2. CASE front # None /\ rear # None
      <4>1. Len(accepted) = gone + Distance(front, rear) /\ Distance(front, rear) \in 1..QUEUE_SIZE
        BY <2>2, <3>2, Positions DEF QueueInv, ShapeInv
      <4>2. gone >= Len(taken) - 1 /\ gone \in Int
        BY <2>1 DEF gone
      <4>. QED
        BY <2>1, <4>1, <4>2, QueueAssumption
    <3>. QED
      BY <3>1, <3>2
  <2>4. ASSUME Quiet PROVE taken \o Contents = accepted
    <3>1. ~ Writing /\ ~ Pointing /\ ~ Half
      BY <2>4 DEF Quiet, Writing, Pointing, QueueInv, MeetInv
    <3>2. front = None => rear = None
      BY <2>4 DEF Quiet, QueueInv, MeetInv
    <3>3. gone = Len(taken)
      BY <3>1 DEF gone
    <3>4. CASE front = None
      <4>1. Held = 0
        BY <3>4 DEF Held
      <4>2. Contents = <<>>
        BY <4>1 DEF Contents
      <4>3. Len(accepted) = Len(taken)
        BY <3>4 DEF QueueInv, ShapeInv
      <4>4. taken \o Contents = taken
        BY <2>1, <4>2
      <4>5. taken = accepted
        BY <2>1, <4>3, SeqEqual
      <4>. QED
        BY <4>4, <4>5
    <3>5. CASE front # None
      <4>1. rear # None /\ front \in Cells /\ rear \in Cells
        BY <2>2, <3>1, <3>5 DEF Half
      <4>2. Held = Distance(front, rear) /\ Held \in 1..QUEUE_SIZE
        BY <2>2, <4>1, HeldFacts, Positions DEF QueueInv
      <4>3. Len(accepted) = Len(taken) + Held /\ \A i \in 1..Held : data[Pos(front, i)] = Len(taken) + i
        BY <3>1, <3>3, <3>5, <4>1, <4>2 DEF QueueInv, ShapeInv
      <4>4. ASSUME NEW i \in 1..Held PROVE data[(front + i - 1) % QUEUE_SIZE] = Len(taken) + i
        <5>1. PICK n : n = front + i - 1
          OBVIOUS
        <5>2. n \in Nat /\ n < 2 * QUEUE_SIZE /\ QUEUE_SIZE \in Nat /\ QUEUE_SIZE > 1
          BY <4>1, <4>2, <5>1, QueueAssumption DEF Cells
        <5>3. n % QUEUE_SIZE = IF n < QUEUE_SIZE THEN n ELSE n - QUEUE_SIZE
          BY <5>2, Z3
        <5>4. n % QUEUE_SIZE = Pos(front, i)
          <6>0. front \in Nat /\ i \in Nat
            BY <4>1, <4>2 DEF Cells
          <6>1. CASE n < QUEUE_SIZE
            <7>1. Pos(front, i) = n
              BY <5>1, <5>2, <6>0, <6>1 DEF Pos
            <7>. QED
              BY <5>3, <6>1, <7>1, Zenon
          <6>2. CASE ~ (n < QUEUE_SIZE)
            <7>1. Pos(front, i) = n - QUEUE_SIZE
              BY <5>1, <5>2, <6>0, <6>2 DEF Pos
            <7>. QED
              BY <5>3, <6>2, <7>1, Zenon
          <6>. QED
            BY <6>1, <6>2
        <5>5. (front + i - 1) % QUEUE_SIZE = Pos(front, i)
          BY <5>1, <5>4, Zenon
        <5>. QED
          BY <4>3, <5>5, Zenon
      <4>5. /\ Contents \in Seq(Nat) /\ Len(Contents) = Held
            /\ \A i \in 1..Held : Contents[i] = Len(taken) + i
        <5>1. Held \in Nat
          BY <4>2, QueueAssumption
        <5>2. /\ Contents = [i \in 1..Held |-> data[(front + i - 1) % QUEUE_SIZE]]
          BY DEF Contents
        <5>3. \A i \in 1..Held : Contents[i] = Len(taken) + i
          BY <4>4, <5>2
        <5>4. \A i \in 1..Held : data[(front + i - 1) % QUEUE_SIZE] \in Nat
          BY <2>1, <4>4, <5>1
        <5>. QED
          BY <5>1, <5>2, <5>3, <5>4
      <4>6. /\ taken \o Contents \in Seq(Nat)
            /\ Len(taken \o Contents) = Len(accepted)
            /\ \A i \in 1..Len(accepted) : (taken \o Contents)[i] = i
        BY <2>1, <4>3, <4>5, CountsOn
      <4>. QED
        BY <2>1, <4>6, SeqEqual
    <3>. QED
      BY <3>4, <3>5
  <2>5. \A i \in 1..Len(taken) : i <= Len(accepted) /\ taken[i] = accepted[i]
    BY <2>1, <2>3
  <2>. QED
    BY <2>4, <2>5 DEF FifoUnlessRisky
<1>2. (~ risky => QueueInv) => FifoUnlessRisky
  <2>. SUFFICES ASSUME risky PROVE FifoUnlessRisky
    BY <1>1
  <2>. QED
    BY DEF FifoUnlessRisky
<1>. QED
  BY <1>2, QueueInvariant, PTL
=============================================================================
