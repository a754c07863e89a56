-------------------------- MODULE TwoLockQueue --------------------------
(***************************************************************************)
(* 10-cq.c: a circular queue in which enqueue and dequeue hold different   *)
(* locks, so that an enqueue and a dequeue may work on front and rear at   *)
(* the same time.  Every load and store is a step.  A value that the C     *)
(* text names again may be loaded again or taken from its register.        *)
(***************************************************************************)
EXTENDS VibeLock, Sequences

CONSTANTS
  enqueue_lock, dequeue_lock,
  QUEUE_SIZE,
  Clients         \* the threads of a program: the lock a thread uses, and its calls

ASSUME QueueAssumption ==
  /\ {enqueue_lock, dequeue_lock} \subseteq Locks /\ enqueue_lock # dequeue_lock
  /\ QUEUE_SIZE \in Nat \ {0, 1}
  /\ Clients \subseteq [Threads -> [lock : {enqueue_lock, dequeue_lock, NoLock}, calls : Nat]]

VARIABLES
  data, front, rear,      \* the AtomicQueue
  at,             \* at[t]: the next step of t in its critical section
  idx,            \* idx[t]: the register that holds front or rear
  ops,            \* ops[t]: calls to go
  accepted,       \* history: the values enqueued, in the order of the rear stores
  taken,          \* history: the values dequeued
  risky           \* history: the queue was used as it cannot be

queueVars == <<data, front, rear, at, idx, ops, accepted, taken, risky>>

None == -1              \* front and rear of an empty queue
Garbage == 0            \* what a cell never written holds
Cells == 0..(QUEUE_SIZE - 1)
Next1(i) == (i + 1) % QUEUE_SIZE

Enqueues(t) == want[t] = enqueue_lock
Dequeues(t) == want[t] = dequeue_lock

\* queue_init
QueueInit ==
  /\ Init
  /\ data = [c \in Cells |-> Garbage] /\ front = None /\ rear = None
  /\ at = [t \in Threads |-> "out"] /\ idx = [t \in Threads |-> None]
  /\ \E client \in Clients : /\ want = [t \in Threads |-> client[t].lock]
                            /\ ops = [t \in Threads |-> client[t].calls]
  /\ accepted = <<>> /\ taken = <<>> /\ risky = FALSE

\* The elements between front and rear.
Held == IF None \in {front, rear} THEN 0 ELSE ((rear + QUEUE_SIZE - front) % QUEUE_SIZE) + 1

Inside(t) == at'[t] # "out"

\* What makes the queue unsafe: an enqueue and a dequeue work on it while
\* less than two elements are in it, or the lock fails.
Noted ==
  risky' = (risky \/ ~ Exclusive'
                  \/ (Held <= 1 /\ \E t, u \in Threads : Enqueues(t) /\ Dequeues(u) /\ Inside(t) /\ Inside(u)))

Step(t, from, to) == at[t] = from /\ at' = [at EXCEPT ![t] = to]

\* The register or, if the C text names the variable again, its value now.
Reread(t, variable) == {idx[t], variable}

-----------------------------------------------------------------------------
CallOperation(t) ==
  /\ ops[t] > 0 /\ Call(t)
  /\ ops' = [ops EXCEPT ![t] = @ - 1]
  /\ UNCHANGED <<data, front, rear, at, idx, accepted, taken>>

Securing(t) ==
  /\ SecureVibes(t)
  /\ at' = [at EXCEPT ![t] = IF pc'[t] = "cs" THEN "begin" ELSE @]
  /\ UNCHANGED <<data, front, rear, idx, ops, accepted, taken>>

Work(t) == pc[t] = "cs" /\ UNCHANGED <<lockVars, ops>>

\* queue_enqueue: rear is loaded for the test of a full queue ...
LoadRear(t) ==
  /\ Work(t) /\ Enqueues(t) /\ Step(t, "begin", "test_full")
  /\ idx' = [idx EXCEPT ![t] = rear]
  /\ UNCHANGED <<data, front, rear, accepted, taken>>

TestFull(t) ==
  /\ Work(t) /\ Step(t, "test_full", IF Next1(idx[t]) = front THEN "return" ELSE "test_first")
  /\ UNCHANGED <<data, front, rear, idx, accepted, taken>>

\* ... the first element sets front (loaded again here: a register that kept it
\* from TestFull differs in the test only if a dequeue took the last element in
\* between, which is risky) ...
TestFirst(t) ==
  /\ Work(t) /\ Step(t, "test_first", IF front = None THEN "set_front" ELSE "reload")
  /\ UNCHANGED <<data, front, rear, idx, accepted, taken>>

SetFront(t) ==
  /\ Work(t) /\ Step(t, "set_front", "reload")
  /\ front' = 0
  /\ UNCHANGED <<data, rear, idx, accepted, taken>>

\* ... rear moves to the new element before the element is written.
ReloadRear(t) ==
  /\ Work(t) /\ Step(t, "reload", "set_rear")
  /\ \E r \in Reread(t, rear) : idx' = [idx EXCEPT ![t] = Next1(r)]
  /\ UNCHANGED <<data, front, rear, accepted, taken>>

SetRear(t) ==
  /\ Work(t) /\ Step(t, "set_rear", "write")
  /\ rear' = idx[t]
  /\ accepted' = Append(accepted, Len(accepted) + 1)
  /\ UNCHANGED <<data, front, idx, taken>>

\* (data[-1], if rear was reset meanwhile, is not a cell.)
WriteData(t) ==
  /\ Work(t) /\ Step(t, "write", "return")
  /\ \E i \in Reread(t, rear) :
       data' = [c \in Cells |-> IF c = i THEN Len(accepted) ELSE data[c]]
  /\ UNCHANGED <<front, rear, idx, accepted, taken>>

\* queue_dequeue: front is loaded for the test of an empty queue ...
TestEmpty(t) ==
  /\ Work(t) /\ Dequeues(t) /\ Step(t, "begin", IF front = None THEN "return" ELSE "read")
  /\ idx' = [idx EXCEPT ![t] = front]
  /\ UNCHANGED <<data, front, rear, accepted, taken>>

\* ... the element is read ...
ReadData(t) ==
  /\ Work(t) /\ Step(t, "read", "test_last")
  /\ \E i \in Reread(t, front) :
       taken' = Append(taken, IF i \in Cells THEN data[i] ELSE Garbage)
  /\ UNCHANGED <<data, front, rear, idx, accepted>>

\* ... and if it was the last one the queue is reset, front first.
TestLast(t) ==
  /\ Work(t)
  /\ \E i \in Reread(t, front) :
       /\ Step(t, "test_last", IF i = rear THEN "reset_front" ELSE "set_next")
       /\ idx' = [idx EXCEPT ![t] = i]
  /\ UNCHANGED <<data, front, rear, accepted, taken>>

ResetFront(t) ==
  /\ Work(t) /\ Step(t, "reset_front", "reset_rear")
  /\ front' = None
  /\ UNCHANGED <<data, rear, idx, accepted, taken>>

ResetRear(t) ==
  /\ Work(t) /\ Step(t, "reset_rear", "return")
  /\ rear' = None
  /\ UNCHANGED <<data, front, idx, accepted, taken>>

\* Mutant of SetNext: no wrap at the end of the array.
SetNextUnwrapped(t) ==
  /\ Work(t) /\ Step(t, "set_next", "return")
  /\ front' = front + 1
  /\ UNCHANGED <<data, rear, idx, accepted, taken>>

SetNext(t) ==
  /\ Work(t) /\ Step(t, "set_next", "return")
  /\ \E i \in Reread(t, front) : front' = Next1(i)
  /\ UNCHANGED <<data, rear, idx, accepted, taken>>

\* release_vibes, on every path.
Return(t) ==
  /\ at[t] = "return"
  /\ IF pc[t] = "cs" THEN Leave(t) /\ UNCHANGED at
                     ELSE Release(t) /\ at' = [at EXCEPT ![t] = "out"]
  /\ UNCHANGED <<data, front, rear, idx, ops, accepted, taken>>

Enqueue(t) ==
  LoadRear(t) \/ TestFull(t) \/ TestFirst(t) \/ SetFront(t) \/ ReloadRear(t) \/ SetRear(t) \/ WriteData(t)

Dequeue(t) ==
  TestEmpty(t) \/ ReadData(t) \/ TestLast(t) \/ ResetFront(t) \/ ResetRear(t) \/ SetNext(t)

QueueStep(t) ==
  (CallOperation(t) \/ Securing(t) \/ Enqueue(t) \/ Dequeue(t) \/ Return(t)) /\ Noted

QueueNext == \E t \in Threads : QueueStep(t)

QueueSpec == QueueInit /\ [][QueueNext]_<<lockVars, queueVars>>

-----------------------------------------------------------------------------
Contents == [i \in 1..Held |-> data[(front + i - 1) % QUEUE_SIZE]]
Quiet == \A t \in Threads : at[t] = "out"

\* Two locks are safe as long as an enqueue and a dequeue never meet with
\* fewer than two elements in the queue: what was dequeued and what is left
\* are then the values enqueued, in order.
FifoUnlessRisky ==
  ~ risky =>
    /\ \A i \in 1..Len(taken) : i <= Len(accepted) /\ taken[i] = accepted[i]
    /\ Quiet => taken \o Contents = accepted

QueuesFinish == \A t \in Threads : ops[t] = 0 /\ pc[t] = "idle"
=============================================================================
