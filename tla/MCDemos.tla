----------------------------- MODULE MCDemos -----------------------------
(* Instances of the demo programs for TLC: one of them is loaded.          *)
EXTENDS SharedCounter, TwoLockQueue, RingBuf

VARIABLE program
vars == <<program, lockVars, counterVars, queueVars, ringVars>>

\* 10-cq.c: two producers and two consumers; and one of each, with more calls.
Uses(l, n) == [lock |-> l, calls |-> n]
Idles == Uses(NoLock, 0)
QueueClients ==
  { <<Uses(enqueue_lock, 1), Uses(enqueue_lock, 1), Uses(dequeue_lock, 1), Uses(dequeue_lock, 1)>>,
    <<Uses(enqueue_lock, 4), Uses(dequeue_lock, 4), Idles, Idles>> }

Steps == {1, 2, -1}
Values == <<1, 2, 3, 4>>

NotCounting ==
  /\ delta = [t \in Threads |-> 0] /\ acc = delta /\ left = delta
  /\ global_var = 0 /\ added = 0
NotQueueing ==
  /\ data = <<>> /\ front = None /\ rear = None /\ at = [t \in Threads |-> "out"] /\ idx = <<>> /\ ops = <<>>
  /\ accepted = <<>> /\ taken = <<>> /\ risky = FALSE
NotBuffering ==
  /\ buf = <<>> /\ head = 0 /\ tail = 0 /\ ppc = "off" /\ phead = 0 /\ sent = 0
  /\ consumer = "off" /\ cpc = "off" /\ chead = 0 /\ ctail = 0 /\ el = 0
  /\ received = <<>> /\ outcome = "none"

MCInit ==
  \/ program = "counter" /\ CounterInit /\ NotQueueing /\ NotBuffering
  \/ program = "queue" /\ QueueInit /\ NotCounting /\ NotBuffering
  \/ /\ program = "lock" /\ Init /\ AtMostTwoUsers
     /\ NotCounting /\ NotQueueing /\ NotBuffering
  \/ /\ program = "ring" /\ RingInit /\ NotCounting /\ NotQueueing
     /\ Init /\ want = [t \in Threads |-> NoLock]

\* Any two clients of VibeLock.
Lock == program = "lock" /\ Next /\ UNCHANGED <<program, counterVars, queueVars, ringVars>>
Counter(t) == program = "counter" /\ CounterStep(t) /\ UNCHANGED <<program, queueVars, ringVars>>
Queue(t) == program = "queue" /\ QueueStep(t) /\ UNCHANGED <<program, counterVars, ringVars>>
Ring == program = "ring" /\ RingNext /\ UNCHANGED <<program, lockVars, counterVars, queueVars>>

MCNext == Lock \/ (\E t \in Threads : Counter(t) \/ Queue(t)) \/ Ring

MCSpec == MCInit /\ [][MCNext]_vars /\ \A t \in Threads : WF_vars(Counter(t))

\* The functions that count return, under every switching that lets each
\* thread go on.
CountersEnd == <>(program = "counter" => CountersFinish)
=============================================================================
