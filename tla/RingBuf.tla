----------------------------- MODULE RingBuf -----------------------------
(***************************************************************************)
(* 12-quantum-leap-rb.c: a lock-free ring buffer between one producer and  *)
(* one consumer, load by load and store by store.                          *)
(***************************************************************************)
EXTENDS Integers, Sequences

CONSTANTS
  end,            \* me->end, the slots; one of them stays empty
  Elements        \* the sequence that the producer puts

ASSUME RingAssumption == end \in Nat \ {0, 1} /\ Elements \in Seq(Nat)

VARIABLES
  buf, head, tail,        \* the RingBuf
  ppc, phead, sent,       \* producer: where, its register, puts done
  consumer,       \* what it runs: func_consumer or RingBuf_process_all
  cpc, chead, ctail, el, received,  \* consumer: where, registers, elements got
  outcome         \* what the last call of put, get or num_free found

ring     == <<buf, head, tail>>
producer == <<ppc, phead, sent>>
consumes == <<consumer, cpc, chead, ctail, el, received>>
ringVars == <<ring, producer, consumes, outcome>>

Slots == 0..(end - 1)
Following(i) == IF i + 1 = end THEN 0 ELSE i + 1

\* RingBuf_ctor
RingInit ==
  /\ buf = [i \in Slots |-> 0] /\ head = 0 /\ tail = 0
  /\ ppc = "put" /\ phead = 0 /\ sent = 0
  /\ consumer \in {"get", "process_all"}
  /\ cpc = (IF consumer = "get" THEN "num_free" ELSE "start")
  /\ chead = 0 /\ ctail = 0 /\ el = 0 /\ received = <<>>
  /\ outcome = "none"

-----------------------------------------------------------------------------
\* RingBuf_put: head is loaded (twice; nobody else writes it) ...
PutBegin ==
  /\ ppc = "put" /\ sent < Len(Elements)
  /\ phead' = Following(head)
  /\ ppc' = "full?"
  /\ UNCHANGED <<ring, sent, consumes, outcome>>

\* Mutant of PutTest: full when the slot itself, not the next one, is the tail.
PutTestLate ==
  /\ ppc = "full?"
  /\ IF head = tail THEN ppc' = "put" /\ outcome' = "full"
                    ELSE ppc' = "copy" /\ UNCHANGED outcome
  /\ UNCHANGED <<ring, phead, sent, consumes>>

\* ... the buffer is full if it meets the tail: func_producer tries again ...
PutTest ==
  /\ ppc = "full?"
  /\ IF phead = tail THEN ppc' = "put" /\ outcome' = "full"
                     ELSE ppc' = "copy" /\ UNCHANGED outcome
  /\ UNCHANGED <<ring, phead, sent, consumes>>

\* ... the element is copied, and then published.
PutCopy ==
  /\ ppc = "copy"
  /\ buf' = [buf EXCEPT ![head] = Elements[sent + 1]]
  /\ ppc' = "publish"
  /\ UNCHANGED <<head, tail, phead, sent, consumes, outcome>>

PutPublish ==
  /\ ppc = "publish"
  /\ head' = phead /\ sent' = sent + 1 /\ outcome' = "put"
  /\ ppc' = "put"
  /\ UNCHANGED <<buf, tail, phead, consumes>>

-----------------------------------------------------------------------------
\* RingBuf_num_free of the values loaded.
NumFree(h, t) ==
  IF h = t THEN end - 1 ELSE IF h < t THEN t - h - 1 ELSE end + t - h - 1

\* The condition of func_consumer's loop, RingBuf_num_free(&rb) < rb_size:
\* head is loaded, then tail, which nobody else writes, so that the answer
\* is settled here ...
NumFreeHead ==
  /\ consumer = "get" /\ cpc = "num_free"
  /\ chead' = head
  /\ cpc' = "num_free2"
  /\ outcome' = IF NumFree(head, tail) = end - 1 THEN "empty" ELSE outcome
  /\ UNCHANGED <<ring, producer, consumer, ctail, el, received>>

\* ... and found here.
NumFreeTail ==
  /\ cpc = "num_free2"
  /\ ctail' = tail
  /\ cpc' = IF NumFree(chead, tail) < end - 1 THEN "start" ELSE "done"
  /\ UNCHANGED <<ring, producer, consumer, chead, el, received, outcome>>

\* RingBuf_get and RingBuf_process_all: tail is loaded ...
GetBegin ==
  /\ cpc = "start"
  /\ ctail' = tail
  /\ cpc' = "empty?"
  /\ UNCHANGED <<ring, producer, consumer, chead, el, received, outcome>>

\* ... there is an element if head is elsewhere ...
GetTest ==
  /\ cpc = "empty?"
  /\ IF head = ctail
     THEN /\ cpc' = (IF consumer = "get" THEN "num_free" ELSE "done")
          /\ outcome' = "empty"
     ELSE cpc' = "take" /\ UNCHANGED outcome
  /\ UNCHANGED <<ring, producer, consumer, chead, ctail, el, received>>

\* ... which is copied, or handled, before its slot is given back.
GetTake ==
  /\ cpc = "take"
  /\ el' = buf[ctail]
  /\ cpc' = "advance"
  /\ UNCHANGED <<ring, producer, consumer, chead, ctail, received, outcome>>

GetAdvance ==
  /\ cpc = "advance"
  /\ ctail' = Following(ctail) /\ tail' = Following(ctail)
  /\ received' = Append(received, el) /\ outcome' = "got"
  /\ cpc' = (IF consumer = "get" THEN "num_free" ELSE "empty?")
  /\ UNCHANGED <<buf, head, producer, consumer, chead, el>>

Produce == PutBegin \/ PutTest \/ PutCopy \/ PutPublish
Consume == NumFreeHead \/ NumFreeTail \/ GetBegin \/ GetTest \/ GetTake \/ GetAdvance
RingNext == Produce \/ Consume

RingSpec == RingInit /\ [][RingNext]_ringVars

-----------------------------------------------------------------------------
\* Lock-free as it is, the buffer is a bounded FIFO queue.
Count == (head + end - tail) % end

Buffered == [i \in 1..Count |-> buf[(tail + i - 1) % end]]

Fifo == INSTANCE BoundedFifo WITH Capacity <- end - 1, contents <- Buffered

ImplementsFifo == Fifo!Spec
=============================================================================
