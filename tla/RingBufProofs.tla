-------------------------- MODULE RingBufProofs --------------------------
(***************************************************************************)
(* The ring buffer of 12-quantum-leap-rb.c is a bounded FIFO queue, for    *)
(* any number of slots and any elements, whichever load or store of the    *)
(* producer comes between which two of the consumer.                       *)
(***************************************************************************)
EXTENDS RingBuf, SequenceTheorems, TLAPS

\* A position at most one round ahead.
Wrapped(x) == IF x < end THEN x ELSE x - end

\* How many elements are between tail t and head h, and which.
CountOf(h, t) == IF h >= t THEN h - t ELSE h + end - t
ContentsOf(b, h, t) == [i \in 1..((h + end - t) % end) |-> b[(t + i - 1) % end]]

\* The remainder of a position at most one round ahead.
LEMMA ModIsWrapped ==
  ASSUME NEW x \in Nat, x < 2 * end
  PROVE  x % end = Wrapped(x)
BY RingAssumption, Z3 DEF Wrapped

\* The contents are a sequence, read from the tail on.
LEMMA ContentsFacts ==
  ASSUME NEW b \in [Slots -> Nat], NEW h \in Slots, NEW t \in Slots
  PROVE  /\ CountOf(h, t) \in 0..(end - 1)
         /\ ContentsOf(b, h, t) \in Seq(Nat)
         /\ Len(ContentsOf(b, h, t)) = CountOf(h, t)
         /\ \A i \in 1..CountOf(h, t) :
              /\ Wrapped(t + i - 1) \in Slots
              /\ ContentsOf(b, h, t)[i] = b[Wrapped(t + i - 1)]
<1>1. end \in Nat /\ h \in Nat /\ t \in Nat /\ h < end /\ t < end /\ h + end - t \in Nat
      /\ h + end - t < 2 * end
  BY RingAssumption DEF Slots
<1>2. (h + end - t) % end = CountOf(h, t) /\ CountOf(h, t) \in 0..(end - 1)
  <2>1. (h + end - t) % end = Wrapped(h + end - t)
    BY <1>1, ModIsWrapped
  <2>. QED
    BY <1>1, <2>1 DEF Wrapped, CountOf
<1>3. ASSUME NEW i \in 1..CountOf(h, t)
      PROVE  /\ Wrapped(t + i - 1) \in Slots
             /\ (t + i - 1) % end = Wrapped(t + i - 1)
  <2>1. i \in Nat /\ i >= 1 /\ i <= end - 1 /\ t + i - 1 \in Nat /\ t + i - 1 < 2 * end
    BY <1>1, <1>2
  <2>2. (t + i - 1) % end = Wrapped(t + i - 1)
    BY <2>1, ModIsWrapped
  <2>. QED
    BY <1>1, <2>1, <2>2 DEF Wrapped, Slots
<1>4. ContentsOf(b, h, t) = [i \in 1..CountOf(h, t) |-> b[Wrapped(t + i - 1)]]
  BY <1>2, <1>3 DEF ContentsOf
<1>5. \A i \in 1..CountOf(h, t) : b[Wrapped(t + i - 1)] \in Nat
  BY <1>3
<1>6. ContentsOf(b, h, t) \in [1..CountOf(h, t) -> Nat] /\ CountOf(h, t) \in Nat
  BY <1>2, <1>4, <1>5
<1>7. ContentsOf(b, h, t) \in Seq(Nat) /\ Len(ContentsOf(b, h, t)) = CountOf(h, t)
  BY <1>6
<1>8. \A i \in 1..CountOf(h, t) : ContentsOf(b, h, t)[i] = b[Wrapped(t + i - 1)]
  BY <1>4
<1>. QED
  BY <1>2, <1>3, <1>7, <1>8

\* A sequence is a function.
LEMMA SeqIsFunction == ASSUME NEW s \in Seq(Nat) PROVE s \in [1..Len(s) -> Nat]
OBVIOUS

\* Functions with the same values are the same.
LEMMA SameFunction ==
  ASSUME NEW D, NEW f \in [D -> Nat], NEW g \in [D -> Nat], \A i \in D : f[i] = g[i]
  PROVE  f = g
OBVIOUS

\* A sequence that reads the same slots is the contents.
LEMMA SameContents ==
  ASSUME NEW b \in [Slots -> Nat], NEW h \in Slots, NEW t \in Slots, NEW s \in Seq(Nat)
  PROVE  Len(s) = CountOf(h, t) /\ (\A i \in 1..CountOf(h, t) : s[i] = b[Wrapped(t + i - 1)])
           => ContentsOf(b, h, t) = s
<1>1. PICK c, n : c = ContentsOf(b, h, t) /\ n = CountOf(h, t)
  OBVIOUS
<1>2. SUFFICES ASSUME Len(s) = n, \A i \in 1..n : s[i] = b[Wrapped(t + i - 1)] PROVE c = s
  BY <1>1
<1>3. c \in Seq(Nat) /\ Len(c) = n /\ \A i \in 1..n : c[i] = b[Wrapped(t + i - 1)]
  BY <1>1, ContentsFacts
<1>4. c \in [1..n -> Nat] /\ s \in [1..n -> Nat]
  BY <1>2, <1>3, SeqIsFunction, Zenon
<1>5. \A i \in 1..n : c[i] = s[i]
  BY <1>2, <1>3, Zenon
<1>. QED
  BY <1>4, <1>5, SameFunction, Zenon

\* The next slot.
LEMMA FollowingFacts ==
  ASSUME NEW i \in Slots
  PROVE  Following(i) \in Slots /\ Following(i) # i /\ Following(i) = Wrapped(i + 1)
BY RingAssumption DEF Slots, Following, Wrapped

\* Publishing head appends what is in its slot ...
LEMMA Published ==
  ASSUME NEW b \in [Slots -> Nat], NEW h \in Slots, NEW t \in Slots, Following(h) # t
  PROVE  /\ ContentsOf(b, Following(h), t) = Append(ContentsOf(b, h, t), b[h])
         /\ Len(ContentsOf(b, h, t)) < end - 1
<1>. DEFINE n == CountOf(h, t)
            s == ContentsOf(b, h, t)
<1>1. end \in Nat /\ end > 1 /\ h \in Nat /\ t \in Nat /\ h < end /\ t < end
  BY RingAssumption DEF Slots
<1>2. CountOf(Following(h), t) = n + 1 /\ n < end - 1 /\ n \in Nat
  BY <1>1 DEF CountOf, Following
<1>3. Wrapped(t + (n + 1) - 1) = h
  BY <1>1 DEF CountOf, Wrapped
<1>4. /\ s \in Seq(Nat) /\ Len(s) = n
      /\ \A i \in 1..n : s[i] = b[Wrapped(t + i - 1)]
  BY ContentsFacts
<1>5. b[h] \in Nat /\ Following(h) \in Slots
  BY FollowingFacts
<1>. HIDE DEF n, s
<1>6. /\ Append(s, b[h]) \in Seq(Nat) /\ Len(Append(s, b[h])) = n + 1
      /\ \A i \in 1..n : Append(s, b[h])[i] = s[i]
      /\ Append(s, b[h])[n + 1] = b[h]
  BY <1>2, <1>4, <1>5
<1>7. \A i \in 1..(n + 1) : Append(s, b[h])[i] = b[Wrapped(t + i - 1)]
  <2>. SUFFICES ASSUME NEW i \in 1..(n + 1) PROVE Append(s, b[h])[i] = b[Wrapped(t + i - 1)]
    OBVIOUS
  <2>1. i = n + 1 \/ i \in 1..n
    BY <1>2
  <2>. QED
    BY <1>3, <1>4, <1>6, <2>1
<1>8. ContentsOf(b, Following(h), t) = Append(s, b[h])
  <2>1. PICK g, a : g = Following(h) /\ a = Append(s, b[h])
    OBVIOUS
  <2>2. g \in Slots /\ a \in Seq(Nat) /\ Len(a) = CountOf(g, t)
        /\ \A i \in 1..CountOf(g, t) : a[i] = b[Wrapped(t + i - 1)]
    BY <1>2, <1>5, <1>6, <1>7, <2>1
  <2>3. ContentsOf(b, g, t) = a
    BY <2>2, SameContents, Zenon
  <2>. QED
    BY <2>1, <2>3
<1>. QED
  BY <1>2, <1>4, <1>8 DEF s

\* ... and giving back the slot of the tail drops the first element.
LEMMA Dropped ==
  ASSUME NEW b \in [Slots -> Nat], NEW h \in Slots, NEW t \in Slots, h # t
  PROVE  /\ ContentsOf(b, h, t) # <<>> /\ Head(ContentsOf(b, h, t)) = b[t]
         /\ ContentsOf(b, h, Following(t)) = Tail(ContentsOf(b, h, t))
<1>. DEFINE n == CountOf(h, t)
            s == ContentsOf(b, h, t)
<1>1. end \in Nat /\ end > 1 /\ h \in Nat /\ t \in Nat /\ h < end /\ t < end
  BY RingAssumption DEF Slots
<1>2. CountOf(h, Following(t)) = n - 1 /\ n \in Nat /\ n >= 1 /\ n < end
  BY <1>1 DEF CountOf, Following
<1>3. \A i \in 1..(n - 1) : Wrapped(Following(t) + i - 1) = Wrapped(t + (i + 1) - 1)
  BY <1>1, <1>2 DEF Wrapped, Following
<1>4. /\ s \in Seq(Nat) /\ Len(s) = n
      /\ \A i \in 1..n : s[i] = b[Wrapped(t + i - 1)]
  BY ContentsFacts
<1>5. Wrapped(t + 1 - 1) = t /\ Following(t) \in Slots
  BY <1>1, FollowingFacts DEF Wrapped
<1>. HIDE DEF n, s
<1>6. s # <<>> /\ Head(s) = b[t]
  BY <1>2, <1>4, <1>5
<1>7. /\ Tail(s) \in Seq(Nat) /\ Len(Tail(s)) = n - 1
      /\ \A i \in 1..(n - 1) : Tail(s)[i] = s[i + 1]
  BY <1>2, <1>4, <1>6
<1>8. \A i \in 1..(n - 1) : Tail(s)[i] = b[Wrapped(Following(t) + i - 1)]
  <2>. SUFFICES ASSUME NEW i \in 1..(n - 1)
                PROVE  Tail(s)[i] = b[Wrapped(Following(t) + i - 1)]
    OBVIOUS
  <2>1. i + 1 \in 1..n
    BY <1>2
  <2>. QED
    BY <1>3, <1>4, <1>7, <2>1
<1>9. ContentsOf(b, h, Following(t)) = Tail(s)
  <2>1. PICK g, a : g = Following(t) /\ a = Tail(s)
    OBVIOUS
  <2>2. g \in Slots /\ a \in Seq(Nat) /\ Len(a) = CountOf(h, g)
        /\ \A i \in 1..CountOf(h, g) : a[i] = b[Wrapped(g + i - 1)]
    BY <1>2, <1>5, <1>7, <1>8, <2>1
  <2>3. ContentsOf(b, h, g) = a
    BY <2>2, SameContents, Zenon
  <2>. QED
    BY <2>1, <2>3
<1>. QED
  BY <1>6, <1>9 DEF s

\* The slot of head is not among the contents.
LEMMA Copied ==
  ASSUME NEW b \in [Slots -> Nat], NEW h \in Slots, NEW t \in Slots, NEW e \in Nat
  PROVE  ContentsOf([b EXCEPT ![h] = e], h, t) = ContentsOf(b, h, t)
<1>. DEFINE c == [b EXCEPT ![h] = e]
<1>1. end \in Nat /\ end > 1 /\ h \in Nat /\ t \in Nat /\ h < end /\ t < end
  BY RingAssumption DEF Slots
<1>2. \A i \in 1..CountOf(h, t) : Wrapped(t + i - 1) # h
  BY <1>1 DEF CountOf, Wrapped
<1>3. c \in [Slots -> Nat]
  OBVIOUS
<1>4. \A i \in 1..CountOf(h, t) : c[Wrapped(t + i - 1)] = b[Wrapped(t + i - 1)]
  BY <1>2, ContentsFacts
<1>5. /\ ContentsOf(b, h, t) \in Seq(Nat) /\ Len(ContentsOf(b, h, t)) = CountOf(h, t)
      /\ \A i \in 1..CountOf(h, t) : ContentsOf(b, h, t)[i] = b[Wrapped(t + i - 1)]
  BY ContentsFacts
<1>. HIDE DEF c
<1>6. \A i \in 1..CountOf(h, t) : ContentsOf(b, h, t)[i] = c[Wrapped(t + i - 1)]
  BY <1>4, <1>5
<1>7. ContentsOf(c, h, t) = ContentsOf(b, h, t)
  BY <1>3, <1>5, <1>6, SameContents
<1>. QED
  BY <1>7 DEF c

-----------------------------------------------------------------------------
(***************************************************************************)
(* The inductive invariant: what each side knows of the other's variable   *)
(* stays true while it may move.                                           *)
(***************************************************************************)
RingTypes ==
  /\ buf \in [Slots -> Nat] /\ head \in Slots /\ tail \in Slots
  /\ sent \in 0..Len(Elements)
  /\ ppc \in {"put", "full?", "copy", "publish"}
  /\ cpc \in {"num_free", "num_free2", "start", "empty?", "take", "advance", "done"}

\* The producer's next slot is free until it is published.
ProducerInv ==
  /\ ppc # "put" => phead = Following(head) /\ sent < Len(Elements)
  /\ ppc \in {"copy", "publish"} => phead # tail
  /\ ppc = "publish" => buf[head] = Elements[sent + 1]

\* The consumer's element stays in its slot until the slot is given back.
ConsumerInv ==
  /\ cpc \in {"empty?", "take", "advance"} => ctail = tail
  /\ cpc \in {"take", "advance"} => head # tail
  /\ cpc = "advance" => el = buf[tail]

RingInv == RingTypes /\ ProducerInv /\ ConsumerInv

\* RingBuf_ctor establishes it.
LEMMA RingStarts == RingInit => RingInv
BY RingAssumption DEF RingInit, RingInv, RingTypes, ProducerInv, ConsumerInv, Slots

\* The value that is put.
LEMMA NextElement ==
  ASSUME RingInv, sent < Len(Elements)
  PROVE  /\ Elements[sent + 1] \in Nat
         /\ sent \in Nat /\ sent + 1 \in 0..Len(Elements)
<1>1. Elements \in Seq(Nat) /\ Len(Elements) \in Nat
  BY RingAssumption
<1>2. sent \in 0..Len(Elements) /\ sent + 1 \in 1..Len(Elements)
  BY <1>1 DEF RingInv, RingTypes
<1>. QED
  BY <1>1, <1>2, ElementOfSeq

\* The steps of the producer keep it: the consumer can only free more slots.
LEMMA ProducerKeeps ==
  ASSUME RingInv, Produce
  PROVE  RingInv'
<1>. USE DEF RingInv, RingTypes, ProducerInv, ConsumerInv, ring, producer, consumes
<1>1. CASE PutBegin
  BY <1>1 DEF PutBegin
<1>2. CASE PutTest
  BY <1>2 DEF PutTest
<1>3. CASE PutCopy
  <2>1. Elements[sent + 1] \in Nat
    BY <1>3, NextElement DEF PutCopy
  <2>2. /\ buf' \in [Slots -> Nat] /\ buf'[head] = Elements[sent + 1]
        /\ \A s \in Slots : s # head => buf'[s] = buf[s]
    BY <1>3, <2>1 DEF PutCopy
  <2>3. cpc = "advance" => el = buf'[tail]
    BY <2>2
  <2>. QED
    BY <1>3, <2>2, <2>3 DEF PutCopy
<1>4. CASE PutPublish
  <2>1. head' \in Slots /\ head' # tail /\ sent' \in 0..Len(Elements)
    BY <1>4, NextElement, FollowingFacts DEF PutPublish
  <2>. QED
    BY <1>4, <2>1 DEF PutPublish
<1>. QED
  BY <1>1, <1>2, <1>3, <1>4 DEF Produce

\* The steps of the consumer keep it: the producer can only add elements.
LEMMA ConsumerKeeps ==
  ASSUME RingInv, Consume
  PROVE  RingInv'
<1>. USE DEF RingInv, RingTypes, ProducerInv, ConsumerInv, ring, producer, consumes
<1>1. CASE NumFreeHead
  BY <1>1 DEF NumFreeHead
<1>2. CASE NumFreeTail
  BY <1>2 DEF NumFreeTail
<1>3. CASE GetBegin
  BY <1>3 DEF GetBegin
<1>4. CASE GetTest
  BY <1>4 DEF GetTest
<1>5. CASE GetTake
  BY <1>5 DEF GetTake
<1>6. CASE GetAdvance
  <2>1. tail' \in Slots /\ ctail' = tail' /\ tail' = Following(tail)
    BY <1>6, FollowingFacts DEF GetAdvance
  <2>2. ppc \in {"copy", "publish"} => phead # tail'
    <3>1. ASSUME Following(head) = Following(tail) PROVE FALSE
      <4>1. head # tail /\ head \in Nat /\ tail \in Nat /\ head < end /\ tail < end
        BY <1>6, RingAssumption DEF GetAdvance, Slots
      <4>. QED
        BY <3>1, <4>1, RingAssumption DEF Following
    <3>. QED
      BY <2>1, <3>1
  <2>. QED
    BY <1>6, <2>1, <2>2 DEF GetAdvance
<1>. QED
  BY <1>1, <1>2, <1>3, <1>4, <1>5, <1>6 DEF Consume

-----------------------------------------------------------------------------
\* The refinement mapping, before a step and after it.
LEMMA BufferedIs ==
  /\ Buffered = ContentsOf(buf, head, tail)
  /\ Buffered' = ContentsOf(buf', head', tail')
BY DEF Buffered, Count, ContentsOf

\* Full and empty, as the positions say it and as the queue does.
LEMMA FullAndEmpty ==
  ASSUME RingInv
  PROVE  /\ Buffered \in Seq(Nat)
         /\ Following(head) = tail => Len(Buffered) = end - 1
         /\ head = tail => Buffered = <<>>
<1>1. head \in Slots /\ tail \in Slots /\ Buffered \in Seq(Nat) /\ Len(Buffered) = CountOf(head, tail)
  BY BufferedIs, ContentsFacts DEF RingInv, RingTypes
<1>2. head \in Nat /\ tail \in Nat /\ head < end /\ tail < end /\ end \in Nat /\ end > 1
  BY <1>1, RingAssumption DEF Slots
<1>3. Following(head) = tail => CountOf(head, tail) = end - 1
  BY <1>2 DEF Following, CountOf
<1>4. head = tail => CountOf(head, tail) = 0
  BY <1>2 DEF CountOf
<1>. QED
  BY <1>1, <1>3, <1>4, EmptySeq

\* Every step of the producer is a step of the queue or none.
LEMMA ProducerMaps ==
  ASSUME RingInv, Produce
  PROVE  Fifo!Next \/ UNCHANGED <<Buffered, sent, received, outcome>>
<1>. USE DEF ring, producer, consumes
<1>a. buf \in [Slots -> Nat] /\ head \in Slots /\ tail \in Slots
  BY DEF RingInv, RingTypes
<1>1. CASE PutBegin
  BY <1>1, BufferedIs DEF PutBegin
<1>2. CASE PutTest
  <2>1. Buffered' = Buffered
    BY <1>2, BufferedIs DEF PutTest
  <2>2. CASE phead = tail
    <3>1. Len(Buffered) = end - 1
      BY <1>2, <2>2, FullAndEmpty DEF PutTest, RingInv, ProducerInv
    <3>. QED
      BY <1>2, <2>1, <2>2, <3>1 DEF PutTest, Fifo!Next, Fifo!SayFull
  <2>. QED
    BY <1>2, <2>1, <2>2 DEF PutTest
<1>3. CASE PutCopy
  <2>1. Elements[sent + 1] \in Nat
    BY <1>3, NextElement DEF PutCopy, RingInv, ProducerInv
  <2>2. Buffered' = Buffered
    BY <1>3, <1>a, <2>1, BufferedIs, Copied DEF PutCopy
  <2>. QED
    BY <1>3, <2>2 DEF PutCopy
<1>4. CASE PutPublish
  <2>1. Following(head) # tail /\ phead = Following(head) /\ sent < Len(Elements)
        /\ buf[head] = Elements[sent + 1]
    BY <1>4 DEF PutPublish, RingInv, ProducerInv
  <2>2. /\ ContentsOf(buf, Following(head), tail)
             = Append(ContentsOf(buf, head, tail), buf[head])
        /\ Len(ContentsOf(buf, head, tail)) < end - 1
    BY <1>a, <2>1, Published
  <2>3. Buffered' = Append(Buffered, Elements[sent + 1]) /\ Len(Buffered) < end - 1
    BY <1>4, <2>1, <2>2, BufferedIs DEF PutPublish
  <2>. QED
    BY <1>4, <2>1, <2>3 DEF PutPublish, Fifo!Next, Fifo!Put
<1>. QED
  BY <1>1, <1>2, <1>3, <1>4 DEF Produce

\* Every step of the consumer is a step of the queue or none.
LEMMA ConsumerMaps ==
  ASSUME RingInv, Consume
  PROVE  Fifo!Next \/ UNCHANGED <<Buffered, sent, received, outcome>>
<1>. USE DEF ring, producer, consumes
<1>a. buf \in [Slots -> Nat] /\ head \in Slots /\ tail \in Slots
  BY DEF RingInv, RingTypes
<1>1. CASE NumFreeHead
  <2>1. Buffered' = Buffered /\ UNCHANGED <<sent, received>>
    BY <1>1, BufferedIs DEF NumFreeHead
  <2>2. NumFree(head, tail) = end - 1 => head = tail
    BY <1>a, RingAssumption DEF NumFree, Slots
  <2>3. head = tail => Buffered = <<>>
    BY FullAndEmpty
  <2>4. CASE NumFree(head, tail) = end - 1
    BY <1>1, <2>1, <2>2, <2>3, <2>4 DEF NumFreeHead, Fifo!Next, Fifo!SayEmpty
  <2>. QED
    BY <1>1, <2>1, <2>4 DEF NumFreeHead
<1>2. CASE NumFreeTail
  BY <1>2, BufferedIs DEF NumFreeTail
<1>3. CASE GetBegin
  BY <1>3, BufferedIs DEF GetBegin
<1>4. CASE GetTest
  <2>1. Buffered' = Buffered /\ UNCHANGED <<sent, received>>
    BY <1>4, BufferedIs DEF GetTest
  <2>2. CASE head = ctail
    <3>1. Buffered = <<>>
      BY <1>4, <2>2, FullAndEmpty DEF GetTest, RingInv, ConsumerInv
    <3>. QED
      BY <1>4, <2>1, <2>2, <3>1 DEF GetTest, Fifo!Next, Fifo!SayEmpty
  <2>. QED
    BY <1>4, <2>1, <2>2 DEF GetTest
<1>5. CASE GetTake
  BY <1>5, BufferedIs DEF GetTake
<1>6. CASE GetAdvance
  <2>1. head # tail /\ ctail = tail /\ el = buf[tail]
    BY <1>6 DEF GetAdvance, RingInv, ConsumerInv
  <2>2. /\ ContentsOf(buf, head, tail) # <<>> /\ Head(ContentsOf(buf, head, tail)) = buf[tail]
        /\ ContentsOf(buf, head, Following(tail)) = Tail(ContentsOf(buf, head, tail))
    BY <1>a, <2>1, Dropped
  <2>3. Buffered # <<>> /\ Head(Buffered) = el /\ Buffered' = Tail(Buffered)
    BY <1>6, <2>1, <2>2, BufferedIs DEF GetAdvance
  <2>. QED
    BY <1>6, <2>3 DEF GetAdvance, Fifo!Next, Fifo!Get
<1>. QED
  BY <1>1, <1>2, <1>3, <1>4, <1>5, <1>6 DEF Consume

-----------------------------------------------------------------------------
\* RingBuf_put, RingBuf_get, RingBuf_process_all and RingBuf_num_free need no
\* lock between one producer and one consumer: elements come out once and in
\* order, "full" is said of a full buffer and "empty" of an empty one.
THEOREM RingIsFifo == RingSpec => ImplementsFifo
<1>1. RingInit => Fifo!Init
  <2>. SUFFICES ASSUME RingInit PROVE Fifo!Init
    OBVIOUS
  <2>1. Buffered = <<>>
    BY RingStarts, FullAndEmpty DEF RingInit
  <2>. QED
    BY <2>1 DEF RingInit, Fifo!Init
<1>2. RingInv /\ [RingNext]_ringVars => RingInv'
  <2>1. RingInv /\ UNCHANGED ringVars => RingInv'
    BY DEF RingInv, RingTypes, ProducerInv, ConsumerInv, ringVars, ring, producer, consumes
  <2>. QED
    BY <2>1, ProducerKeeps, ConsumerKeeps DEF RingNext
<1>3. RingInv /\ [RingNext]_ringVars => [Fifo!Next]_<<Buffered, sent, received, outcome>>
  <2>1. UNCHANGED ringVars => UNCHANGED <<Buffered, sent, received, outcome>>
    BY BufferedIs DEF ringVars, ring, producer, consumes
  <2>. QED
    BY <2>1, ProducerMaps, ConsumerMaps DEF RingNext
<1>. QED
  BY RingStarts, <1>1, <1>2, <1>3, PTL DEF RingSpec, ImplementsFifo, Fifo!Spec
=============================================================================
