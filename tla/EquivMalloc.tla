--------------------------- MODULE EquivMalloc ---------------------------
(***************************************************************************)
(* equiv-malloc.c: the heap of the checker, a row of blocks, each a header *)
(* and a payload.  Free blocks keep two links in the first words of their  *)
(* payload and form a doubly linked list.                                  *)
(*                                                                         *)
(* The heap is counted in words of 4 bytes, from 1 (heap.base); 0 is the   *)
(* null pointer.  A payload belongs to the client, so a word holds         *)
(* anything (WILD) from the moment it stops being a link, also after the   *)
(* block was freed, until a link is stored there.  Following a WILD word   *)
(* as a link, or the null pointer, is undefined: pc = "wild".              *)
(*                                                                         *)
(* The loops are taken one iteration at a time.  pc: "idle" (no call in    *)
(* progress), "search" (the loop of equiv_malloc), "found" (behind it),    *)
(* "coalesce" (coalesce_right), "absorb", "resize" and "release"           *)
(* (equiv_realloc), "wild".                                                *)
(***************************************************************************)
EXTENDS Integers, FiniteSets

CONSTANTS
  HeapWords,         \* heap_size in words; 131072 in equiv_checker_init
  Requests           \* the sizes asked for, in bytes

METADATA == 1            \* sizeof(metadata_t)
MINIMUM_PAYLOAD == 4     \* 8 + 8 bytes
MAX_REQUEST_SIZE == 2^30

ASSUME HeapWordsAssumption == HeapWords \in Nat /\ HeapWords >= 3 + MINIMUM_PAYLOAD
ASSUME RequestsAssumption == Requests \subseteq 1..MAX_REQUEST_SIZE  \* others return at once

VARIABLES
  size, free,   \* the headers, at the words where blocks start (else 0, FALSE)
  list,         \* heap.first_free and the words that may be links
  stats,        \* blocks_used, blocks_free, bytes_used, bytes_free (in words)
  asked,        \* words asked for, for the blocks clients own (history; else 0)
  exhausted,    \* has the free list ever been empty? (history)
  pc,
  loc           \* locals of the call in progress

vars == <<size, free, list, stats, asked, exhausted, pc, loc>>

Words == 1..HeapWords
NULL == 0
WILD == HeapWords + 1
Pointers == Words \cup {NULL, WILD}

Starts     == {b \in Words : size[b] # 0}
FreeBlocks == {b \in Starts : free[b]}
Live       == {b \in Words : asked[b] # 0}

RoundUp(bytes) == 2 * ((bytes + 7) \div 8)
Needs(bytes)   == RoundUp(IF bytes < 16 THEN 16 ELSE bytes)

\* next_block: the block behind b, if it is in bounds.
End(b) == b + METADATA + size[b]

\* Mutant of FreeBehind: whatever the block behind is.
AnythingBehind(b) == End(b) \in Words

FreeBehind(b) == End(b) \in Words /\ free[End(b)]

\* The links of b in the list l.
PrevFree(l, b) == l.link[b + 1]
NextFree(l, b) == l.link[b + 2]

\* Mutant of Removed: the block behind keeps its back link.
RemovedOneWay(l, b) ==
  LET p == PrevFree(l, b)  n == NextFree(l, b) IN
  [first |-> IF p = NULL THEN n ELSE l.first,
   link  |-> [w \in Words |-> IF w \in {b + 1, b + 2} THEN WILD
                              ELSE IF p # NULL /\ w = p + 2 THEN n
                              ELSE l.link[w]]]

\* remove_free_block.  What was a link becomes payload.
Removed(l, b) ==
  LET p == PrevFree(l, b)  n == NextFree(l, b) IN
  [first |-> IF p = NULL THEN n ELSE l.first,
   link  |-> [w \in Words |-> IF w \in {b + 1, b + 2} THEN WILD
                              ELSE IF p # NULL /\ w = p + 2 THEN n
                              ELSE IF n # NULL /\ w = n + 1 THEN p
                              ELSE l.link[w]]]

\* append_free_block.  The first block of an empty list keeps what is in
\* its link words.
Appended(l, b) ==
  [first |-> b,
   link  |-> IF l.first = NULL THEN l.link
             ELSE [w \in Words |-> CASE w = b + 1 -> NULL
                                     [] w = b + 2 -> l.first
                                     [] w = l.first + 1 -> b
                                     [] OTHER -> l.link[w]]]

\* Do these operations write through a wild pointer?
RemovesWild(l, b) == WILD \in {PrevFree(l, b), NextFree(l, b)}

NoCall == [needs |-> 0, cur |-> NULL, best |-> NULL, base |-> NULL, old |-> NULL]

Init ==       \* equiv_malloc_init
  /\ size = [w \in Words |-> IF w = 1 THEN HeapWords - METADATA ELSE 0]
  /\ free = [w \in Words |-> w = 1]
  /\ list = [first |-> 1, link |-> [w \in Words |-> IF w \in {2, 3} THEN NULL ELSE WILD]]
  /\ stats = [blocks_used |-> 0, blocks_free |-> 1,
              bytes_used |-> 0, bytes_free |-> HeapWords - METADATA]
  /\ asked = [w \in Words |-> 0] /\ exhausted = FALSE
  /\ pc = "idle" /\ loc = NoCall

\* Free blocks ran out at some time.
History == exhausted' = (exhausted \/ list'.first = NULL)

\* Mutant of Book: what is freed is not added to bytes_free.
BookNoGain(bu, bf, yu, yf) ==
  stats' = [blocks_used |-> stats.blocks_used + bu, blocks_free |-> stats.blocks_free + bf,
            bytes_used  |-> stats.bytes_used + yu,
            bytes_free  |-> stats.bytes_free + IF yf < 0 THEN yf ELSE 0]

\* The statistics change by these amounts.
Book(bu, bf, yu, yf) ==
  stats' = [blocks_used |-> stats.blocks_used + bu, blocks_free |-> stats.blocks_free + bf,
            bytes_used  |-> stats.bytes_used + yu,  bytes_free  |-> stats.bytes_free + yf]
-----------------------------------------------------------------------------
\* equiv_malloc up to its loop.
Malloc(bytes) ==
  /\ pc = "idle"
  /\ pc' = "search"
  /\ loc' = [NoCall EXCEPT !.needs = Needs(bytes), !.cur = list.first]
  /\ UNCHANGED <<size, free, list, stats, asked, exhausted>>

\* Mutant of Better: the last block that is large enough is taken.
BetterLast(b) == size[b] >= loc.needs

Better(b) == size[b] >= loc.needs /\ (loc.best = NULL \/ size[b] < size[loc.best])

\* One iteration.
Search ==
  /\ pc = "search"
  /\ IF loc.cur \notin Words THEN pc' = "wild" /\ UNCHANGED loc
     ELSE LET next == NextFree(list, loc.cur) IN
          /\ loc' = [loc EXCEPT !.best = IF Better(loc.cur) THEN loc.cur ELSE @,
                                !.cur  = IF next = NULL THEN @ ELSE next]
          /\ pc' = IF next = NULL THEN "found" ELSE "search"
  /\ UNCHANGED <<size, free, list, stats, asked, exhausted>>

\* No block is large enough: NULL is returned.  (equiv_realloc leaves the
\* old block as it has become.)
NotFound ==
  /\ pc = "found" /\ loc.best = NULL
  /\ pc' = "idle" /\ loc' = NoCall
  /\ UNCHANGED <<size, free, list, stats, asked, exhausted>>

\* trim_block_if_possible: does it split?
Excess(b) == size[b] - loc.needs
Splits(b) == Excess(b) >= METADATA + MINIMUM_PAYLOAD
Rest(b)   == b + METADATA + loc.needs

\* Mutant of Trim: the header of the new block is forgotten.
TrimTooMuch(b) ==
  IF Splits(b)
  THEN size' = [size EXCEPT ![b] = loc.needs, ![Rest(b)] = Excess(b)]
  ELSE UNCHANGED size

Trim(b) ==
  IF Splits(b)
  THEN size' = [size EXCEPT ![b] = loc.needs, ![Rest(b)] = Excess(b) - METADATA]
  ELSE UNCHANGED size

\* allocate_block.  (equiv_realloc then copies, and frees the old block.)
Allocate ==
  LET b == loc.best
      trimmed == IF Splits(b) THEN Appended(list, Rest(b)) ELSE list
  IN
  /\ pc = "found" /\ b # NULL
  /\ Trim(b)
  /\ free' = [w \in Words |-> IF w = b THEN FALSE ELSE (Splits(b) /\ w = Rest(b)) \/ free[w]]
  /\ list' = Removed(trimmed, b)
  /\ IF Splits(b) THEN Book(1, 0, loc.needs, -loc.needs - METADATA)
                  ELSE Book(1, -1, size[b], -size[b])
  /\ asked' = [asked EXCEPT ![b] = loc.needs]
  /\ pc' = IF RemovesWild(trimmed, b) THEN "wild" ELSE IF loc.old = NULL THEN "idle" ELSE "release"
  /\ loc' = IF loc.old = NULL THEN NoCall ELSE loc
  /\ History

-----------------------------------------------------------------------------
\* equiv_free up to coalesce_right: called by a client, or by equiv_realloc.
Free(b) ==
  /\ pc = "idle" \/ (pc = "release" /\ b = loc.old)
  /\ free' = [free EXCEPT ![b] = TRUE]
  /\ list' = Appended(list, b)
  /\ Book(-1, 1, -size[b], size[b])
  /\ asked' = [asked EXCEPT ![b] = 0]
  /\ pc' = IF list.first = WILD THEN "wild" ELSE "coalesce"
  /\ loc' = [NoCall EXCEPT !.base = b]
  /\ History
  /\ UNCHANGED size

\* coalesce_right: one iteration ...
Coalesce ==
  LET b == loc.base  n == End(b) IN
  /\ pc = "coalesce" /\ FreeBehind(b)
  /\ size' = [size EXCEPT ![b] = @ + size[n] + METADATA, ![n] = 0]
  /\ free' = [free EXCEPT ![n] = FALSE]
  /\ list' = Removed(list, n)
  /\ Book(0, -1, 0, METADATA)
  /\ pc' = IF RemovesWild(list, n) THEN "wild" ELSE pc
  /\ History
  /\ UNCHANGED <<asked, loc>>

\* ... and its end.
Coalesced ==
  /\ pc = "coalesce" /\ ~ FreeBehind(loc.base)
  /\ pc' = IF loc.old = NULL THEN "idle" ELSE "absorb"
  /\ loc' = IF loc.old = NULL THEN NoCall ELSE loc
  /\ UNCHANGED <<size, free, list, stats, asked, exhausted>>

-----------------------------------------------------------------------------
\* equiv_realloc, as far as the block to the right.
Realloc(b, bytes) ==
  /\ pc = "idle"
  /\ IF size[b] >= RoundUp(bytes)
     THEN asked' = [asked EXCEPT ![b] = RoundUp(bytes)] /\ UNCHANGED <<pc, loc>>
     ELSE /\ pc' = IF FreeBehind(b) THEN "coalesce" ELSE "resize"
          /\ loc' = [NoCall EXCEPT !.needs = RoundUp(bytes), !.old = b, !.base = End(b)]
          /\ UNCHANGED asked
  /\ UNCHANGED <<size, free, list, stats, exhausted>>

\* The free block to the right, coalesced, becomes part of the block.
Absorb ==
  LET b == loc.old  r == loc.base IN
  /\ pc = "absorb"
  /\ list' = Removed(list, r)
  /\ size' = [size EXCEPT ![b] = @ + size[r] + METADATA, ![r] = 0]
  /\ free' = [free EXCEPT ![r] = FALSE]
  /\ Book(0, -1, size[r] + METADATA, -size[r])
  /\ pc' = IF RemovesWild(list, r) THEN "wild" ELSE "resize"
  /\ History
  /\ UNCHANGED <<asked, loc>>

\* Large enough now: the rest is split off.
ResizeInPlace ==
  LET b == loc.old
      trimmed == IF Splits(b) THEN Appended(list, Rest(b)) ELSE list
  IN
  /\ pc = "resize" /\ loc.needs <= size[b]
  /\ Trim(b)
  /\ free' = [w \in Words |-> (Splits(b) /\ w = Rest(b)) \/ free[w]]
  /\ list' = trimmed
  /\ IF Splits(b) THEN Book(0, 1, -Excess(b), Excess(b) - METADATA) ELSE UNCHANGED stats
  /\ asked' = [asked EXCEPT ![b] = loc.needs]
  /\ pc' = IF Splits(b) /\ list.first = WILD THEN "wild" ELSE "idle"
  /\ loc' = NoCall
  /\ History

\* Else equiv_malloc looks for another place.
ResizeElsewhere ==
  /\ pc = "resize" /\ loc.needs > size[loc.old]
  /\ pc' = "search"
  /\ loc' = [loc EXCEPT !.needs = Needs(4 * @), !.cur = list.first]
  /\ UNCHANGED <<size, free, list, stats, asked, exhausted>>

-----------------------------------------------------------------------------
Call ==
  \/ \E bytes \in Requests : Malloc(bytes)
  \/ \E b \in Live : Free(b)
  \/ \E b \in Live, bytes \in Requests : Realloc(b, bytes)

Internal ==
  \/ Search \/ NotFound \/ Allocate
  \/ Coalesce \/ Coalesced
  \/ Absorb \/ ResizeInPlace \/ ResizeElsewhere
  \/ pc = "release" /\ Free(loc.old)

Next == (pc = "idle" /\ Call) \/ Internal

\* A call that was made goes on; nobody has to make one.
Spec == Init /\ [][Next]_vars /\ WF_vars(Internal)

-----------------------------------------------------------------------------
(***************************************************************************)
(* Properties.                                                             *)
(***************************************************************************)
\* The types of the variables.
HeapTypes ==
  /\ size \in [Words -> Nat]
  /\ free \in [Words -> BOOLEAN]
  /\ list \in [first : Pointers, link : [Words -> Pointers]]
  /\ asked \in [Words -> Nat]
  /\ exhausted \in BOOLEAN
  /\ pc \in {"idle", "search", "found", "coalesce", "absorb", "resize", "release", "wild"}
  /\ loc \in [needs : Nat, cur : Pointers, best : Words \cup {NULL},
              base : Nat, old : Words \cup {NULL}]

TypeOK ==
  /\ HeapTypes
  /\ stats \in [blocks_used : Nat, blocks_free : Nat, bytes_used : Nat, bytes_free : Nat]

\* The used or the free blocks, and the words of their payloads.
Blocks(isFree)  == {b \in Starts : free[b] = isFree}
Payload(isFree) == {w \in Words : \E b \in Blocks(isFree) : b < w /\ w < End(b)}

\* The variables have their types, the statistics count the blocks and the
\* words of their payloads, and validate_heap's sum comes out: no word is
\* missing (equiv-malloc.c:502-523).
StatsMatch ==
  /\ TypeOK
  /\ pc # "wild" =>
    /\ stats.blocks_used = Cardinality(Blocks(FALSE))
    /\ stats.blocks_free = Cardinality(Blocks(TRUE))
    /\ stats.bytes_used = Cardinality(Payload(FALSE))
    /\ stats.bytes_free = Cardinality(Payload(TRUE))
    /\ (stats.blocks_used + stats.blocks_free) * METADATA
       + stats.bytes_used + stats.bytes_free = HeapWords

\* The blocks tile the heap: the first one starts at its base, each ends
\* where another starts or where the heap ends, and none starts inside
\* another.  No word is lost or shared by any sequence of splits and merges.
Tiling ==
  /\ 1 \in Starts
  /\ \A b \in Starts : size[b] >= MINIMUM_PAYLOAD /\ End(b) \in Starts \cup {HeapWords + 1}
  /\ \A b, c \in Starts : b < c => End(b) <= c

\* Clients own used blocks, large enough for what they asked for.
LiveBlocks ==
  \A b \in Live : b \in Starts /\ ~ free[b] /\ asked[b] <= size[b]

\* As long as memory was never exhausted, the links join exactly the free
\* blocks, both ways, from first_free to a last one, whatever clients leave
\* in the words that become links; and no wild pointer is followed.
FreeListExact ==
  ~ exhausted =>
    /\ pc # "wild"
    /\ list.first \in FreeBlocks /\ PrevFree(list, list.first) = NULL
    /\ \A b \in FreeBlocks :
         /\ NextFree(list, b) \in FreeBlocks \cup {NULL}
         /\ NextFree(list, b) # NULL => PrevFree(list, NextFree(list, b)) = b
         /\ b # list.first => /\ PrevFree(list, b) \in FreeBlocks
                              /\ NextFree(list, PrevFree(list, b)) = b

\* The loop of equiv_malloc finds a smallest block that is large enough, if
\* there is one: "the free block closest in size to the requested size".
BestFit ==
  pc = "found" /\ ~ exhausted =>
    LET fits == {b \in Starts : free[b] /\ size[b] >= loc.needs} IN
    IF loc.best = NULL THEN fits = {}
    ELSE loc.best \in fits /\ \A b \in fits : size[loc.best] <= size[b]

\* A call that was made returns, as long as memory was never exhausted: the
\* free list has no cycle.
CallsReturn == pc # "idle" ~> (pc = "idle" \/ exhausted)

\* "It will return a pointer to the first byte of allocated space if a
\* suitable block is found, otherwise it returns NULL" (equiv-malloc.c:341):
\* no request leads the allocator through a null or wild pointer.  It does:
\* without a free block the loop reads the header at the null pointer.
NeverWild == pc # "wild"

\* What clients see is an allocator.
Abs == INSTANCE Allocator WITH
  owned <- {[at |-> b + METADATA, len |-> asked[b]] : b \in Live}

ImplementsAllocator == Abs!Spec
=============================================================================
