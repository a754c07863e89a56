------------------------------ MODULE XXH32 ------------------------------
(***************************************************************************)
(* The 32-bit hash of xxhash.h as memory.c uses it: a stream of updates    *)
(* and a digest, against the same hash of all the bytes at once.           *)
(*                                                                         *)
(* The arithmetic is symbolic: a lane is the sequence of what was mixed    *)
(* into it, so that two hashes are equal here only if they mix the same    *)
(* bytes at the same places.  Bytes are symbolic, too: the n-th byte of    *)
(* the stream is n.                                                        *)
(***************************************************************************)
EXTENDS Sequences, Integers

CONSTANTS
  WordBytes,      \* bytes of an input word: 4
  Lanes,          \* words of a stripe, one per accumulator: 4
  LengthLimit,    \* total_len_32 is kept modulo this: 2^32
  Lengths,        \* the lengths of an update
  MaxLength       \* bound: bytes of a stream

Stripe == WordBytes * Lanes

ASSUME HashAssumption ==
  /\ WordBytes \in Nat \ {0} /\ Lanes \in Nat /\ Lanes >= 3
  /\ LengthLimit \in Nat /\ LengthLimit >= 2 * Stripe
  /\ Lengths \subseteq Nat /\ MaxLength \in Nat

VARIABLES
  v, mem32, memsize, total_len_32, large_len,   \* the XXH32_state_t
  fed             \* history: the bytes given to XXH32_update

hashVars == <<v, mem32, memsize, total_len_32, large_len, fed>>

\* The lanes before any input.  XXH32_reset, which hash_mem and
\* capture_memory_state do not call, would seed them; they are what kmalloc
\* returned, 0.
Lanes0 == [l \in 1..Lanes |-> <<0>>]

\* XXH32_round of the words of a stripe, in their lanes.
Word(bytes, k) == SubSeq(bytes, WordBytes * (k - 1) + 1, WordBytes * k)
Mixed(lanes, stripe) == [l \in 1..Lanes |-> Append(lanes[l], Word(stripe, l))]

\* All stripes of a sequence of bytes, in order, and what remains.
Stripes(bytes) == Len(bytes) \div Stripe
StripeAt(bytes, k) == SubSeq(bytes, Stripe * (k - 1) + 1, Stripe * k)
MixedAll(lanes, bytes) ==
  [l \in 1..Lanes |-> lanes[l] \o [k \in 1..Stripes(bytes) |-> Word(StripeAt(bytes, k), l)]]
Remaining(bytes) == SubSeq(bytes, Stripe * Stripes(bytes) + 1, Len(bytes))

\* XXH32_finalize: whole words, then bytes, then the avalanche, which loses
\* nothing.
Finalize(h, bytes) ==
  LET words == Len(bytes) \div WordBytes
  IN  h \o [k \in 1..words |-> Word(bytes, k)] \o SubSeq(bytes, WordBytes * words + 1, Len(bytes))

\* XXH32_endian_align from given lanes; without a stripe only the third lane,
\* the seed, is used.
OneShot(lanes, bytes) ==
  LET h == IF Len(bytes) >= Stripe THEN MixedAll(lanes, bytes) ELSE <<lanes[3]>>
  IN  Finalize(Append(h, Len(bytes) % LengthLimit), Remaining(bytes))

-----------------------------------------------------------------------------
\* XXH32_createState.
HashInit ==
  /\ v = Lanes0
  /\ mem32 = [b \in 1..Stripe |-> 0] /\ memsize = 0
  /\ total_len_32 = 0 /\ large_len = FALSE
  /\ fed = <<>>

\* memcpy to the buffer, from its position from.
Buffered(from, bytes) ==
  [b \in 1..Stripe |-> IF b - from \in 1..Len(bytes) THEN bytes[b - from] ELSE mem32[b]]

\* Mutant of Counted: the length decides, and it may have wrapped around.
CountedNotSticky(len) ==
  /\ total_len_32' = (total_len_32 + len) % LengthLimit
  /\ large_len' = (total_len_32' >= Stripe)

Counted(len) ==
  /\ total_len_32' = (total_len_32 + len) % LengthLimit
  /\ large_len' = (large_len \/ len >= Stripe \/ total_len_32' >= Stripe)

\* The bytes of an update of the given length.
Input(len) == [i \in 1..len |-> Len(fed) + i]

\* XXH32_update: either everything fits in the buffer ...
UpdateBuffers(len) ==
  /\ len > 0 /\ memsize + len < Stripe
  /\ fed' = fed \o Input(len) /\ Counted(len)
  /\ mem32' = Buffered(memsize, Input(len))
  /\ memsize' = memsize + len
  /\ UNCHANGED v

\* ... or the buffer is completed and mixed, if there is something in it, then
\* whole stripes straight from the input, and the rest is kept.
UpdateMixes(len) ==
  LET taken == IF memsize = 0 THEN 0 ELSE Stripe - memsize
      first == IF memsize = 0 THEN v ELSE Mixed(v, Buffered(memsize, SubSeq(Input(len), 1, taken)))
      rest  == SubSeq(Input(len), taken + 1, len)
  IN  /\ memsize + len >= Stripe
      /\ fed' = fed \o Input(len) /\ Counted(len)
      /\ v' = MixedAll(first, rest)
      /\ memsize' = Len(Remaining(rest))
      /\ mem32' = [b \in 1..Stripe |->
                     IF b <= Len(Remaining(rest)) THEN Remaining(rest)[b]
                     ELSE IF memsize = 0 THEN mem32[b]
                     ELSE Buffered(memsize, SubSeq(Input(len), 1, taken))[b]]

HashUpdate(len) == Len(fed) + len <= MaxLength /\ (UpdateBuffers(len) \/ UpdateMixes(len))

HashNext == \E len \in Lengths : HashUpdate(len)

\* XXH32_digest
Digest ==
  Finalize(Append(IF large_len THEN v ELSE <<v[3]>>, total_len_32), SubSeq(mem32, 1, memsize))

HashSpec == HashInit /\ [][HashNext]_hashVars

-----------------------------------------------------------------------------
\* However the bytes are cut into updates, the digest is the hash of all of
\* them, in order: two memory states hash alike only if 32 bits collide.  The
\* missing XXH32_reset does not change that, the lanes then start at 0.
DigestIsOneShot == Digest = OneShot(Lanes0, fed)
=============================================================================
