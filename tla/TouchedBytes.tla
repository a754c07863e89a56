--------------------------- MODULE TouchedBytes ---------------------------
(***************************************************************************)
(* get_touched_bytes (equiv-rw-set.c): which bytes a load or store touches *)
(* is told from a few bits of the instruction, and from the address in the *)
(* fault address register, the lowest one it accesses.  Offsets stand for  *)
(* the bytes.                                                              *)
(*                                                                         *)
(* An instruction is the fields the decoder looks at: type, bits 25-27;    *)
(* p u i w l, bits 24 to 20; sh, bits 5-6 (0 for swp and the exclusives);  *)
(* list, how many registers are in bits 0-15.                              *)
(***************************************************************************)
EXTENDS Integers

Bits == {0, 1}
Fields == [type : 0..7, p : Bits, u : Bits, i : Bits, w : Bits, l : Bits, sh : 0..3, list : Nat]

\* bits_get(instruction, 20, 24) == ..., for the patterns with type 0b000.
Is(ins, p, u, i, w, l) == <<ins.p, ins.u, ins.i, ins.w, ins.l>> = <<p, u, i, w, l>>

Bytes(n) == 0..(n - 1)

-----------------------------------------------------------------------------
\* The architecture (ARM manual, A3 and A4).  The instructions that access
\* memory; bit 4 and bit 7 are set in those of type 0.
Swap(ins)      == ins.type = 0 /\ ins.sh = 0 /\ ins.p = 1 /\ ins.u = 0 /\ ins.w = 0 /\ ins.l = 0
Exclusive(ins) == ins.type = 0 /\ ins.sh = 0 /\ ins.p = 1 /\ ins.u = 1
Extra(ins)     == ins.type = 0 /\ ins.sh # 0 /\ ~ (ins.p = 0 /\ ins.w = 1)
Single(ins)    == ins.type \in {2, 3} /\ ins.sh = 0
Multiple(ins)  == ins.type = 4 /\ ins.sh = 0 /\ ins.list > 0

IsAccess(ins) ==
  /\ ins.type # 4 => ins.list = 0
  /\ Swap(ins) \/ Exclusive(ins) \/ Extra(ins) \/ Single(ins) \/ Multiple(ins)

\* ldrex, ldrexd, ldrexb, ldrexh and their stores are told by bits 21 and 22.
ExclusiveSize(ins) == <<<<4, 8>>, <<1, 2>>>>[ins.i + 1][ins.w + 1]

\* Halfwords, doublewords and signed bytes.
ExtraSize(ins) ==
  IF ins.sh = 1 \/ (ins.l = 1 /\ ins.sh = 3) THEN 2 ELSE IF ins.l = 0 THEN 8 ELSE 1

\* Bit 22 of a swap and of a single access is B.
Accessed(ins) ==
  Bytes(IF Multiple(ins) THEN 4 * ins.list
        ELSE IF Exclusive(ins) THEN ExclusiveSize(ins)
        ELSE IF Extra(ins) THEN ExtraSize(ins)
        ELSE IF ins.i = 1 THEN 1 ELSE 4)

\* Does the fault status register call the access a write?  A swap is one; a
\* load double word has the l of a store.
IsWrite(ins) == ins.l = 0 /\ ~ (Extra(ins) /\ ins.sh = 2)

-----------------------------------------------------------------------------
\* The tests of get_touched_bytes, in their order.
MatchesSwp(ins)   == ins.type = 0 /\ Is(ins, 1, 0, 0, 0, 0)
MatchesSwpb(ins)  == ins.type = 0 /\ Is(ins, 1, 0, 1, 0, 0)
MatchesLdrex(ins) == ins.type = 0 /\ <<ins.p, ins.u, ins.i, ins.w>> = <<1, 1, 0, 0>>

lsh(ins) == 4 * ins.l + ins.sh

\* Mutant of ExtraTouched: a load double word touches a word.
ExtraTouchedWord(ins) ==
  IF lsh(ins) \in {1, 5, 7} THEN Bytes(2)
  ELSE IF lsh(ins) = 2 THEN Bytes(4)
  ELSE IF lsh(ins) = 3 THEN Bytes(8)
  ELSE IF lsh(ins) = 6 THEN Bytes(1) ELSE {}

ExtraTouched(ins) ==
  IF lsh(ins) \in {1, 5, 7} THEN Bytes(2)
  ELSE IF lsh(ins) \in {2, 3} THEN Bytes(8)
  ELSE IF lsh(ins) = 6 THEN Bytes(1) ELSE {}

\* "Unexpected LSH combination": the decoder panics.
Panics(ins) ==
  /\ ins.type = 0 /\ lsh(ins) \in {0, 4}
  /\ ~ (MatchesSwp(ins) \/ MatchesSwpb(ins) \/ MatchesLdrex(ins))

Touched(ins) ==
  IF MatchesSwp(ins) THEN Bytes(4)
  ELSE IF MatchesSwpb(ins) THEN Bytes(1)
  ELSE IF MatchesLdrex(ins) THEN Bytes(4)
  ELSE IF ins.type \in {2, 3} THEN (IF ins.i = 1 THEN Bytes(1) ELSE Bytes(4))
  ELSE IF ins.type = 0 THEN ExtraTouched(ins)
  ELSE IF ins.type = 4 THEN Bytes(4 * ins.list) ELSE {}

\* The decoder takes halfword, doubleword and signed-byte accesses for swaps
\* and exclusives when they have their bits 20-27: the offset is a negative
\* one in a store, or any positive register, without writeback.
Mistaken(ins) ==
  /\ Extra(ins) /\ ins.p = 1 /\ ins.w = 0
  /\ (ins.u = 0 /\ ins.l = 0) \/ (ins.u = 1 /\ ins.i = 0)

\* The tests of get_touched_bytes are right for every access but those: it
\* finds the bytes that the instruction accesses, or it panics on an
\* exclusive access of another size than a word.
DecodesExactly(ins) ==
  /\ Mistaken(ins) <=> Touched(ins) # Accessed(ins) /\ ~ Panics(ins)
  /\ Panics(ins) <=> Exclusive(ins) /\ ExclusiveSize(ins) # 4
=============================================================================
