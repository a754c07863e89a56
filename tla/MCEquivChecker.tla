------------------------- MODULE MCEquivChecker -------------------------
(* Instances of EquivChecker for TLC.                                      *)
EXTENDS EquivChecker, InterleaverReference, PreemptionReference

CONSTANTS x, y, lock

I(o, v) == [op |-> o, a |-> v]

Increment == <<I("ld", x), I("add", 1), I("st", x)>>
StoreLoad == <<I("st", x), I("ld", y), I("st", x)>>
CopyBack  == <<I("ld", x), I("st", y)>>
\* copies x to y and increments it, but only if it finds x set
Guarded   == <<I("ld", x), I("bz", 7), I("st", y), I("ld", x), I("add", 1), I("st", x)>>
\* increments x, then sets it to y + 1
Reader    == <<I("ld", x), I("add", 1), I("st", x), I("ld", y), I("add", 1), I("st", x)>>
\* secure_vibes ... release_vibes around an increment
Locked    == <<I("ld", lock), I("bz", 5), I("yield", 0), I("b", 1), I("mov", 1), I("st", lock),
               I("ld", x), I("add", 1), I("st", x), I("mov", 0), I("st", lock)>>

TwoThreadPrograms ==
  [Tids -> {Increment, StoreLoad, CopyBack, Guarded, Reader}] \cup [Tids -> {Locked}]

NoSchedules == {}

\* permute writes every order once.
ASSUME ItlAssumption ==
  PermuteIsComplete /\ Cardinality(ToSet(itl)) = Len(itl)

=============================================================================
