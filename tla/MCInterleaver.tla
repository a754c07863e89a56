-------------------------- MODULE MCInterleaver --------------------------
(* Instances of Interleaver for TLC.                                        *)
EXTENDS InterleaverReference

CONSTANTS x, y, lock

I(o, v) == [op |-> o, a |-> v]

Increment == <<I("ld", x), I("add", 1), I("st", x)>>
CopyBack  == <<I("ld", x), I("st", y)>>
Quick     == <<I("add", 1)>>

NoSchedules == {}

ThreeThreadPrograms == [Tids -> {Increment, CopyBack, Quick}]

\* Of two threads the last is at the head of the queue, and the first schedule
\* with an odd number of switches starts with it.  ExitedNeverRuns does not hold
\* if it makes no shared access.
QuickLastPrograms == {p \in [Tids -> {Increment, Quick}] : p[NumFuncs] = Quick}

=============================================================================
