---------------------------- MODULE MCMuslMalloc ----------------------------
(* Model-checking instances of MuslMalloc. *)
EXTENDS MuslMalloc

\* An exact bin (23 units of 32 bytes) and two sizes that share bin 33, 46 and
\* 48 units: of the second, the fast path must look at the head's size.
SmallRequests == {700, 1456, 1500}

\* Chunks that, merged, are large enough to be reclaimed, and the smallest
\* request that needs a mapping of its own.
LargeRequests == {40000, 100000, 229361}

\* Addresses at which the kernel may place a mapping.
OneMapping == {10000000}
TwoMappings == {10000000, 20000000}
=============================================================================
