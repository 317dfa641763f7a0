------------------------- MODULE AbstractAllocator -------------------------
(***************************************************************************)
(* What malloc and free promise to the program: a block handed out has the *)
(* bytes that were asked for, shares none of them with a block that is     *)
(* still held, and stays as it is until the program frees it.              *)
(***************************************************************************)
EXTENDS Integers

\* live[p] is the number of bytes requested for the held pointer p.
VARIABLE live

Overlap(p, n, q, m) == p < q + m /\ q < p + n

Init == live = [p \in {} |-> 0]

\* A block of n bytes at p, clear of every held block and of their addresses.
Malloc(p, n) ==
  /\ p \notin DOMAIN live
  /\ \A q \in DOMAIN live : ~Overlap(p, n, q, live[q])
  /\ live' = [q \in DOMAIN live \cup {p} |-> IF q = p THEN n ELSE live[q]]

Free(p) ==
  /\ p \in DOMAIN live
  /\ live' = [q \in DOMAIN live \ {p} |-> live[q]]

Next ==
  \/ \E p \in DOMAIN live' : Malloc(p, live'[p])
  \/ \E p \in DOMAIN live : Free(p)

Spec == Init /\ [][Next]_live

=============================================================================
