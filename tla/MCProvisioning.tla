--------------------------- MODULE MCProvisioning ---------------------------
(* Instances of Provisioning for TLC. *)
EXTENDS Provisioning

CONSTANTS n1, n2, p1, p2, p3, s1, s2, l1, l2

\* Two pools with a shared default SR and a local SR each, and a pool without SRs.
MCPoolOf == [s \in SRs |-> IF s \in {s1, l1} THEN p1 ELSE p2]
MCDefaultSR == [p \in Pools |-> IF p = p1 THEN s1 ELSE IF p = p2 THEN s2 ELSE None]

Plain == [name |-> n1, size |-> 1, wellFormed |-> TRUE, local |-> FALSE, poolId |-> None,
          preferred |-> <<>>, requisite |-> <<>>]

\* Requests for n1: by topology with either pool first and by topology without a
\* preference, of another capacity, and without any hint.  Requests for n2: on
\* local storage, with a poolId that fits its requisite and with one that does not.
MCRequests ==
  {[Plain EXCEPT !.preferred = <<p3, p1>>, !.requisite = <<p2, p3, p1>>],
   [Plain EXCEPT !.size = 2, !.preferred = <<None, p2>>, !.requisite = <<p1, p2>>],
   Plain,
   [Plain EXCEPT !.name = n2, !.local = TRUE, !.preferred = <<p2>>],
   [Plain EXCEPT !.name = n2, !.poolId = p1, !.requisite = <<p1, p2>>],
   [Plain EXCEPT !.name = n2, !.poolId = p2, !.requisite = <<p1>>]}

\* One volume, whose request names two pools.
OneRequest == {[Plain EXCEPT !.preferred = <<p1, p2>>]}

Interchangeable == Permutations(Vdis) \cup Permutations(Calls)
=============================================================================
