---------------------------- MODULE MCAttachment ----------------------------
(* Instances of Attachment for TLC. *)
EXTENDS AttachmentRefinement, TLC

CONSTANTS v1, v2, m1, m2, h1, h2, h3, shared, l1, l2, l3, d1, d2, p1, p2

\* Hosts with a local SR each, and an SR they share, in one pool.
MCLocalHost ==
  [s \in SRs |-> CASE s = l1 -> h1 [] s = l2 -> h2 [] s = l3 -> h3 [] OTHER -> None]
MCPoolOf == [x \in SRs \cup Hosts |-> p1]
\* The second host and its SR, and so the VM on it, belong to a pool of their own.
TwoPools == [x \in SRs \cup Hosts |-> IF x \in {h2, l2} THEN p2 ELSE p1]
MCHomeHost == [m \in VMs |-> IF m = m1 THEN h1 ELSE h2]

MCHomeVdi == [v \in Volumes |-> IF v = v1 THEN d1 ELSE d2]
\* CreateVolume has put a local volume on some local SR of the pool; the disk of a
\* static volume was made on the shared one.
HomeOn(local) == [v \in Volumes |-> IF v \in Local \ Static THEN local ELSE shared]
OnSecondHost == HomeOn(l2)
OnThirdHost == HomeOn(l3)

\* The spare disks, the VBDs and the calls are interchangeable.
Spare == Permutations(Vdis \ {d1, d2}) \cup Permutations(Vbds) \cup Permutations(Calls)
=============================================================================
