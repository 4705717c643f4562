---------------------------- MODULE MCNodeServer ----------------------------
(* Instances of NodeServer for TLC. *)
EXTENDS NodeServer, TLC

CONSTANTS v1, v2, t1, t2, t3

\* Two pods share the first volume, one has the second.
MCVolumeOf == [t \in Targets |-> IF t = t3 THEN v2 ELSE v1]

Interchangeable ==
  Permutations(Calls) \cup Permutations(Devices) \cup Permutations(Targets \ {t3})
=============================================================================
