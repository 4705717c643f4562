---------------------------- MODULE MCNodePlugin ----------------------------
(* Instances of NodePlugin for TLC. *)
EXTENDS NodePlugin

CONSTANTS v1, v2, t1, t2

\* Two pods share the first volume; the second takes its device name over.
MCVolumeOf == [t \in Targets |-> v1]
=============================================================================
