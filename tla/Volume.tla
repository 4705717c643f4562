------------------------------- MODULE Volume -------------------------------
(***************************************************************************)
(* What the controller service promises of volumes, whatever it takes to   *)
(* keep it: a volume is held by one VM at a time, is taken only by a VM    *)
(* the CO has asked for, is not let go while it is published, and each     *)
(* answer tells the truth when it is given.                                *)
(***************************************************************************)
CONSTANTS Volumes, VMs

VARIABLES
  held,      \* [Volumes -> SUBSET VMs]: VMs that have the volume, or are getting it
  told,      \* [Volumes -> [VMs -> state]]: the CO's VolumeAttachments
  gone       \* volumes whose deletion was acknowledged

vars == <<held, told, gone>>

States == {"out", "attaching", "in", "detaching"}

TypeOK ==
  /\ held \in [Volumes -> SUBSET VMs]
  /\ told \in [Volumes -> [VMs -> States]]
  /\ gone \subseteq Volumes

Init ==
  /\ held = [v \in Volumes |-> {}]
  /\ told = [v \in Volumes |-> [m \in VMs |-> "out"]]
  /\ gone = {}

Tell(v, m, state) ==
  /\ told' = [told EXCEPT ![v][m] = state]
  /\ UNCHANGED <<held, gone>>

-----------------------------------------------------------------------------
(* The CO asks. *)

AskPublish(v, m) ==
  /\ v \notin gone /\ told[v][m] # "detaching"
  /\ \A m2 \in VMs \ {m} : told[v][m2] = "out"
  /\ Tell(v, m, "attaching")

AskUnpublish(v, m) ==
  /\ v \notin gone /\ told[v][m] # "out"
  /\ Tell(v, m, "detaching")

(* The driver has it done. *)

Take(v, m) ==
  /\ held[v] = {} /\ told[v][m] = "attaching"
  /\ held' = [held EXCEPT ![v] = {m}]
  /\ UNCHANGED <<told, gone>>

\* Also when an attachment fails.
LetGo(v, m) ==
  /\ m \in held[v] /\ told[v][m] # "in"
  /\ held' = [held EXCEPT ![v] = {}]
  /\ UNCHANGED <<told, gone>>

(* The driver answers. *)

Published(v, m) ==
  /\ told[v][m] = "attaching" /\ held[v] = {m}
  /\ Tell(v, m, "in")

Unpublished(v, m) ==
  /\ told[v][m] = "detaching" /\ m \notin held[v]
  /\ Tell(v, m, "out")

Deleted(v) ==
  /\ held[v] = {} /\ \A m \in VMs : told[v][m] = "out"
  /\ gone' = gone \cup {v}
  /\ UNCHANGED <<held, told>>

Next ==
  \/ \E v \in Volumes, m \in VMs :
       \/ AskPublish(v, m) \/ AskUnpublish(v, m) \/ Take(v, m) \/ LetGo(v, m)
       \/ Published(v, m) \/ Unpublished(v, m)
  \/ \E v \in Volumes : Deleted(v)

Spec == Init /\ [][Next]_vars

-----------------------------------------------------------------------------
(* What follows from the promise. *)

\* A volume is held by the one VM it is published to or on its way to or from,
\* and by no VM when the CO was told that it is unpublished.
Exclusive ==
  \A v \in Volumes, m \in VMs :
    /\ told[v][m] = "in" => held[v] = {m}
    /\ told[v][m] = "out" => m \notin held[v]
    /\ m \in held[v] => held[v] = {m}
=============================================================================
