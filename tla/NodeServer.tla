----------------------------- MODULE NodeServer -----------------------------
(***************************************************************************)
(* The node service of the driver on one node: NodeStageVolume,            *)
(* NodeUnstageVolume, NodePublishVolume and NodeUnpublishVolume over the   *)
(* node's mount table.                                                     *)
(*                                                                         *)
(* The driver keeps nothing: it reads the mount table, decides, and mounts *)
(* or unmounts in a later step.  A device name says which disk is meant    *)
(* only as long as that disk is plugged in; XO gives it to another disk    *)
(* when the first is detached.  The kubelet waits for an answer for two    *)
(* minutes; the handler that it has given up on goes on beside its retry.  *)
(***************************************************************************)
EXTENDS Naturals, Sequences, FiniteSets

CONSTANTS
  None,
  Volumes,       \* volumes; the staging path of each is called by its name
  Targets,       \* target paths of the pods
  VolumeOf,      \* [Targets -> Volumes]
  Devices,       \* device names: xvdb, ...
  Calls,         \* goroutines that serve a call
  Faults         \* what may go wrong in this instance

Ops == {"stage", "unstage", "publish", "unpublish"}

ASSUME NodeAssumption ==
  /\ VolumeOf \in [Targets -> Volumes]
  /\ Volumes \cap Targets = {}
  /\ None \notin Volumes \cup Targets \cup Devices \cup Ops

Paths == Volumes \cup Targets

VARIABLES
  device,        \* [Volumes -> Devices, or None if it is not plugged into this VM]
  mounts,        \* [Paths -> stack of mounts]: /proc/mounts
  call,          \* [Calls -> call record]
  staged, pub,   \* what the kubelet knows of the volumes and the targets
  overtaken      \* history: see Overtaking

vars == <<device, mounts, call, staged, pub, overtaken>>
kubelet == <<staged, pub>>

-----------------------------------------------------------------------------
\* A mount is of a device, or of a directory of the node (None).  vol is a ghost:
\* the volume that was plugged in under that name when the mount was made.
Mount == [dev : Devices \cup {None}, vol : Volumes \cup {None}]

PC == {"idle", "isStaged", "checkSR", "stat", "format", "refs", "isMounted", "bind",
       "unmount", "answer"}

\* The kubelet waits for the answer; it has given up; or it has given up and
\* has since asked for the opposite.
Caller == {"waits", "left", "turned"}

\* device is that of the publish context.
CallRecord ==
  [op : Ops \cup {None}, pc : PC,
   vol : Volumes \cup {None}, path : Paths \cup {None}, device : Devices \cup {None},
   caller : Caller]

Idle == [op |-> None, pc |-> "idle", vol |-> None, path |-> None, device |-> None,
         caller |-> "waits"]

TypeOK ==
  /\ device \in [Volumes -> Devices \cup {None}]
  /\ mounts \in [Paths -> Seq(Mount)]
  /\ call \in [Calls -> CallRecord]
  /\ staged \in [Volumes -> {"no", "staging", "yes", "unstaging"}]
  /\ pub \in [Targets -> {"no", "publishing", "yes", "unpublishing"}]
  /\ overtaken \in BOOLEAN

Init ==
  /\ device = [v \in Volumes |-> None]
  /\ mounts = [p \in Paths |-> <<>>]
  /\ call = [c \in Calls |-> Idle]
  /\ staged = [v \in Volumes |-> "no"]
  /\ pub = [t \in Targets |-> "no"]
  /\ overtaken = FALSE

-----------------------------------------------------------------------------
(* The mount table (k8s.io/mount-utils and the kernel). *)

PluggedAs(d) == {v \in Volumes : device[v] = d}

\* /proc/mounts has the path of the device, not its name.
DevicePath(d) == <<"/dev/", d>>

\* The first mount on the path, and how many mounts its device has on the node.
GetDeviceNameFromMount(p) ==
  IF mounts[p] = <<>> THEN [path |-> None, ref |-> 0]
  ELSE LET d == Head(mounts[p]).dev IN
       [path |-> DevicePath(d),
        ref  |-> Cardinality(UNION {{q} \X {i \in DOMAIN mounts[q] : mounts[q][i].dev = d} :
                                    q \in Paths})]

IsMountPoint_Source(c) == mounts[call[c].vol] # <<>>   \* mutation: the staging path is asked about
IsMountPoint(c) == mounts[call[c].path] # <<>>

MountOn(p, m) == mounts' = [mounts EXCEPT ![p] = Append(@, m)]

\* What a path shows: the last mount on it, or a plain directory.
Top(p) == IF mounts[p] = <<>> THEN [dev |-> None, vol |-> None] ELSE mounts[p][Len(mounts[p])]

Source_Path(v) == [dev |-> v, vol |-> v]               \* mutation: the path for its device
Source(v) == Top(v)

-----------------------------------------------------------------------------
At(c, pc) == call[c].pc = pc
Heard(c) == call[c].caller = "waits"
Goto(c, pc) == call' = [call EXCEPT ![c].pc = pc]

\* The handler returns an error; the kubelet will call again.
Reject(c) ==
  /\ call' = [call EXCEPT ![c] = Idle]
  /\ UNCHANGED kubelet

Knows(c, inStaged, inPub) ==
  LET k == call[c] IN
  IF ~Heard(c) THEN UNCHANGED kubelet
  ELSE IF k.path \in Volumes
  THEN staged' = [staged EXCEPT ![k.path] = inStaged] /\ UNCHANGED pub
  ELSE pub' = [pub EXCEPT ![k.path] = inPub] /\ UNCHANGED staged

\* The handler answers OK.
Succeed(c) ==
  /\ call' = [call EXCEPT ![c] = Idle]
  /\ IF call[c].op \in {"stage", "publish"} THEN Knows(c, "yes", "yes") ELSE Knows(c, "no", "no")

\* The last system call is done and its answer is on the way.
Answer(c) == At(c, "answer") /\ Succeed(c) /\ UNCHANGED <<device, mounts, overtaken>>

\* A handler changes the mount table although the kubelet has given up on it and
\* meanwhile wants the opposite: the state is no longer what anyone asked for.
Overtaking(c) ==
  overtaken' = (overtaken \/ (call[c].caller = "turned" /\ mounts' # mounts))

-----------------------------------------------------------------------------
(* The kubelet: it waits for one call for a volume at a time, but for pods that
   are unpublished together; retries until it is told that a call succeeded; a
   volume is staged before it is published and unstaged when no pod has it.
   BOUND: it asks for nothing more once a late call has overtaken it. *)

TargetsOf(v) == {t \in Targets : VolumeOf[t] = v}

Free(v, op, p) ==
  \A c \in Calls : call[c].vol = v /\ Heard(c) =>
    op = "unpublish" /\ call[c].op = "unpublish" /\ call[c].path # p

Start(c, op, v, p, pc) ==
  /\ At(c, "idle") /\ Free(v, op, p) /\ ~overtaken
  /\ call' = [e \in Calls |->
       IF e = c THEN [op |-> op, pc |-> pc, vol |-> v, path |-> p, caller |-> "waits",
                      device |-> IF op = "stage" THEN device[v] ELSE None]
       ELSE IF call[e].path = p /\ call[e].op # op THEN [call[e] EXCEPT !.caller = "turned"]
       ELSE call[e]]
  /\ UNCHANGED <<device, mounts, overtaken>>

StartStage(c, v) ==
  /\ device[v] # None /\ staged[v] # "unstaging"
  /\ Start(c, "stage", v, v, "isStaged")
  /\ staged' = [staged EXCEPT ![v] = "staging"]
  /\ UNCHANGED pub

StartUnstage(c, v) ==
  /\ staged[v] # "no" /\ \A t \in TargetsOf(v) : pub[t] = "no"
  /\ Start(c, "unstage", v, v, "refs")
  /\ staged' = [staged EXCEPT ![v] = "unstaging"]
  /\ UNCHANGED pub

StartPublish(c, t) ==
  /\ staged[VolumeOf[t]] = "yes" /\ pub[t] # "unpublishing"
  /\ Start(c, "publish", VolumeOf[t], t, "isMounted")
  /\ pub' = [pub EXCEPT ![t] = "publishing"]
  /\ UNCHANGED staged

StartUnpublish(c, t) ==
  /\ pub[t] # "no"
  /\ Start(c, "unpublish", VolumeOf[t], t, "unmount")
  /\ pub' = [pub EXCEPT ![t] = "unpublishing"]
  /\ UNCHANGED staged

\* The deadline of a call passes, or the kubelet is stopped.  The handler goes on.
GiveUp(c) ==
  /\ "timeout" \in Faults /\ ~At(c, "idle") /\ Heard(c)
  /\ call' = [call EXCEPT ![c].caller = "left"]
  /\ UNCHANGED <<device, mounts, kubelet, overtaken>>

\* The controller plugs the disk in under a name that is free, and unplugs it
\* when the kubelet no longer reports the volume as in use.
Attach(v, d) ==
  /\ device[v] = None /\ PluggedAs(d) = {}
  /\ device' = [device EXCEPT ![v] = d]
  /\ UNCHANGED <<mounts, call, kubelet, overtaken>>

Detach(v) ==
  /\ device[v] # None /\ staged[v] = "no"
  /\ device' = [device EXCEPT ![v] = None]
  /\ UNCHANGED <<mounts, call, kubelet, overtaken>>

-----------------------------------------------------------------------------
(* NodeStageVolume. *)

\* What was read is a path and is compared with the name of the publish context.
IsStaged(c) ==
  /\ At(c, "isStaged")
  /\ IF GetDeviceNameFromMount(call[c].path).path = call[c].device THEN Succeed(c)
     ELSE Goto(c, "checkSR") /\ UNCHANGED kubelet
  /\ UNCHANGED <<device, mounts, overtaken>>

\* IsSRAttachedToVMHost: VBD, VM, VDI and PBD are read from XO.  These requests
\* are all that ctx is passed to: they fail once the kubelet has given up.
CheckSR(c) ==
  /\ At(c, "checkSR")
  /\ IF Heard(c) THEN Goto(c, "stat") /\ UNCHANGED kubelet ELSE Reject(c)
  /\ UNCHANGED <<device, mounts, overtaken>>

StatDevice(c) ==
  /\ At(c, "stat")
  /\ IF PluggedAs(call[c].device) = {} THEN Reject(c)
     ELSE Goto(c, "format") /\ UNCHANGED kubelet
  /\ UNCHANGED <<device, mounts, overtaken>>

\* The kernel refuses to mount a file system over itself.
FormatAndMount(c) ==
  LET k == call[c]
      fresh == {m \in [dev : {k.device}, vol : PluggedAs(k.device)] : m # Top(k.path)} IN
  /\ At(c, "format")
  /\ \/ fresh = {} /\ Reject(c) /\ UNCHANGED mounts
     \/ (\E m \in fresh : MountOn(k.path, m)) /\ Goto(c, "answer") /\ UNCHANGED kubelet
  /\ Overtaking(c)
  /\ UNCHANGED device

-----------------------------------------------------------------------------
(* NodeUnstageVolume. *)

StillInUse_AtOne(ref) == ref >= 1                      \* mutation: off by one
StillInUse(ref) == ref > 1

CheckRefs(c) ==
  LET ref == GetDeviceNameFromMount(call[c].path).ref IN
  /\ At(c, "refs")
  /\ IF ref < 1 \/ StillInUse(ref) THEN Succeed(c)
     ELSE Goto(c, "unmount") /\ UNCHANGED kubelet
  /\ UNCHANGED <<device, mounts, overtaken>>

NothingMounted_IsAnError(c) == Reject(c)               \* mutation: not idempotent
NothingMounted(c) == Succeed(c)

\* Unmount, also of NodeUnpublishVolume: CleanupMountPoint unmounts once, and
\* fails if the path is a mount point still.
Unmount(c) ==
  LET p == call[c].path IN
  /\ At(c, "unmount")
  /\ IF mounts[p] = <<>> THEN NothingMounted(c) /\ UNCHANGED mounts
     ELSE /\ mounts' = [mounts EXCEPT ![p] = SubSeq(@, 1, Len(@) - 1)]
          /\ IF Len(mounts[p]) = 1 THEN Goto(c, "answer") /\ UNCHANGED kubelet ELSE Reject(c)
  /\ Overtaking(c)
  /\ UNCHANGED device

-----------------------------------------------------------------------------
(* NodePublishVolume. *)

CheckMountPoint(c) ==
  /\ At(c, "isMounted")
  /\ IF IsMountPoint(c) THEN Succeed(c) ELSE Goto(c, "bind") /\ UNCHANGED kubelet
  /\ UNCHANGED <<device, mounts, overtaken>>

BindMount(c) ==
  LET k == call[c] IN
  /\ At(c, "bind")
  /\ MountOn(k.path, Source(k.vol))
  /\ Goto(c, "answer")
  /\ Overtaking(c)
  /\ UNCHANGED <<device, kubelet>>

-----------------------------------------------------------------------------
\* A request to XO or a system call fails, udev is late with the device file, the
\* file system is busy, or the answer is lost.
Fails(c) ==
  /\ "error" \in Faults /\ ~At(c, "idle")
  /\ Reject(c)
  /\ UNCHANGED <<device, mounts, overtaken>>

\* The plugin's container is killed with all its calls; the mounts stay.
Crash ==
  /\ "crash" \in Faults
  /\ call' = [c \in Calls |-> Idle]
  /\ UNCHANGED <<device, mounts, kubelet, overtaken>>

Ask(c) ==
  \/ \E v \in Volumes : StartStage(c, v) \/ StartUnstage(c, v)
  \/ \E t \in Targets : StartPublish(c, t) \/ StartUnpublish(c, t)

Handle(c) ==
  \/ IsStaged(c) \/ CheckSR(c) \/ StatDevice(c) \/ FormatAndMount(c)
  \/ CheckRefs(c) \/ Unmount(c) \/ CheckMountPoint(c) \/ BindMount(c)
  \/ Answer(c)

Plug == \E v \in Volumes : Detach(v) \/ \E d \in Devices : Attach(v, d)

Next == Plug \/ Crash \/ \E c \in Calls : Ask(c) \/ Handle(c) \/ Fails(c) \/ GiveUp(c)

Spec == Init /\ [][Next]_vars

-----------------------------------------------------------------------------
(* Properties. *)

\* Calls that the kubelet has given up on and repeated overlap with the repetition,
\* and may even mount twice.  None of this harms: the properties hold until a late
\* call goes against what the kubelet has asked for since (nodeserver.go:117, 148).

\* A disk is mounted only while it is plugged in, under the name it has: none is
\* unplugged with a mounted file system, and no mount shows the disk that got the
\* name afterwards (nodeserver.go:289-304).
MountedIsPlugged ==
  ~overtaken =>
  \A p \in Paths : \A i \in DOMAIN mounts[p] :
    mounts[p][i].vol # None /\ device[mounts[p][i].vol] = mounts[p][i].dev

\* What the kubelet believes published shows the pod its own volume, and not an
\* empty directory or another disk (nodeserver.go:117-154).
PodsSeeTheirVolume ==
  ~overtaken =>
  \A t \in Targets : pub[t] = "yes" => Top(t).vol = VolumeOf[t]

\* What the kubelet believes unpublished or unstaged is mounted nowhere, however
\* often it had to ask (nodeserver.go:170-177, 283-305).
NothingLeft ==
  ~overtaken =>
  /\ \A t \in Targets : pub[t] = "no" => mounts[t] = <<>>
  /\ \A v \in Volumes : staged[v] = "no" =>
       \A p \in Paths : \A i \in DOMAIN mounts[p] : mounts[p][i].vol # v

\* A volume that is staged is not formatted and mounted once more
\* (nodeserver.go:233-237).
StagedIsSeen ==
  \A c \in Calls : At(c, "format") =>
    \A i \in DOMAIN mounts[call[c].path] : mounts[call[c].path][i].vol # call[c].vol
=============================================================================
