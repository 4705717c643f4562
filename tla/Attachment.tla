----------------------------- MODULE Attachment -----------------------------
(***************************************************************************)
(* The controller service of the driver, for volumes that exist:           *)
(* ControllerPublishVolume, ControllerUnpublishVolume, DeleteVolume and     *)
(* ValidateVolumeCapabilities, over the store of XenOrchestra.tla.          *)
(*                                                                         *)
(* gRPC runs every call in a goroutine of its own and the driver holds no  *)
(* lock, so a call is a record of its own in `call` and one action is one  *)
(* request to XO together with the local code up to the next request.      *)
(* Between two actions of a call everything else may happen; what a call   *)
(* has read stays in its record and may be stale.                          *)
(***************************************************************************)
EXTENDS XenOrchestra, FiniteSets

CONSTANTS
  Calls,        \* goroutines that serve a call
  Static,       \* volumes whose handle is the UUID of an existing VDI
  Local,        \* volumes with storageType local in their volume context
  HomeVdi,      \* [Volumes -> Vdis]: the disk each volume starts on
  HomeSR,       \* [Volumes -> SRs]
  HomeHost,     \* [VMs -> Hosts]
  ClusterTag,   \* driver.clusterTag # ""
  Ops,          \* the operations the CO calls in this instance
  Ordered       \* the CO has one call in flight per volume and publishes a
                \* volume to a VM only when it is unpublished everywhere else

ASSUME VolumeAssumption ==
  /\ Static \subseteq Volumes /\ Local \subseteq Volumes
  /\ HomeVdi \in [Volumes -> Vdis] /\ HomeSR \in [Volumes -> SRs]
  /\ HomeHost \in [VMs -> Hosts]
  /\ \A v, w \in Volumes : HomeVdi[v] = HomeVdi[w] => v = w
  /\ ClusterTag \in BOOLEAN /\ Ordered \in BOOLEAN
  /\ Ops \subseteq {"publish", "unpublish", "delete", "validate"}

VARIABLES
  call,         \* [Calls -> call record]
  co,           \* the CO's VolumeAttachment of each volume and VM
  doomed,       \* volumes whose deletion was asked for (history)
  deleted       \* volumes whose deletion was acknowledged

vars == <<vdi, vbd, host, call, co, doomed, deleted>>

\* What the CO has asked for and was told.
CO == <<co, doomed, deleted>>

-----------------------------------------------------------------------------
(* A call: the operation and its arguments, then the locals of its handler.
   vdi, sr, tags and adopted are the *payloads.VDI it looked up (ID, SR, the
   k8s:volumeId tags and the cluster tag as they were then), host is
   nodeVM.Container, to the local SR, vbd the VBD.                         *)

PC == {"idle", "byTag", "byLabel", "byUUID", "recover", "adopt", "getVM", "findSR",
       "migrate", "migrating", "copyTags", "refetch", "checkSR", "checkVbds",
       "connect", "connecting", "getVbd", "create", "poll",
       "findVbd", "disconnect", "disconnecting", "checkUnused", "destroy", "destroyed",
       "panic"}

CallRecord ==
  [op : Ops \cup {None}, pc : PC, vol : Volumes \cup {None}, vm : VMs \cup {None},
   vdi : Vdis \cup {None}, sr : SRs \cup {None}, tags : SUBSET Volumes,
   adopted : BOOLEAN, host : Hosts \cup {None}, to : SRs \cup {None},
   vbd : Vbds \cup {None}]

Idle == [op |-> None, pc |-> "idle", vol |-> None, vm |-> None, vdi |-> None,
         sr |-> None, tags |-> {}, adopted |-> FALSE, host |-> None, to |-> None,
         vbd |-> None]

TypeOK ==
  /\ StoreTypeOK
  /\ call \in [Calls -> CallRecord]
  /\ co \in [Volumes -> [VMs -> {"out", "attaching", "in", "detaching"}]]
  /\ doomed \subseteq Volumes /\ deleted \subseteq Volumes

\* What CreateNewVolume writes on a disk (xoclient.go:149-178); the disk of a
\* static volume was made by someone else.
DynamicTags(v) == IF v \in Static THEN {} ELSE {v}
DynamicLabel_Plain(v) == None      \* mutation: a name_label without the ID
DynamicLabel(v) == IF v \in Static THEN None ELSE v

InitialVDI(v) ==
  [UnusedVDI EXCEPT !.state = "live", !.sr = HomeSR[v], !.owner = v,
     !.idTags = DynamicTags(v), !.label = DynamicLabel(v),
     !.cluster = (v \notin Static /\ ClusterTag)]

Init ==
  /\ vdi = [d \in Vdis |-> IF \E v \in Volumes : HomeVdi[v] = d
                           THEN InitialVDI(CHOOSE v \in Volumes : HomeVdi[v] = d)
                           ELSE UnusedVDI]
  /\ vbd = [b \in Vbds |-> UnusedVBD]
  /\ host = HomeHost
  /\ call = [c \in Calls |-> Idle]
  /\ co = [v \in Volumes |-> [m \in VMs |-> "out"]]
  /\ doomed = {} /\ deleted = {}

-----------------------------------------------------------------------------
(* How a handler proceeds. *)

At(c, pc) == call[c].pc = pc
Goto(c, pc) == call' = [call EXCEPT ![c].pc = pc]

\* The handler returns an error; the CO knows no more than before.
Reject(c) ==
  /\ call' = [call EXCEPT ![c] = Idle]
  /\ UNCHANGED CO

\* Only an orderly CO acts upon what it has noted.
Noted(v, m, state) == IF Ordered THEN [co EXCEPT ![v][m] = state] ELSE co

\* The handler answers OK.
Succeed(c) ==
  LET k == call[c] IN
  /\ call' = [call EXCEPT ![c] = Idle]
  /\ co' = CASE k.op = "publish"   -> Noted(k.vol, k.vm, "in")
             [] k.op = "unpublish" -> Noted(k.vol, k.vm, "out")
             [] OTHER -> co
  /\ deleted' = IF k.op = "delete" THEN deleted \cup {k.vol} ELSE deleted
  /\ UNCHANGED doomed

\* Mutation: the VDI's UUID is kept for that of its SR.
Keep_WrongSR(c, d, pc) ==
  call' = [call EXCEPT ![c] = [@ EXCEPT !.pc = pc, !.vdi = d, !.sr = d,
                                 !.tags = vdi[d].idTags, !.adopted = vdi[d].cluster]]

\* The call keeps the VDI that a request returned and goes on at pc.
Keep(c, d, pc) ==
  call' = [call EXCEPT ![c] = [@ EXCEPT !.pc = pc, !.vdi = d, !.sr = vdi[d].sr,
                                 !.tags = vdi[d].idTags, !.adopted = vdi[d].cluster]]

-----------------------------------------------------------------------------
(* The container orchestrator: Kubernetes with the csi-attacher sidecar
   (deploy/csi-xenorchestra-controller.yaml).  Once it has asked for a volume to be
   unpublished it asks again until that is acknowledged.                   *)

InFlight(v) == \E c \in Calls : call[c].vol = v

COAllows(op, v, m) ==
  /\ ~InFlight(v) /\ v \notin deleted
  /\ CASE op = "publish"   -> /\ co[v][m] # "detaching"
                              /\ \A m2 \in VMs \ {m} : co[v][m2] = "out"
       [] op = "unpublish" -> co[v][m] # "out"
       [] op = "delete"    -> \A m2 \in VMs : co[v][m2] = "out"
       [] OTHER -> TRUE

StartCall(c, op, v, m) ==
  /\ At(c, "idle")
  /\ (m = None) <=> (op \in {"delete", "validate"})
  /\ Ordered => COAllows(op, v, m)
  /\ call' = [call EXCEPT ![c] = [Idle EXCEPT !.op = op, !.pc = "byTag", !.vol = v, !.vm = m]]
  /\ co' = IF m = None THEN co
           ELSE Noted(v, m, IF op = "publish" THEN "attaching" ELSE "detaching")
  /\ doomed' = IF op = "delete" THEN doomed \cup {v} ELSE doomed
  /\ UNCHANGED <<vdi, vbd, host, deleted>>

-----------------------------------------------------------------------------
(* GetVDIByVolumeId: by tag, by name_label, by UUID. *)

ByTag(v) == {d \in Vdis : Live(d) /\ v \in vdi[d].idTags}
ByLabel_AnyPrefix(v) == {d \in Vdis : Live(d) /\ vdi[d].label # None}   \* mutation
ByLabel(v) == {d \in Vdis : Live(d) /\ vdi[d].label = v}
ByUUID(v) == {d \in Vdis : Live(d) /\ v \in Static /\ d = HomeVdi[v]}

\* Mutation: disks found are never adopted.
AfterLookup_NoAdoption(op, adopted) ==
  CASE op = "publish" -> "getVM" [] op = "unpublish" -> "findVbd" [] OTHER -> "checkUnused"

\* A publish first adopts a disk without the cluster tag.
AfterLookup(op, adopted) ==
  CASE op = "publish"   -> IF ClusterTag /\ ~adopted THEN "adopt" ELSE "getVM"
    [] op = "unpublish" -> "findVbd"
    [] OTHER            -> "checkUnused"

Found(c, d) ==
  IF call[c].op = "validate" THEN Succeed(c)
  ELSE Keep(c, d, AfterLookup(call[c].op, vdi[d].cluster)) /\ UNCHANGED CO

\* ErrVolumeNotFound means already detached and already deleted.
NotFound(c) ==
  IF call[c].op \in {"unpublish", "delete"} THEN Succeed(c) ELSE Reject(c)

\* ErrVolumeIdAmbiguous
Ambiguous(found) == \E d, e \in found : d # e

LookupByTag(c) ==
  LET found == ByTag(call[c].vol) IN
  /\ At(c, "byTag")
  /\ \/ \E d \in Vdis : found = {d} /\ Found(c, d)
     \/ found = {} /\ Goto(c, "byLabel") /\ UNCHANGED CO
     \/ Ambiguous(found) /\ Reject(c)
  /\ UNCHANGED store

LookupByLabel(c) ==
  LET found == ByLabel(call[c].vol) IN
  /\ At(c, "byLabel")
  /\ \/ \E d \in Vdis : found = {d} /\ Keep(c, d, "recover") /\ UNCHANGED CO
     \/ found = {} /\ Goto(c, "byUUID") /\ UNCHANGED CO
     \/ Ambiguous(found) /\ Reject(c)
  /\ UNCHANGED store

LookupByUUID(c) ==
  /\ At(c, "byUUID")
  /\ \/ \E d \in ByUUID(call[c].vol) : Keep(c, d, "recover") /\ UNCHANGED CO
     \/ ByUUID(call[c].vol) = {} /\ NotFound(c)
  /\ UNCHANGED store

\* recoverVolumeLookupTags: the tag is written to XO, where the request may be
\* lost, and not to the record that the call goes on with.
RecoverTags(c) ==
  LET k == call[c] IN
  /\ At(c, "recover")
  /\ \/ AddIdTags(k.vdi, {k.vol})
     \/ "api" \in Faults /\ UNCHANGED vdi
  /\ IF k.op = "validate" THEN Succeed(c) ELSE Goto(c, AfterLookup(k.op, k.adopted)) /\ UNCHANGED CO
  /\ UNCHANGED <<vbd, host>>

-----------------------------------------------------------------------------
(* ControllerPublishVolume. *)

AdoptVDI(c) ==
  LET k == call[c] IN
  /\ At(c, "adopt")
  /\ IF Live(k.vdi)
     THEN /\ vdi' = [vdi EXCEPT ![k.vdi].cluster = TRUE]
          /\ Goto(c, "getVM") /\ UNCHANGED CO
     ELSE Reject(c) /\ UNCHANGED vdi
  /\ UNCHANGED <<vbd, host>>

GetVM(c) ==
  LET k == call[c]
      h == host[k.vm] IN
  /\ At(c, "getVM")
  /\ IF PoolOf[h] # PoolOf[k.sr] THEN Reject(c)
     ELSE /\ call' = [call EXCEPT ![c] = [@ EXCEPT !.host = h,
                        !.pc = IF k.vol \in Local THEN "findSR" ELSE "checkSR"]]
          /\ UNCHANGED CO
  /\ UNCHANGED store

FindLocalSRForHost(c) ==
  LET k == call[c]
      onHost == {s \in SRs : LocalHost[s] = k.host} IN
  /\ At(c, "findSR")
  /\ \/ onHost = {} /\ Reject(c)
     \/ \E s \in onHost :
          /\ call' = [call EXCEPT ![c] =
               [@ EXCEPT !.to = s, !.pc = IF s = k.sr THEN "checkSR" ELSE "migrate"]]
          /\ UNCHANGED CO
  /\ UNCHANGED store

\* MigrateVDIAndWait, three requests: migrate, wait for the task, copy the tags.
StartMigration(c) ==
  LET k == call[c] IN
  /\ At(c, "migrate")
  /\ IF Live(k.vdi) /\ ~Busy(k.vdi)
     THEN /\ vdi' = [vdi EXCEPT ![k.vdi].to = k.to]
          /\ Goto(c, "migrating") /\ UNCHANGED CO
     ELSE Reject(c) /\ UNCHANGED vdi
  /\ UNCHANGED <<vbd, host>>

\* The task ends; Task().Wait hands its result to the call that waits, if one does.
Awaits(c, d) == At(c, "migrating") /\ call[c].vdi = d

FinishMigration(d, n) ==
  /\ MigrationDone(d, n)
  /\ call' = [c \in Calls |-> IF Awaits(c, d)
                              THEN [call[c] EXCEPT !.pc = "copyTags", !.vdi = n]
                              ELSE call[c]]
  /\ UNCHANGED CO

FailMigration(d) ==
  /\ MigrationFails(d)
  /\ call' = [c \in Calls |-> IF Awaits(c, d) THEN Idle ELSE call[c]]
  /\ UNCHANGED CO

\* writeTagsToVDI with the tags the call read before it migrated; an AddTag
\* that fails is logged and ignored.
CopyTags(c) ==
  LET k == call[c] IN
  /\ At(c, "copyTags")
  /\ \E T \in IF "api" \in Faults THEN SUBSET k.tags ELSE {k.tags} : AddIdTags(k.vdi, T)
  /\ Goto(c, "refetch")
  /\ UNCHANGED <<vbd, host, CO>>

RefetchVDI(c) ==
  /\ At(c, "refetch")
  /\ IF Live(call[c].vdi) THEN Keep(c, call[c].vdi, "checkSR") /\ UNCHANGED CO
                          ELSE Reject(c)
  /\ UNCHANGED store

IsSRAttachedToHost(c) ==
  /\ At(c, "checkSR")
  /\ IF Reaches(call[c].sr, call[c].host) THEN Goto(c, "checkVbds") /\ UNCHANGED CO
                                          ELSE Reject(c)
  /\ UNCHANGED store

UsedElsewhere(d, m) == \E b \in VbdsOf(d) : Attached(b) /\ vbd[b].vm # m
OwnVbds(d, m) == {b \in VbdsOf(d) : vbd[b].vm = m}

\* IsVDIUsedAnywhere and the decision over its result.  The last VBD of this VM
\* in XO's answer is taken, and XO may list them in any order.
CheckVbds(c) ==
  LET k == call[c]
      own == OwnVbds(k.vdi, k.vm) IN
  /\ At(c, "checkVbds")
  /\ \/ UsedElsewhere(k.vdi, k.vm) /\ Reject(c)
     \/ ~UsedElsewhere(k.vdi, k.vm) /\ own = {} /\ Goto(c, "create") /\ UNCHANGED CO
     \/ /\ ~UsedElsewhere(k.vdi, k.vm)
        /\ \E b \in own :
             IF Attached(b) /\ vbd[b].named THEN Succeed(c)
             ELSE /\ call' = [call EXCEPT ![c] = [@ EXCEPT
                       !.pc = IF Attached(b) THEN "poll" ELSE "connect", !.vbd = b]]
                  /\ UNCHANGED CO
  /\ UNCHANGED store

\* ConnectVBDToVM: connect, wait for the task, read the VBD again.
ConnectVBD(c) ==
  LET b == call[c].vbd IN
  /\ At(c, "connect")
  /\ IF vbd[b].plug = "off"
     THEN /\ vbd' = [vbd EXCEPT ![b].plug = "plugging"]
          /\ Goto(c, "connecting") /\ UNCHANGED CO
     ELSE Reject(c) /\ UNCHANGED vbd
  /\ UNCHANGED <<vdi, host>>

\* Only an error of Task().Wait is looked at, not the status of the task.
AwaitConnect(c) ==
  /\ At(c, "connecting") /\ vbd[call[c].vbd].plug # "plugging"
  /\ Goto(c, "getVbd")
  /\ UNCHANGED <<store, CO>>

\* publishContextFromVBD dereferences the device name.
GetConnectedVBD(c) ==
  LET b == call[c].vbd IN
  /\ At(c, "getVbd")
  /\ \/ ~Exists(b) /\ Reject(c)
     \/ Exists(b) /\ vbd[b].named /\ Succeed(c)
     \/ Exists(b) /\ ~vbd[b].named /\ Goto(c, "panic") /\ UNCHANGED CO
  /\ UNCHANGED store

\* AttachVDIToVM: create the VBD, then WaitForVDIToBeFullyAttached.
CreateVBD(c) ==
  LET k == call[c] IN
  /\ At(c, "create")
  /\ IF Live(k.vdi)
     THEN \E b \in Vbds :
            /\ CreateVBDOn(b, k.vdi, k.vm)
            /\ call' = [call EXCEPT ![c] = [@ EXCEPT !.pc = "poll", !.vbd = b]]
            /\ UNCHANGED CO
     ELSE Reject(c) /\ UNCHANGED vbd
  /\ UNCHANGED <<vdi, host>>

\* One tick of the poll, which ends the wait only for a device with a name.
FullyAttached_NoName(b) == Attached(b)     \* mutation: the name is not waited for
FullyAttached(b) == Attached(b) /\ vbd[b].named

PollVBD(c) ==
  /\ At(c, "poll") /\ FullyAttached(call[c].vbd)
  /\ Succeed(c)
  /\ UNCHANGED store

PollTimeout(c) ==
  /\ At(c, "poll") /\ ~FullyAttached(call[c].vbd)
  /\ Reject(c)
  /\ UNCHANGED store

-----------------------------------------------------------------------------
(* ControllerUnpublishVolume. *)

Detachable_AttachedOnly(c) ==              \* mutation: a VBD being plugged is skipped
  {b \in OwnVbds(call[c].vdi, call[c].vm) : Attached(b)}
Detachable(c) == OwnVbds(call[c].vdi, call[c].vm)

NoVBD_IsAnError(c) == Reject(c)            \* mutation: ErrVBDNotFound is not ignored
NoVBD(c) == Succeed(c)

\* GetVBDFromVDIAndVM returns the first VBD; none is ErrVBDNotFound, a success.
FindVBD(c) ==
  /\ At(c, "findVbd")
  /\ \/ Detachable(c) = {} /\ NoVBD(c)
     \/ \E b \in Detachable(c) :
          /\ call' = [call EXCEPT ![c] = [@ EXCEPT !.pc = "disconnect", !.vbd = b]]
          /\ UNCHANGED CO
  /\ UNCHANGED store

\* VBD().Disconnect: accepted for a plugged VBD; XO may take one that is
\* already unplugged as done or as an error.  A VBD that is being plugged is locked
\* by XAPI: XO refuses, or ("locked") it accepts and only the task fails, which the
\* driver does not look at.
DisconnectVBD(c) ==
  LET b == call[c].vbd IN
  /\ At(c, "disconnect")
  /\ \/ /\ vbd[b].plug = "on"
        /\ vbd' = [vbd EXCEPT ![b].plug = "unplugging"]
        /\ Goto(c, "disconnecting") /\ UNCHANGED CO
     \/ /\ vbd[b].plug = "off" \/ ("locked" \in Faults /\ vbd[b].plug = "plugging")
        /\ Goto(c, "disconnecting") /\ UNCHANGED <<vbd, CO>>
     \/ /\ vbd[b].plug \notin {"on", "off"} \/ ("api" \in Faults /\ vbd[b].plug = "off")
        /\ Reject(c) /\ UNCHANGED vbd
  /\ UNCHANGED <<vdi, host>>

\* Mutation: the end of the task is not awaited.
AwaitDisconnect_NoWait(c) ==
  /\ At(c, "disconnecting")
  /\ Succeed(c)
  /\ UNCHANGED store

\* Again the status of the task is not looked at.
AwaitDisconnect(c) ==
  /\ At(c, "disconnecting") /\ vbd[call[c].vbd].plug # "unplugging"
  /\ Succeed(c)
  /\ UNCHANGED store

-----------------------------------------------------------------------------
(* DeleteVolume. *)

CheckUnused(c) ==
  /\ At(c, "checkUnused")
  /\ IF \E b \in VbdsOf(call[c].vdi) : Attached(b) THEN Reject(c)
     ELSE Goto(c, "destroy") /\ UNCHANGED CO
  /\ UNCHANGED store

\* A disk that is gone by now was deleted by a concurrent call: success.
DeleteVDI(c) ==
  LET d == call[c].vdi IN
  /\ At(c, "destroy")
  /\ \/ Live(d) /\ ~Busy(d) /\ DestroyVDI(d) /\ Goto(c, "destroyed") /\ UNCHANGED CO
     \/ Live(d) /\ Busy(d) /\ Reject(c) /\ UNCHANGED <<vdi, vbd>>
     \/ ~Live(d) /\ Succeed(c) /\ UNCHANGED <<vdi, vbd>>
  /\ UNCHANGED host

\* The answer of XO arrives.  When it is lost, or the process dies before, the CO
\* asks again and the lookup finds nothing (controllerserver.go:468-470).
AnswerDeleted(c) ==
  /\ At(c, "destroyed")
  /\ Succeed(c)
  /\ UNCHANGED store

-----------------------------------------------------------------------------
(* What can cut a call short. *)

\* A request fails or the deadline of the call passes; what XO was already
\* asked to do goes on.
Interrupted(c) ==
  /\ "api" \in Faults
  /\ call[c].pc \notin {"idle", "panic", "connecting", "disconnecting"}
  /\ Reject(c)
  /\ UNCHANGED store

\* Task().Wait fails for a VBD task: the handler logs task.Result, and the task
\* may be nil then (xoclient.go:113, 268; xoclient_test.go:184).
TaskWaitFails(c) ==
  /\ "api" \in Faults
  /\ call[c].pc \in {"connecting", "disconnecting"}
  /\ Reject(c) \/ (Goto(c, "panic") /\ UNCHANGED CO)
  /\ UNCHANGED store

\* The process dies, of a panic or otherwise, and all its calls with it.
Crash ==
  /\ "crash" \in Faults \/ \E c \in Calls : At(c, "panic")
  /\ \E c \in Calls : ~At(c, "idle")
  /\ call' = [c \in Calls |-> Idle]
  /\ UNCHANGED <<store, CO>>

Handle(c) ==
  \/ LookupByTag(c) \/ LookupByLabel(c) \/ LookupByUUID(c) \/ RecoverTags(c)
  \/ AdoptVDI(c) \/ GetVM(c) \/ FindLocalSRForHost(c)
  \/ StartMigration(c) \/ CopyTags(c) \/ RefetchVDI(c)
  \/ IsSRAttachedToHost(c) \/ CheckVbds(c)
  \/ ConnectVBD(c) \/ AwaitConnect(c) \/ GetConnectedVBD(c)
  \/ CreateVBD(c) \/ PollVBD(c)
  \/ FindVBD(c) \/ DisconnectVBD(c) \/ AwaitDisconnect(c)
  \/ CheckUnused(c) \/ DeleteVDI(c) \/ AnswerDeleted(c)

Next ==
  \/ \E c \in Calls, op \in Ops, v \in Volumes, m \in VMs \cup {None} : StartCall(c, op, v, m)
  \/ \E c \in Calls : Handle(c) \/ PollTimeout(c) \/ Interrupted(c) \/ TaskWaitFails(c)
  \/ \E d, n \in Vdis : FinishMigration(d, n)
  \/ \E d \in Vdis : FailMigration(d)
  \/ Crash
  \/ XONext /\ UNCHANGED <<call, CO>>

Spec == Init /\ [][Next]_vars

\* Goroutines run, XO finishes its tasks, a panic ends the process, and the CO
\* tries again what it was not told is done.
Retry(op, v, m) == \E c \in Calls : StartCall(c, op, v, m)

Fairness ==
  /\ \A c \in Calls : WF_vars(Handle(c))
  /\ \A d \in Vdis : WF_vars(\E n \in Vdis : FinishMigration(d, n))
  /\ \A d \in Vdis : WF_vars(FailMigration(d))
  /\ \A b \in Vbds : WF_vars((PlugDone(b) \/ PlugFails(b) \/ UnplugDone(b) \/ DeviceNamed(b))
                            /\ UNCHANGED <<call, CO>>)
  /\ WF_vars(Crash)
  /\ \A v \in Volumes, m \in VMs :
       /\ WF_vars(co[v][m] = "attaching" /\ Retry("publish", v, m))
       /\ WF_vars(co[v][m] = "detaching" /\ Retry("unpublish", v, m))

FairSpec == Spec /\ Fairness

-----------------------------------------------------------------------------
(* Properties. *)

Findable(v) ==
  \/ \E d \in Vdis : ByTag(v) = {d}
  \/ ByTag(v) = {} /\ \E d \in Vdis : ByLabel(v) = {d}
  \/ ByTag(v) = {} /\ ByLabel(v) = {} /\ ByUUID(v) # {}

\* A tag is on a disk that holds the data of the volume it names, whatever is
\* migrated, copied late or recovered from a stale record (xoclient.go:390, 401).
TagsTruthful == \A d \in Vdis : vdi[d].idTags \subseteq {vdi[d].owner}

\* A call that is past its lookup works on a disk with the data of its own volume,
\* and on a VBD of that disk and its own VM, however old its record is: no call
\* migrates, attaches, detaches or deletes the disk of another volume
\* (xoclient.go:305-308).
OwnDisk ==
  \A c \in Calls :
    /\ call[c].vdi # None => vdi[call[c].vdi].owner = call[c].vol
    /\ call[c].vbd # None => /\ vbd[call[c].vbd].vm = call[c].vm
                             /\ vdi[vbd[call[c].vbd].vdi].owner = call[c].vol

\* The CO wants the volume away and no disk has its data any more.
Destroyed(v) == v \in doomed /\ \A d \in Vdis : Live(d) => vdi[d].owner # v

\* A dynamic volume is found by exactly one disk, through its tags or its
\* name_label, at every moment of a migration, a crash or a retry, until a deletion
\* that the CO asked for has destroyed that disk, whether anybody learnt of it or
\* not; a disk that an acknowledged deletion left behind is findable still
\* (docs/references/vdi-lookup-and-identification.md:57-59).
DynamicFindable == \A v \in Volumes \ Static : Findable(v) \/ Destroyed(v)

\* VMs that a disk of the volume is plugged into, or is being plugged into.
Holders(v) ==
  {vbd[b].vm : b \in {x \in Vbds : /\ vbd[x].plug \in {"plugging", "on", "unplugging"}
                                  /\ vdi[vbd[x].vdi].owner = v}}

\* The disk of a volume is never in two VMs, although XO would let it be:
\* the driver supports SINGLE_NODE_WRITER only (controllerserver.go:176-191).
AttachedOnce == \A v \in Volumes : Cardinality(Holders(v)) <= 1

\* What the CO believes published is plugged into that VM under a device name.
PublishedIsAttached ==
  \A v \in Volumes, m \in VMs : co[v][m] = "in" =>
    \E b \in Vbds : /\ vbd[b].plug = "on" /\ vbd[b].named /\ vbd[b].vm = m
                   /\ Live(vbd[b].vdi) /\ vdi[vbd[b].vdi].owner = v

\* What the CO believes unpublished is not plugged into that VM, nor will a
\* task that is still running plug it.
UnpublishedIsDetached ==
  \A v \in Volumes, m \in VMs : co[v][m] = "out" => m \notin Holders(v)

\* No handler dereferences a device name that XO has not assigned yet
\* (xoclient.go:183-184, controllerserver.go:208-209).
NoPanic == \A c \in Calls : ~At(c, "panic")

\* The disk is migrated before anybody looks whether it is attached elsewhere;
\* still, a migration never starts under another VM that has the disk or is about
\* to get it (controllerserver.go:147-150, 171-191).
NotMovedUnderAnother ==
  [][\A d \in Vdis : vdi[d].to = None /\ vdi'[d].to # None =>
       Holders(vdi[d].owner) \subseteq
         {call[c].vm : c \in {e \in Calls : At(e, "migrate") /\ call[e].vdi = d}}]_vars

\* An acknowledged deletion has destroyed the disk (controllerserver.go:493-498).
DeletedIsGone ==
  \A v \in deleted, d \in Vdis : Live(d) => vdi[d].owner # v

\* Every volume that was not destroyed on request, static ones included, is
\* findable whenever no call is at work on it
\* (docs/references/vdi-lookup-and-identification.md:72-73).
VolumesFindable == \A v \in Volumes : Findable(v) \/ Destroyed(v) \/ InFlight(v)

\* A published disk that is never migrated carries the cluster tag
\* (controllerserver.go:119-121).
SharedIsAdopted ==
  \A b \in Vbds : LET v == vdi[vbd[b].vdi].owner IN
    ClusterTag /\ Attached(b) /\ v \notin Local /\ co[v][vbd[b].vm] = "in"
      => vdi[vbd[b].vdi].cluster

\* What the CO began to publish or unpublish gets published or unpublished, if
\* it tries again as long as it gets an error: no partial attachment, missing
\* device name or half-done migration is left behind that the next try cannot
\* cope with (docs/references/local-storage.md:91-93).  A panic ends the calls
\* of all volumes, so the process must panic finitely often.
Settles ==
  <>[]NoPanic => \A v \in Volumes, m \in VMs :
    co[v][m] \in {"attaching", "detaching"} ~> co[v][m] \in {"in", "out"}
=============================================================================
