# A verification of the Xen Orchestra CSI driver

TLA+ models of the driver in `src/`, the TLC runs that check them on small
instances, and TLAPS proofs of what holds for every instance.
`PROJECT.json` lists the runs, ties every definition to the lines it models, and
lists the hazards and findings; this file explains them. Paths below are relative
to `src/pkg/xenorchestra-csi/` unless they start with `docs/`.

    tlc -workers 2 -config attach_ordered.cfg MCAttachment     # a run
    tlapm AttachmentProofs.tla                                 # the proofs of a module

## 1. The system

The driver is one Go program that serves the three CSI services over a unix
socket. It keeps **no state of its own and holds no lock**: whatever it knows
about a volume it asks Xen Orchestra (XO) for, request by request, and what
it decides rests on answers that may be out of date when it acts. gRPC runs each
call in a goroutine; XO runs tasks that outlive the call that started them. That
is where the difficulty is.

| Component | State | Operations | Interacts with |
| --- | --- | --- | --- |
| Controller service (`controllerserver.go`) | locals of each call in flight | CreateVolume, DeleteVolume, ControllerPublish/UnpublishVolume, ValidateVolumeCapabilities | called by the CO; calls the XO client and the topology selection |
| XO client (`clients/xoclient.go`, `helpers.go`, `errors.go`) | none | lookup of a disk by tag, `name_label`, UUID; tag recovery; migration; connect, create, poll and disconnect of a VBD; creation of a disk | REST requests and tasks of XO |
| Topology selection (`topology/pool_selector.go`) | none | order the candidate pools, choose the first usable one | XO pools and SRs |
| Node service and mounter (`nodeserver.go`, `clients/mounter.go`) | the node's mount table and device files | NodeStage/Unstage/Publish/UnpublishVolume, NodeGetInfo | kubelet, `/proc/mounts`, XO for one check |
| Node metadata (`clients/node_metadata.go`) | none | pool and VM of this node | Kubernetes API or XO |
| Plugin process (`main.go`, `xenorchestra-csi.go`, `config.go`, `server.go`) | the socket file, which outlives it | load the configuration, remove the old socket, listen, serve, end | kubelet, container runtime |
| Identity service, options | constants | | |
| *External:* XO and XAPI | disks (VDI), attachments (VBD), hosts, SRs, tasks | accept a request, run its task, fail it | |
| *External:* the container orchestrator (CO): external-attacher, external-provisioner, kubelet | VolumeAttachment and PV objects | order and repeat the CSI calls | |

A disk has several identities. Its **UUID changes when it is migrated**; the
volume handle of a dynamic volume is a random ID that the driver stores in a tag
`k8s:volumeId:<id>` and in the `name_label`; that of a static volume is the UUID
the disk once had. A migration does not carry tags over, so the driver copies
them afterwards, and it recovers tags that are missing whenever it finds a disk
by another route.

### What is hard, and what makes each part correct

* **Lookup, tags, migration.** A crash, an error or another call between the end
  of a migration and the copy of the tags; a tag copied or recovered from a
  record that is no longer true; a handle that could match another volume's
  disk. Correct: a tag names only the owner of the data (`TagsTruthful`), a call
  only ever works on its own volume's disk (`OwnDisk`), a dynamic volume is
  always found by exactly one disk (`DynamicFindable`; `VolumesFindable` says it
  of static volumes too), a disk is not moved while another VM has it, although it
  is migrated before anybody looks (`NotMovedUnderAnother`).
* **Publish and unpublish.** Attachments left half-done by a failed or cut-short
  call (unplugged, being plugged, without a device name), tasks that end after
  the call, VMs that move to another host. Correct: one VM at a time
  (`AttachedOnce`), the CO's view is true in both directions
  (`PublishedIsAttached`, `UnpublishedIsDetached`), no panic (`NoPanic`), and
  retries succeed in the end (`Settles`).
* **Delete.** A migration or another call between lookup and request; a deletion
  that XO has carried out and nobody was told of. Correct: an acknowledged deletion
  leaves no disk (`DeletedIsGone`), and before the acknowledgement the volume is
  found as long as its disk is there (`DynamicFindable`, `VolumesFindable`).
* **Create.** The pool, its default SR, its local SRs and the existing disk are
  read by separate requests; the provisioner retries after a deadline or a crash of
  the driver, with another topology perhaps, while XO still works on the last
  attempt. Correct: `OneDiskPerName`,
  `PlacedAsAsked`, `PreferredFirst`, `AnswersTruthful`, `TopologyTruthful`.
* **Node service.** Calls repeated after a lost answer or a crash, over a mount
  table that is read in one step and changed in a later one, with device names
  that pass from one disk to the next. Correct: no disk is unplugged while
  mounted (`MountedIsPlugged`), a pod sees its own volume (`PodsSeeTheirVolume`),
  what was acknowledged as gone is mounted nowhere (`NothingLeft`), what is to be
  released is released in the end and acknowledged (`Released`), a staged
  volume is not staged again (`StagedIsSeen`). The handlers do not look at `ctx`,
  so a call that the kubelet has given up on goes on beside its repetition.
* **Plugin process.** It may be killed at any step, with a socket file left on the
  node, and an error at its start is swallowed. Correct: it serves and is
  registered again (`Recovers`).

`PROJECT.json` lists the hazards one by one at the line where each bites.

## 2. The modules

| Module | Models | State |
| --- | --- | --- |
| `XenOrchestra` | XO as the driver uses it: an operator per request, an action per task end, the faults of the environment. All external. | `vdi`, `vbd`, `host` |
| `Attachment` (EXTENDS it) | ControllerPublishVolume, ControllerUnpublishVolume, DeleteVolume, ValidateVolumeCapabilities and the XO client under them | `call` (one record per goroutine: position in the handler and its locals), `co` (the CO's VolumeAttachment), `doomed` and `deleted` (volumes whose deletion was asked for, and acknowledged) |
| `Provisioning` | CreateVolume and the topology selection | `disk`, `maint`, `call`, `pv` (what the CO was told) |
| `NodeServer` | the node service and the mounter on one node | `device` (the name each disk is plugged in under), `mounts` (/proc/mounts: a stack per path), `call` (with `caller`: does the kubelet still wait?), `staged` and `pub` (what the kubelet knows), `overtaken` (history) |
| `NodePlugin` (EXTENDS it) | the plugin as a process, its registration, the restart of the kubelet and of the node | `process`, `socket`, `providerID`, `registered` |
| `Volume` | the abstract promise of the controller: who holds a volume, what the CO was told | `held`, `told`, `gone` |
| `AttachmentRefinement` | the mapping from `Attachment` to `Volume` | |
| `AttachmentProofs`, `DiskProofs`, `OrderedProofs` | theorems about `Attachment`, each extends the one before: whose data, which disk, which VM | |
| `VolumeProofs`, `RefinementProofs` | theorems about `Volume`, and that `Attachment` implements it | |
| `ProvisioningProofs`, `NodeProofs` | theorems about `Provisioning`; about `NodeServer` and `NodePlugin` | |
| `MCAttachment`, `MCProvisioning`, `MCNodeServer`, `MCNodePlugin` | constant values for TLC | |

**Granularity.** An action is one request to XO with the local code up to the
next request; between two actions of a call anything else may happen. The
position of a call is named after the request it makes next:

| Position | Code |
| --- | --- |
| `byTag`, `byLabel`, `byUUID`, `recover` | `GetVDIByVolumeId`, `recoverVolumeLookupTags` |
| `adopt`, `getVM`, `findSR` | `ControllerPublishVolume` 119-147 |
| `migrate`, `migrating`, `copyTags`, `refetch` | `MigrateVDIAndWait` and the `VDI().Get` after it |
| `checkSR`, `checkVbds` | `IsSRAttachedToHost`, `IsVDIUsedAnywhere` and the decision over its result |
| `connect`, `connecting`, `getVbd` | `ConnectVBDToVM` |
| `create`, `poll` | `AttachVDIToVM`, `WaitForVDIToBeFullyAttached` |
| `findVbd`, `disconnect`, `disconnecting` | `DisconnectVBDFromVM` |
| `checkUnused`, `destroy` | `DeleteVolume` |
| `destroyed` | `DeleteVolume` from XO's deletion of the disk to the answer: an error or a crash may come here |
| `panic` | a nil dereference; the only next step is the end of the process |
| `isStaged`, `checkSR`, `stat`, `format` | `NodeStageVolume` |
| `refs`, `unmount` | `NodeUnstageVolume`; `unmount` also of `NodeUnpublishVolume` |
| `isMounted`, `bind` | `NodePublishVolume` |
| `answer` | the last system call is done, the answer on its way: it may be lost |

`process` of `NodePlugin` is `down` before `os.Remove` of the socket, `listen` between
it and `net.Listen`, and `serving` after that.

The fields `vdi`, `sr`, `tags`, `adopted`, `host`, `to`, `vbd` of a call are the
variables of its handler. They keep the values read, so staleness is part of
the model. `owner` (of a disk), `for` (of a disk) and `down` (of a call) are
ghosts, and `doomed` and `deleted` histories: the code never reads them, and no
guard of a handler does. `down` is kept by the steps that make a pool unusable and by
the requests that XO does not answer; that the search passes a pool over adds nothing
to it, so `PreferredFirst` compares the search with an observer of its own.

**Faults.** Each instance names what its environment may do wrong: `api` (a
request or its answer is lost, a deadline passes, a tag is not written), `crash`,
`migrate`, `plug`, `unplug` (a task fails), `locked` (XO accepts to disconnect a VBD
that is being plugged, and only the task fails), `unnamed` (a plugged device without a
name for a while), `erase` (an administrator removes tags), `livemigrate` (a VM moves),
`maintenance` (an SR), `abandon` (a call of CreateVolume ends, by its deadline or with
the process, while XO still makes its disk). In `NodeServer`: `error` (a step fails, a
device file is late, an answer is lost), `crash`, `timeout` (the kubelet gives up on a
call that goes on), `restart` (of the kubelet) and `reboot` (of the node).

**What was abstracted.** UUIDs, tags and names are model values; a `name_label`
is the handle embedded in it; the recovery of the `pv-name` tag (string parsing)
is left out; malformed requests are refused before their first request and have
no step. A VBD loses its device name when it is unplugged. XO is *more*
permissive than XAPI: it lets a disk be plugged into two VMs and an attached
disk be deleted, so what is shown is not due to XO's checks but to the driver, for
`AttachedOnce`, `NotMovedUnderAnother` and the CO's view to the driver *and* the order
in which the CO calls it. A request that XO carries out at once (a tag, the record of a
VBD) is one step with its answer, and with `api` one that has an error for an
answer; the deletion of a disk is a step of its own before the answer. `GetConnectedVBD`
treats a missing device of a VBD that is not plugged as nil, as the payload type has it.

One thing is taken from XAPI that the driver relies on: a VBD is locked while it is
plugged, and a request to disconnect it by then is refused. The code does not look
at the status of the disconnect's task (`xoclient.go:261-271`), so were the request
accepted and the task to fail, the unpublish would be acknowledged and the plug end
after it. The fault `locked` is this case; `attach_concurrent` has it, the instances of
an orderly CO and the theorems about one leave it out, as they do `unplug`, and finding 3
says what happens with it.

In `Provisioning` the candidate pools of a topology are stated as the sequence of its pools in
the order of their first occurrence; that this is what the loop of `pool_selector.go`
builds was checked with TLC for lists of up to five segments. Disks keep their tags (an existing disk without a volume ID
tag, `controllerserver.go:420`, does not occur), and the default SR of a pool
does not change.

**The CO.** With `Ordered` it behaves as external-attacher and
external-provisioner do: one call in flight per volume, a publish only when the
volume is unpublished everywhere else, an unpublish repeated until it is
acknowledged, no call for a deleted volume. Without `Ordered` calls come in any order, for any
volume, at the same time.

**The kubelet** of `NodeServer` waits for one call for a volume at a time, except that
pods may be unpublished together (its operation executor serialises the rest);
it repeats a call until it is told that it succeeded, stages before it
publishes, unstages when every target is unpublished, and reports the volume as
not in use once it is unstaged, after which the disk may be detached and its name
given to another (a forced detachment, after the node has been silent for minutes,
is not modelled: it unplugs a mounted disk whatever the driver does). It may give up on a call, and after a restart it has forgotten all of them, while
the handlers go on: `ctx` is passed to the requests to XO (`checkSR` fails then) and to
nothing else. The answer of such a call reaches nobody.

A late call whose operation the kubelet has only repeated is `left`; one whose
path the kubelet has meanwhile used for the opposite operation is `turned`. When a
`turned` call changes the mount table the state is no longer what anybody asked for, and
nothing in the driver can notice; `overtaken` records it. The safety properties are
claimed until then. That is a real limit of the code, not of the model: without
`~overtaken` each of the three is violated: a late bind mount follows the acknowledged unpublish, a
late format mounts the disk that has taken over the device name. The result is
that overlapping repetitions are harmless, even when both mount, and that only
an overtaking call does harm.

**The process.** The container runtime starts it again whenever it ends, with which
status does not matter: `Start` swallows the error of `serve` (`server.go`), so
`main` ends with 0. `net.Listen` fails when the file is there; a listener that is closed
removes its file, a killed process leaves it. `Stop` and `GracefulStop` are not
called by anything.

**The mount table.** A path shows the last mount on it; `GetDeviceNameFromMount` takes
the first, and counts the mounts of its device on all paths, as `mount-utils` does. The
kernel refuses to mount a file system over itself; a bind mount of the staging path has the
device of what is mounted there, or none. `vol` of a mount is a ghost. Formatting
and file systems are left out: the format is a part of the step that mounts.

**The promise.** `Volume` says what all this machinery is for: the CO asks for a
volume to be published or unpublished, the driver takes it for a VM or lets it
go, and answers. `AttachmentRefinement` maps the VMs a volume's disk is plugged
or being plugged into to `held`, and `co` to `told`; `KeepsPromise` says that
every step of `Attachment` is a step of `Volume` or leaves it alone. It relates each
answer to the moment it is given and each attachment to the call that asked for
it, which the state invariants cannot.

## 3. The runs

| Run | Question | Instance | Result |
| --- | --- | --- | --- |
| `attach_ordered` | Does the CO's view stay true, is a volume in one VM only and always findable, is every step one that `Volume` allows, is no disk moved under another VM? | one dynamic local volume, two VMs on two hosts, three disks (two migrations), 2 VBDs, one call, all faults but `unplug` and `locked` | holds; about 1 290 000 states |
| `attach_concurrent` | Can a call ever touch another volume's disk, or a migration or a deletion lose a volume that is still wanted? | a dynamic local and a static shared volume, three disks, two concurrent calls, two VMs in two pools, `api`, `unplug` and `locked` faults, disorderly CO, no cluster tag | holds; about 2 040 000 states |
| `attach_live` | Do retries end, and are shared disks adopted? | both kinds of volume, one VM, two calls, `unnamed` faults, fairness | holds; about 49 000 states |
| `provisioning` | One disk per name, rightly placed, truthfully answered? | two names, six requests (three topologies, two capacities, local, `poolId` that fits and that does not), two calls, three pools, `api` and `maintenance` | holds; about 600 000 states |
| `static_tag_lost` | Is a static volume always findable? | no fault at all | **violated** |
| `nil_device` | Can a handler panic on a missing device name? | `unnamed` | **violated** |
| `unplug_ignored` | Is an unpublished volume detached? | `unplug` | **violated** |
| `delete_leak` | Is a deleted volume's disk gone? | `api` | **violated** |
| `create_duplicate` | Is the idempotency check enough when a call ends before XO has made its disk? | `api`, `abandon` | **violated** |
| `create_wrong_pool` | Is the reported topology where the disk is? | `api`, `maintenance` | **violated** |
| `node` | Is no disk unplugged while mounted, does every pod see its own volume, is nothing left behind, is what must go released, does the plugin serve again? | two volumes that take turns under one device name, two pods of the first, two calls, all five faults, fairness | holds; about 125 000 states |
| `node_stage` | Is a staged volume seen as staged? | two volumes, three pods, two device names, two calls, `error` and `crash` | **violated** |

**Bounds and why they are enough.** There is no counter: the bounds are the sets.
`Vdis` bounds the disks over the whole run, so the number of migrations or of
creations; a local volume starts on the
local SR of another host, where CreateVolume may have put it, so the three disks of
`attach_ordered` allow a
migration and one back after the pod moved: every situation in which a second
migration starts from the result of the first. In `attach_concurrent` one migration is
possible, from the SR of a host without a VM to that of `m1`, which the two calls see
before, during and after; `m2` is in another pool, where the driver refuses the disk. `Vbds` bounds attachments; two allow one left on the old VM
next to one on the new. When they are used up the model can do less but the
properties must still hold. Two calls suffice for a race over one disk: the
driver compares no third party. Two volumes suffice to confuse one with another.
In `Provisioning` two disks allow the duplicate that `OneDiskPerName` forbids, and a third
pool without a default SR makes the search pass over a candidate. In
`node` two volumes are attached and detached again and again under
one name, so that it passes from one to the other, also under the hands of a
late call; two targets of a
volume keep a mount of it while the other goes; two calls are enough for two
unpublishes of one volume, for a call and its repetition, or for work on two
volumes at once. The safety properties were checked as well with two
names and a pod of the second volume (1.2 million states). *Named bounds:* the kubelet asks for nothing
more once a call has been `overtaken`, until the node is rebooted; `Watched` says for which
paths `Released` is checked, a staging path and a target: each costs a strong fairness
condition, and the two targets are alike.

**Symmetry.** Spare disks, VBDs and calls are interchangeable, and so are device names
and the targets of one volume; the runs with liveness properties use none.

**Deadlock.** TLC checks it in every passing run but `attach_ordered`, where the
only volume may be deleted and nothing remains to be done; the same holds for the
four runs over one volume that end in a violation. `create_duplicate` ends with both disks
used up.

**Fairness.** In `attach_live`: a goroutine that can make its next step does
(Go's scheduler); an accepted task of XO ends (XO's task queue; the driver
relies on it, `xoclient.go:111`, `266`, `376`); a process that panics ends, and
with it its calls; the CO repeats what was not acknowledged (external-attacher
retries with back-off). Nothing is assumed of deadlines, of errors or of
the CO starting anything new. `Settles` is conditional on `<>[]NoPanic`: with
the flaw shown by `nil_device` the calls can be killed again and again.

In `node`: a handler that can make its next step does (Go's scheduler); the container
runtime starts the plugin again, and the process gets on with its start; the
CCM writes the ProviderID at some time; the kubelet tries the registration again (all weak).
The kubelet repeats an unpublish or unstage that was not acknowledged; this is strong
fairness, because the plugin goes down, and other calls for the volume come in between,
over and over. `FaultsEnd` says that faults come at any time and in
any number but not for ever: a disk that is busy for ever is never unmounted, and a
plugin that is killed for ever never serves. It is stated once for all faults because
TLC cannot take a strong fairness condition for each.

Every property of a passing run has a mutant: a plausible bug put into the
code's model (marked `mutation` in the modules) that makes the property fail.

## 4. What the runs found

1. **A static volume on local storage is lost by its first migration**
   (`static_tag_lost`). The lookup by UUID recovers the tag in XO but not in the
   record the call goes on with; `MigrateVDIAndWait` copies the tags of that
   record (`xoclient.go:369`, `390`); the new disk has neither tag, name nor
   UUID. `docs/references/vdi-lookup-and-identification.md:72` promises
   otherwise. No fault is needed: publish once on a host other than the disk's.
2. **A reconnected VBD may have no device name, and the handler panics**
   (`nil_device`; `controllerserver.go:198-205`, `587`). The other two paths wait for the
   name. The panic kills the calls of all volumes.
3. **The status of the unplug task is ignored** (`unplug_ignored`;
   `xoclient.go:266`): a failed unplug is reported as detached. With `locked` in the
   place of `unplug` the same instance shows a second way: an unpublish is acknowledged
   while the plug of an earlier publish goes on.
4. **A deletion can leave the disk behind** (`delete_leak`;
   `controllerserver.go:493-498`): "not found" is taken for "deleted by a
   concurrent call" when it means "migrated in the meantime".
5. **A retried creation can make a second disk** (`create_duplicate`;
   `controllerserver.go:406`, `434`): when the driver is killed, or the deadline passes,
   while XO makes the first, after which every further CreateVolume for that name fails as ambiguous.
6. **A retried creation can report the wrong pool** (`create_wrong_pool`;
   `controllerserver.go:424-431`), so the pod is scheduled where the disk is not.
7. **A staged volume is never seen as staged** (`node_stage`; `nodeserver.go:234`):
   the device read from the mount table is a path, `/dev/xvdb`, and the device it is
   compared with a name, `xvdb`. A repeated NodeStageVolume goes on to format and
   mount; the kernel refuses, so the call fails at every retry until the volume is
   unstaged. `MountedIsPlugged` and the others hold all the same.

*A host with a second local SR loses a plugged disk.* A publish looks for a local SR of
the VM's host and takes the first in the answer of XO, in no stated order
(`xoclient.go:343-353`); if that is not the one the disk is on, it migrates the disk, before it
looks who has it. When a lost answer makes the CO publish again, the disk that the first
attempt has plugged moves to the other SR and gets another UUID; an unpublish that has
looked it up finds no VBD for the old one and answers that it is detached
(`controllerserver.go:265-272`). `docs/references/local-storage.md:92` calls a publish safe
to retry because a disk on the local SR of the host is not moved, as if there were one;
lines 117-119 ask for "at least one". The instances of the listed runs have one for each
host, and so have the theorems of `OrderedProofs` (`OneLocalSR`, by name). This was
found outside the listed runs: on the instance of `unplug_ignored`, with
`Faults = {"api"}` and two SRs of `h1`, TLC finds `UnpublishedIsDetached` violated.

Seen while modelling, without a run: `docs/topology.md:207` says a request with
neither `poolId` nor topology is refused with `InvalidArgument`, the code falls
back to tagged pools (`controllerserver.go:367-381`), although its own comment
says "If neither poolId nor accessibility_requirements are present, error" (line 326);
`PlacedAsAsked` says nothing of such a request, neither that it is refused nor that the
fallback is right; `storageType: local` still
requires a usable default SR (`controllerserver.go:382`). `driveroptions.go:51-54` says that the
cluster tag is used to filter disks; no lookup filters by it. A call that overtakes
what the kubelet wants can leave a mount, or mount another volume's disk, see section 2: no
document speaks of it.

## 5. The proofs

Every safety invariant and action property of the passing runs is a theorem: it holds for any sets
of volumes, disks, VBDs, VMs, hosts, SRs, pools, pods, devices and calls, any set of faults and
any length of run, where a run of TLC shows it for one instance. Each inductive invariant was checked with
TLC, on the instances of the runs and on some with two volumes or a disorderly CO, before it was
proved.

| Module | Theorems | Assumed of the instance |
| --- | --- | --- |
| `AttachmentProofs` | `Invariance`, `TypeCorrect`, `TagsStayTruthful`, `CallsUseTheirOwnDisk` | nothing more |
| `DiskProofs` | `DiskInvariance`, `DynamicVolumesAreFindable` | nothing more |
| | `OtherVolumesAreFindable` | no static volume is on local storage |
| | `SharedDisksAreAdopted` | nobody takes the cluster tag off |
| `OrderedProofs` | `OrderedInvariance`, `DisksAreAttachedOnce`, `PublishedDisksAreAttached`, `UnpublishedDisksAreDetached`, `NothingMovesUnderAnother` | `Orderly` |
| `VolumeProofs` | `OneHolder` | nothing more |
| `RefinementProofs` | `PromiseIsKept`, `OneHolderAtATime` | `Orderly` |
| `ProvisioningProofs` | `Invariance`, `TypeCorrect`, `DisksArePlacedAsAsked`, `PreferredPoolsComeFirst` | nothing more |
| | `PatientInvariance`, `OneDisk`, `AnswersAreTrue` | no call abandons a disk that XO is making |
| `NodeProofs` | `NodeInvariance`, `PluginInvariance`, `NodeTypeCorrect`, `PluginTypeCorrect`, `MountsArePlugged`, `PublishedShowsItsVolume`, `ReleasedIsGone` | nothing more |

"Nothing more" than the named assumptions of the modules, which say what the constants are
(`None` is not a member of the other sets, distinct volumes start on distinct
disks, the pools that carry the tag are finitely many, a target belongs to a volume); TLC evaluates them
on every run. What else is assumed is needed. Three assumptions have a run that shows
what happens without them; the others were tried on instances outside the listed runs:

| Assumption | Without it | Shown by |
| --- | --- | --- |
| `Static \cap Local = {}` | a static volume is lost | `static_tag_lost` |
| `"unplug" \notin Faults` (in `Orderly`) | an unpublished disk stays plugged | `unplug_ignored` |
| `"abandon" \notin Faults` | a name has two disks | `create_duplicate` |
| `"locked" \notin Faults` (in `Orderly`) | an unpublished disk is plugged later | TLC, outside the listed runs |
| `OneLocalSR` (in `Orderly`): each host has at most one local SR | the second local SR of section 4 | TLC, outside the listed runs |
| `Ordered` (in `Orderly`) | two publishes put a disk into two VMs; the check for other VMs and the creation of the VBD are separate requests | TLC, outside the listed runs |
| `"erase" \notin Faults` (for the cluster tag) | the administrator removes the tag after the publish | the meaning of the fault |

`Orderly` is the conjunction of `Static \cap Local = {}` and the four marked so.

### Whose disk (`AttachmentProofs`)

`TagsTruthful` is not inductive: a tag may be written from a record a
call made long ago. `OwnDisk` is not inductive either: it rests on tags and
labels being right when the call looked the disk up. So `IInv` has a part for the
store (`Coherent`: tags and labels name the owner, no VBD refers to a disk that
was never made, the home disk of a volume stays its own) and a part for each call (`Good`: the tags
it remembers, the disk and the VBD it holds belong to its volume and VM, and it
holds what its position needs). The hinge is `Extends`: no step of XO or
of a handler ever changes whose data a disk holds, or the VM or the owner behind
a VBD, so what is right in a stale record stays right (`GoodExtends`). There is a
lemma per shape of step (reject, succeed, go on, keep a disk, write the store), then one per
group of actions, then `NextIInv`.

### One disk, that is found (`DiskProofs`)

`DiskInv` adds to `IInv` that a volume has one live disk until its deletion is asked for, and at most
one after that (`OneLive`, `Kept`), which
has its `name_label` (`Labelled`) and an SR (`OnSR`); that the disk of a volume that is not local is
never another (`HomeStays`), and a disk only moves to another local SR (`MovesLocal`); that a VBD
is one of a live disk that its VM reaches (`VbdsPlaced`); and, of each call, that the SR it
remembers is the one its disk is on, and that what it is about to migrate may be migrated
(`Located`). The record of a call may be old, but not in this: a migration makes a new disk
and leaves the SR of the old one alone, and what was asked to be deleted stays so (`Lasting`). `FoundByOne` then shows that the first lookup that can
find a disk finds the live one and no other, whether its tags were lost by a migration, erased or
never written. Between the deletion of the disk by XO and its acknowledgement, which a lost answer or a crash
puts off to a later call, nothing is to be found: the properties say so by `Destroyed`, and
`DestroyedIsUnplugged` in `OrderedProofs` that no VM has the disk by then. The adoption
of shared disks (`AdoptInv`) needs its own memory: the decision to set the tag is taken from a record that
was read before, so a call that goes on without setting it must have seen it on the disk
that is still the volume's.

### The CO's view (`OrderedProofs`)

`OrdInv` has a part for each volume (`VolumeOK`) and two for each call. Of a volume: the CO has
business with one VM at a time (`Sole`); where a disk is plugged the CO wants it, or wants it no more but
was not told that it is gone (`Wanted`); there is one VBD for it in each VM, however often a publish is
tried again (`OneVbd`); what was published is plugged and has a name (`Given`). Of a call: what the CO
has noted of its volume and VM is what the call was asked for (`Asked`); and what it has seen
of the VBDs stays so (`Sees`): one that is about to create a VBD saw that there is none, one that
waits for its unplug knows that nobody plugs again, and an unpublish whose disk has got another
UUID in the meantime has one that could only do so unplugged, which is where `PluggedIsNotMoved`, and with it `OneLocalSR`, is
needed. Without `Sees` a publish at `create` could make a second VBD, and an
unpublish that finds no VBD could be wrong.

A step concerns one volume. `Drift` says what it may do to a VBD of any other: end a task that was
accepted, no more. `DriftVolume` and its companion for calls show once that a volume that drifts keeps its part
of the invariant, so each action is proved for its own volume only. `OneCallPerVolume` says that no two calls work on one.

### The promise (`RefinementProofs`)

`PromiseIsKept` is the refinement that `attach_ordered` checks, for every orderly instance: each step of `Attachment`
is a step of `Volume` or leaves the volumes alone. Few steps change who holds a volume (`TakeStep`, `LetGoStep`: a VBD is
connected or created, or is let go of or its task fails); all others leave every plug as it was. An answer
changes no VBD, so the invariant *after* the step, whose `Given` or `Wanted` speaks of what the CO has now been told,
shows that the answer is true of the state it is given in. `VolumeProofs` proves of the abstract specification
that a volume is held by the one VM it is published to and by none it is unpublished from (`Exclusive`;
the strengthening is again `Sole`), and `OneHolderAtATime` carries this over.

### Provisioning (`ProvisioningProofs`)

`Good` says what the locals of a call of CreateVolume are: the candidates left are named by
the request, if it names any, and in its order; those that are gone were not usable at some time
(`Ranked`); the SR chosen is in the pool chosen. It does not mention XO, so no step of anyone else
can spoil it. What is unusable in XO and what the ghost `down` of a call holds are related by
`Noticed`: a call that is choosing has missed no pool that is not usable now, so a pool that its
answer shows to be unusable is one that `down` has. `PlacedAsAsked` and `PreferredFirst` follow for
lists of any length, with duplicates. `OneDiskPerName` needs to know why there is no disk when
one is asked for: `Waits` says that the calls are about different names that have not been answered,
that every disk XO is making has a call that waits for it, and that a call about to ask has seen none
(`NoneYet`). An idempotency check that only sees finished disks is enough when no call ends while
its disk is being made.

### The node (`NodeProofs`)

Until a call is `overtaken`, each path has mounts of its own disk alone, which is plugged, and a volume is staged once (`Owned`,
`Once`); what the kubelet believes is so (`Believed`); and each call that was not `turned` works towards what the kubelet wants
(`Current`), whether the kubelet still waits for it or not. So two calls for a path never work against each other, which is why a late
repetition does no harm. `NodeInv` is inductive for `NodeServer`, and for `NodePlugin` with the end of the process, the restart of the
kubelet and of the node.

### What is only model-checked

Liveness (`Settles`, `Released`, `Recovers`) under the fairness of section 3, which is beyond the prover, as is ENABLED. The equality of `Uniq` with the
loop it stands for is an induction over data; it was compared by TLC on bounded lists.
`NoPanic`, `DeletedIsGone`, `TopologyTruthful` and `StagedIsSeen` do not hold (section 4). No module has a RECURSIVE
operator.

## 6. Not modelled

* `Stop` and `GracefulStop` of the gRPC server: `Run` keeps the server in a local variable and
  nothing calls them, so the unsynchronised `s.server` and the package-wide
  `stopOnce` have no second user.
* The identity service and the options: constant answers, parsing of flags. `Probe` is always
  ready, also with an XO token that is no longer valid; the configuration is read
  once and constant here.
* The values of the node metadata: of `node_metadata.go` only whether there is
  an answer is modelled. A VM that moves to another pool keeps the topology it was
  registered with.
* Recovery of the `pv-name` tag and other string parsing; formatting of a file system.
* Snapshots, listing, expansion and statistics are not implemented by the driver.
  Manifests, examples and test doubles hold no logic of the program.

## 7. Plan

1. *(done)* `XenOrchestra`, `Attachment` with ordered, concurrent and live
   instances, `AttachmentProofs`; `Volume`, its refinement by `Attachment` and
   `VolumeProofs`; `Provisioning`; `NodeServer`.
2. *(done)* A kubelet that gives up while the handler goes on, and the plugin as a
   process: `NodePlugin`, with its liveness.
3. *(done)* `NodeProofs` and `ProvisioningProofs`: every safety property of their runs.
4. *(done)* `DiskProofs`, `OrderedProofs` and `RefinementProofs`: the safety and action properties of
   `Attachment`, and the refinement of `Volume`.
5. A disorderly CO: what still holds, and what does not, of deletion against
   attachment and of migration of a disk in use; composition of `Provisioning` with
   `Attachment` (a volume from its creation to its deletion). That the writers of a
   volume are on one node follows already from `MountedIsPlugged` and `OneHolder`.
