---------------------------- MODULE XenOrchestra ----------------------------
(***************************************************************************)
(* The part of Xen Orchestra and XAPI that the CSI driver talks to: disks  *)
(* (VDI), their attachments (VBD), the host each VM runs on, and the tasks *)
(* XO runs on its own after a request was accepted.  None of this code is  *)
(* in the repository; every operator is what the driver relies on where it *)
(* calls the SDK (pkg/xenorchestra-csi/clients/xoclient.go and             *)
(* controllerserver.go).                                                   *)
(*                                                                         *)
(* XO is deliberately permissive: it lets a disk be plugged into two VMs   *)
(* and lets an attached disk be deleted.  XAPI refuses both; whatever is   *)
(* shown over this store rests on the driver and the order of the calls    *)
(* it gets, not on XAPI's checks.  A request that starts no task takes     *)
(* effect before the call that made it ends.                               *)
(***************************************************************************)
EXTENDS Naturals

CONSTANTS
  None,        \* an absent reference
  Volumes,     \* CSI volume handles; the value of a k8s:volumeId tag
  Vdis,        \* VDI UUIDs; XO never gives one out twice
  Vbds,        \* VBD UUIDs, likewise
  VMs,         \* node VMs
  Hosts,       \* XCP-ng hosts
  SRs,         \* storage repositories
  LocalHost,   \* [SRs -> Hosts, or None for an SR shared by its pool]
  PoolOf,      \* [SRs \cup Hosts -> pools]
  Faults       \* what the environment may do wrong in this instance

ASSUME NoneAssumption ==
  None \notin Volumes \cup Vdis \cup Vbds \cup VMs \cup Hosts \cup SRs

ASSUME SRAssumption == LocalHost \in [SRs -> Hosts \cup {None}]

VARIABLES
  vdi,         \* [Vdis -> VDI record]
  vbd,         \* [Vbds -> VBD record]
  host         \* [VMs -> Hosts]: VM.$container

store == <<vdi, vbd, host>>

-----------------------------------------------------------------------------
(* Records.  `owner` is a ghost: the volume whose data is on the disk.  The
   driver never reads it.  `idTags` holds the values of the disk's
   k8s:volumeId tags, `label` the handle embedded in its name_label,
   `cluster` whether it carries the cluster tag, `to` the target SR of a
   migration that XO is running.                                           *)
VDIRecord ==
  [state : {"unused", "live", "gone"}, sr : SRs \cup {None},
   idTags : SUBSET Volumes, label : Volumes \cup {None}, cluster : BOOLEAN,
   owner : Volumes \cup {None}, to : SRs \cup {None}]

(* `named`: XO reports a device name.  "plugging" and "unplugging" are the
   time between an accepted request and the end of its task.               *)
VBDRecord ==
  [plug : {"unused", "off", "plugging", "on", "unplugging", "gone"},
   vdi : Vdis \cup {None}, vm : VMs \cup {None}, named : BOOLEAN]

UnusedVDI == [state |-> "unused", sr |-> None, idTags |-> {}, label |-> None,
              cluster |-> FALSE, owner |-> None, to |-> None]
UnusedVBD == [plug |-> "unused", vdi |-> None, vm |-> None, named |-> FALSE]

StoreTypeOK ==
  /\ vdi \in [Vdis -> VDIRecord]
  /\ vbd \in [Vbds -> VBDRecord]
  /\ host \in [VMs -> Hosts]

-----------------------------------------------------------------------------
(* What a request reads. *)

Live(d) == vdi[d].state = "live"
Exists(b) == vbd[b].plug \notin {"unused", "gone"}
Attached(b) == vbd[b].plug \in {"on", "unplugging"}     \* VBD.attached

VbdsOf(d) == {b \in Vbds : Exists(b) /\ vbd[b].vdi = d}

\* The SR has a plugged PBD on the host.
Reaches(s, h) == PoolOf[s] = PoolOf[h] /\ LocalHost[s] \in {None, h}

Busy(d) == vdi[d].to # None \/ \E b \in VbdsOf(d) : vbd[b].plug = "plugging"

-----------------------------------------------------------------------------
(* What a request changes. *)

\* VDI().AddTag of k8s:volumeId tags; the requests for a missing disk fail.
AddIdTags(d, tags) ==
  vdi' = IF Live(d) THEN [vdi EXCEPT ![d].idTags = @ \cup tags] ELSE vdi

\* VBD().Create: the disk is added to the VM and XO starts plugging it.
CreateVBDOn(b, d, m) ==
  /\ vbd[b].plug = "unused"
  /\ vbd' = [vbd EXCEPT ![b] = [plug |-> "plugging", vdi |-> d, vm |-> m, named |-> FALSE]]

\* VDI().Delete destroys the disk and the VBDs that refer to it.
DestroyVDI(d) ==
  /\ vdi' = [vdi EXCEPT ![d].state = "gone"]
  /\ vbd' = [b \in Vbds |-> IF b \in VbdsOf(d) THEN [vbd[b] EXCEPT !.plug = "gone"]
                            ELSE vbd[b]]

-----------------------------------------------------------------------------
(* What XO does on its own: the ends of its tasks, and its administrator. *)

\* A migration ends: the disk has a new UUID n, its tags are not carried over
\* (xoclient.go:368), its VBDs follow it.
MigrationDone(d, n) ==
  /\ Live(d) /\ vdi[d].to # None /\ vdi[n].state = "unused"
  /\ \A b \in VbdsOf(d) : /\ vbd[b].plug # "plugging"
                          /\ Attached(b) => Reaches(vdi[d].to, host[vbd[b].vm])
  /\ vdi' = [vdi EXCEPT ![d] = [@ EXCEPT !.state = "gone", !.to = None],
                        ![n] = [UnusedVDI EXCEPT !.state = "live", !.sr = vdi[d].to,
                                  !.label = vdi[d].label, !.owner = vdi[d].owner]]
  /\ vbd' = [b \in Vbds |-> IF b \in VbdsOf(d) THEN [vbd[b] EXCEPT !.vdi = n] ELSE vbd[b]]
  /\ UNCHANGED host

\* It fails because of a fault, or because a VM that uses the disk could no
\* longer reach it.
MigrationFails(d) ==
  /\ Live(d) /\ vdi[d].to # None
  /\ \/ "migrate" \in Faults
     \/ \E b \in VbdsOf(d) : Attached(b) /\ ~Reaches(vdi[d].to, host[vbd[b].vm])
  /\ vdi' = [vdi EXCEPT ![d].to = None]
  /\ UNCHANGED <<vbd, host>>

\* A plug ends, sometimes before the device has a name (xoclient.go:183).
PlugDone(b) ==
  /\ vbd[b].plug = "plugging"
  /\ Reaches(vdi[vbd[b].vdi].sr, host[vbd[b].vm])
  /\ \E n \in IF "unnamed" \in Faults THEN BOOLEAN ELSE {TRUE} :
       vbd' = [vbd EXCEPT ![b] = [@ EXCEPT !.plug = "on", !.named = n]]
  /\ UNCHANGED <<vdi, host>>

PlugFails(b) ==
  /\ vbd[b].plug = "plugging"
  /\ "plug" \in Faults \/ ~Reaches(vdi[vbd[b].vdi].sr, host[vbd[b].vm])
  /\ vbd' = [vbd EXCEPT ![b].plug = "off"]
  /\ UNCHANGED <<vdi, host>>

DeviceNamed(b) ==
  /\ vbd[b].plug = "on" /\ ~vbd[b].named
  /\ vbd' = [vbd EXCEPT ![b].named = TRUE]
  /\ UNCHANGED <<vdi, host>>

UnplugDone(b) ==
  /\ vbd[b].plug = "unplugging"
  /\ vbd' = [vbd EXCEPT ![b] = [@ EXCEPT !.plug = "off", !.named = FALSE]]
  /\ UNCHANGED <<vdi, host>>

\* The guest still holds the device: the task ends with status failure.
UnplugFails(b) ==
  /\ vbd[b].plug = "unplugging" /\ "unplug" \in Faults
  /\ vbd' = [vbd EXCEPT ![b].plug = "on"]
  /\ UNCHANGED <<vdi, host>>

\* A VM is live-migrated to a host of its pool that reaches its disks.
LiveMigrateVM(m, h) ==
  /\ "livemigrate" \in Faults
  /\ h # host[m] /\ PoolOf[h] = PoolOf[host[m]]
  /\ \A b \in Vbds : vbd[b].vm = m /\ Attached(b) => Reaches(vdi[vbd[b].vdi].sr, h)
  /\ host' = [host EXCEPT ![m] = h]
  /\ UNCHANGED <<vdi, vbd>>

\* An administrator removes the tags of a disk in the XO interface.
EraseTags(d) ==
  /\ "erase" \in Faults /\ Live(d)
  /\ vdi' = [vdi EXCEPT ![d] = [@ EXCEPT !.idTags = {}, !.cluster = FALSE]]
  /\ UNCHANGED <<vbd, host>>

XONext ==
  \/ \E b \in Vbds : \/ PlugDone(b) \/ PlugFails(b) \/ DeviceNamed(b)
                     \/ UnplugDone(b) \/ UnplugFails(b)
  \/ \E m \in VMs, h \in Hosts : LiveMigrateVM(m, h)
  \/ \E d \in Vdis : EraseTags(d)
=============================================================================
