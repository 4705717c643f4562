-------------------------- MODULE AttachmentProofs --------------------------
(***************************************************************************)
(* Type correctness of Attachment and the two facts that every use of a    *)
(* disk rests on, TagsTruthful and OwnDisk, for any number of volumes,     *)
(* disks, VMs, hosts and concurrent calls and for every set of faults.     *)
(*                                                                         *)
(* Neither is inductive: what a call holds is right because what it read   *)
(* was right when it read it, and stays right because XO never changes     *)
(* whose data a disk holds nor which VM a VBD belongs to.  Coherent says   *)
(* what is right in the store, Good what is right in a call, and Extends   *)
(* what no step of the system undoes.  They take the store as arguments so *)
(* that a lemma can speak of the store before and after a step.            *)
(***************************************************************************)
EXTENDS Attachment, TLAPS

NeedsVdi == PC \ {"idle", "byTag", "byLabel", "byUUID", "panic"}
NeedsVbd == {"connect", "connecting", "getVbd", "poll", "disconnect", "disconnecting"}
NeedsVM == {"adopt", "getVM"}

Coherent(D, B) ==
  /\ D \in [Vdis -> VDIRecord] /\ B \in [Vbds -> VBDRecord]
  /\ \A d \in Vdis : D[d].idTags \subseteq {D[d].owner} /\ D[d].label \in {None, D[d].owner}
  /\ \A v \in Volumes : D[HomeVdi[v]].state # "unused" /\ D[HomeVdi[v]].owner = v
  /\ \A b \in Vbds : B[b].plug # "unused" =>
       B[b].vdi \in Vdis /\ D[B[b].vdi].state # "unused"

Good(k, D, B) ==
  /\ k \in CallRecord
  /\ k.pc # "idle" => /\ k.op \in Ops /\ k.vol \in Volumes
                      /\ k.op \in {"publish", "unpublish"} => k.vm \in VMs
  /\ k.pc \in NeedsVdi => k.vdi \in Vdis
  /\ k.pc \in NeedsVbd => k.vbd \in Vbds
  /\ k.pc \in NeedsVM => k.vm \in VMs
  /\ k.tags \subseteq {k.vol}
  /\ k.vdi # None => D[k.vdi].state # "unused" /\ D[k.vdi].owner = k.vol
  /\ k.vbd # None => /\ B[k.vbd].plug # "unused" /\ B[k.vbd].vm = k.vm
                     /\ D[B[k.vbd].vdi].owner = k.vol

Extends(D, B, E, F) ==
  /\ \A d \in Vdis : D[d].state # "unused" =>
       E[d].state # "unused" /\ E[d].owner = D[d].owner
  /\ \A b \in Vbds : B[b].plug # "unused" =>
       /\ F[b].plug # "unused" /\ F[b].vm = B[b].vm
       /\ E[F[b].vdi].owner = D[B[b].vdi].owner

COTypeOK ==
  /\ co \in [Volumes -> [VMs -> {"out", "attaching", "in", "detaching"}]]
  /\ doomed \subseteq Volumes /\ deleted \subseteq Volumes

CallsGood == call \in [Calls -> CallRecord] /\ \A c \in Calls : Good(call[c], vdi, vbd)

IInv == Coherent(vdi, vbd) /\ host \in [VMs -> Hosts] /\ CallsGood /\ COTypeOK

-----------------------------------------------------------------------------
(* How calls stay good. *)

\* A slot without a call is good.
LEMMA IdleGood ==
  ASSUME NEW D, NEW B PROVE Good(Idle, D, B)
BY NoneAssumption DEF Good, Idle, CallRecord, PC, NeedsVdi, NeedsVbd, NeedsVM

\* What a call holds stays right while the store is extended.
LEMMA GoodExtends ==
  ASSUME NEW D, NEW B, NEW E, NEW F, NEW k, Good(k, D, B), Extends(D, B, E, F)
  PROVE  Good(k, E, F)
BY DEF Good, Extends, CallRecord

\* A call may move to another point of its handler where it needs no more than
\* it has.
LEMMA GotoGood ==
  ASSUME NEW D, NEW B, NEW k, Good(k, D, B), NEW pc \in PC, k.pc # "idle",
         pc \in NeedsVdi => k.vdi \in Vdis, pc \in NeedsVbd => k.vbd \in Vbds,
         pc \in NeedsVM => k.vm \in VMs
  PROVE  Good([k EXCEPT !.pc = pc], D, B)
BY DEF Good, CallRecord

\* One call steps to a good record while the store is extended; the others stay.
LEMMA OneCall ==
  ASSUME CallsGood, Extends(vdi, vbd, vdi', vbd'), NEW c \in Calls, NEW k,
         Good(k, vdi', vbd'), call' = [call EXCEPT ![c] = k]
  PROVE  CallsGood'
<1>1. call' \in [Calls -> CallRecord]  BY DEF CallsGood, Good
<1>2. ASSUME NEW e \in Calls PROVE Good(call'[e], vdi', vbd')
  <2>1. CASE e = c  BY <2>1 DEF CallsGood
  <2>2. CASE e # c
    <3>1. Good(call[e], vdi, vbd)  BY DEF CallsGood
    <3>2. call'[e] = call[e]  BY <2>2 DEF CallsGood
    <3> QED BY <3>1, <3>2, GoodExtends
  <2> QED BY <2>1, <2>2
<1> QED BY <1>1, <1>2 DEF CallsGood

\* An unchanged store extends itself.
LEMMA SameStore ==
  ASSUME UNCHANGED <<vdi, vbd>> PROVE Extends(vdi, vbd, vdi', vbd')
BY DEF Extends

\* The handler returns an error.
LEMMA RejectStep ==
  ASSUME CallsGood, COTypeOK, Extends(vdi, vbd, vdi', vbd'), NEW c \in Calls, Reject(c)
  PROVE  CallsGood' /\ COTypeOK'
<1>1. CallsGood'  BY IdleGood, OneCall DEF Reject
<1>2. COTypeOK'  BY DEF Reject, CO, COTypeOK
<1> QED BY <1>1, <1>2

\* The handler answers OK.
LEMMA SucceedStep ==
  ASSUME CallsGood, COTypeOK, Extends(vdi, vbd, vdi', vbd'), NEW c \in Calls,
         call[c].pc # "idle", Succeed(c)
  PROVE  CallsGood' /\ COTypeOK'
<1>1. CallsGood'  BY IdleGood, OneCall DEF Succeed
<1>2. call[c].vol \in Volumes  BY DEF CallsGood, Good
<1>3. co' \in [Volumes -> [VMs -> {"out", "attaching", "in", "detaching"}]]
  BY DEF Succeed, Noted, COTypeOK
<1>4. doomed' \subseteq Volumes /\ deleted' \subseteq Volumes  BY <1>2 DEF Succeed, COTypeOK
<1> QED BY <1>1, <1>3, <1>4 DEF COTypeOK

\* The handler goes on with what it has.
LEMMA GotoStep ==
  ASSUME CallsGood, COTypeOK, Extends(vdi, vbd, vdi', vbd'), NEW c \in Calls,
         call[c].pc # "idle", NEW pc \in PC, Goto(c, pc), UNCHANGED CO,
         pc \in NeedsVdi => call[c].vdi \in Vdis, pc \in NeedsVbd => call[c].vbd \in Vbds,
         pc \in NeedsVM => call[c].vm \in VMs
  PROVE  CallsGood' /\ COTypeOK'
<1>1. Good(call[c], vdi, vbd) /\ call[c] \in CallRecord  BY DEF CallsGood
<1>2. Good([call[c] EXCEPT !.pc = pc], vdi, vbd)  BY <1>1, GotoGood
<1>3. Good([call[c] EXCEPT !.pc = pc], vdi', vbd')  BY <1>2, GoodExtends
<1>4. call' = [call EXCEPT ![c] = [call[c] EXCEPT !.pc = pc]]  BY DEF Goto
<1>5. CallsGood'  BY <1>3, <1>4, OneCall
<1> QED BY <1>5 DEF CO, COTypeOK

\* The handler goes on with a disk that holds the data of its volume.
LEMMA KeepStep ==
  ASSUME Coherent(vdi, vbd), CallsGood, COTypeOK, UNCHANGED <<vdi, vbd>>, UNCHANGED CO,
         NEW c \in Calls, call[c].pc # "idle", NEW d \in Vdis, vdi[d].state # "unused",
         vdi[d].owner = call[c].vol, NEW pc \in PC \ NeedsVbd,
         pc \in NeedsVM => call[c].vm \in VMs, Keep(c, d, pc)
  PROVE  CallsGood' /\ COTypeOK'
<1> DEFINE k == [call[c] EXCEPT !.pc = pc, !.vdi = d, !.sr = vdi[d].sr,
                                !.tags = vdi[d].idTags, !.adopted = vdi[d].cluster]
<1>1. Good(call[c], vdi, vbd) /\ call[c] \in CallRecord  BY DEF CallsGood
<1>2. vdi[d] \in VDIRecord /\ vdi[d].idTags \subseteq {vdi[d].owner}  BY DEF Coherent
<1>3. k \in CallRecord  BY <1>1, <1>2 DEF CallRecord, VDIRecord
<1>4. Good(k, vdi, vbd)  BY <1>1, <1>2, <1>3 DEF Good, CallRecord
<1>5. Extends(vdi, vbd, vdi', vbd')  BY SameStore
<1>6. Good(k, vdi', vbd')  BY <1>4, <1>5, GoodExtends
<1>7. call' = [call EXCEPT ![c] = k]  BY DEF Keep
<1>8. CallsGood'  BY <1>5, <1>6, <1>7, OneCall
<1> QED BY <1>8 DEF CO, COTypeOK

-----------------------------------------------------------------------------
(* How the store stays coherent. *)

\* A step that gives no disk another owner or label, tags a disk only with its
\* owner, and creates VBDs only on disks that exist or existed.
LEMMA StoreStep ==
  ASSUME Coherent(vdi, vbd), vdi' \in [Vdis -> VDIRecord], vbd' \in [Vbds -> VBDRecord],
         \A d \in Vdis : /\ vdi'[d].owner = vdi[d].owner /\ vdi'[d].label = vdi[d].label
                         /\ vdi[d].state # "unused" => vdi'[d].state # "unused"
                         /\ vdi'[d].idTags \subseteq {vdi[d].owner},
         \A b \in Vbds : vbd[b].plug # "unused" =>
           vbd'[b].plug # "unused" /\ vbd'[b].vm = vbd[b].vm /\ vbd'[b].vdi = vbd[b].vdi,
         \A b \in Vbds : vbd[b].plug = "unused" /\ vbd'[b].plug # "unused" =>
           vbd'[b].vdi \in Vdis /\ vdi[vbd'[b].vdi].state # "unused"
  PROVE  Coherent(vdi', vbd') /\ Extends(vdi, vbd, vdi', vbd')
<1>1. Extends(vdi, vbd, vdi', vbd')
  <2>1. \A b \in Vbds : vbd[b].plug # "unused" => vbd[b].vdi \in Vdis  BY DEF Coherent
  <2> QED BY <2>1 DEF Extends
<1>2. \A d \in Vdis : /\ vdi'[d].idTags \subseteq {vdi'[d].owner}
                      /\ vdi'[d].label \in {None, vdi'[d].owner}
  BY DEF Coherent
<1>3. \A v \in Volumes : vdi'[HomeVdi[v]].state # "unused" /\ vdi'[HomeVdi[v]].owner = v
  BY VolumeAssumption DEF Coherent
<1>4. \A b \in Vbds : vbd'[b].plug # "unused" =>
        vbd'[b].vdi \in Vdis /\ vdi'[vbd'[b].vdi].state # "unused"
  BY DEF Coherent
<1> QED BY <1>1, <1>2, <1>3, <1>4 DEF Coherent

\* A step that changes disks only, and not whose they are.
LEMMA VdiStep ==
  ASSUME Coherent(vdi, vbd), vbd' = vbd, vdi' \in [Vdis -> VDIRecord],
         \A d \in Vdis : /\ vdi'[d].owner = vdi[d].owner /\ vdi'[d].label = vdi[d].label
                         /\ vdi[d].state # "unused" => vdi'[d].state # "unused"
                         /\ vdi'[d].idTags \subseteq {vdi[d].owner}
  PROVE  Coherent(vdi', vbd') /\ Extends(vdi, vbd, vdi', vbd')
<1>1. vbd' \in [Vbds -> VBDRecord]  BY DEF Coherent
<1> QED BY <1>1, StoreStep

\* A disk is tagged with the volume whose data it holds.
LEMMA TagStep ==
  ASSUME Coherent(vdi, vbd), NEW d \in Vdis, NEW T, T \subseteq Volumes,
         T \subseteq {vdi[d].owner}, AddIdTags(d, T), vbd' = vbd
  PROVE  Coherent(vdi', vbd') /\ Extends(vdi, vbd, vdi', vbd')
<1>1. vdi' \in [Vdis -> VDIRecord]  BY DEF Coherent, AddIdTags, VDIRecord
<1>2. \A e \in Vdis : /\ vdi'[e].owner = vdi[e].owner /\ vdi'[e].label = vdi[e].label
                      /\ vdi'[e].state = vdi[e].state
                      /\ vdi'[e].idTags \subseteq {vdi[e].owner}
  BY DEF Coherent, AddIdTags, VDIRecord
<1> QED BY <1>1, <1>2, VdiStep

\* Another field of a disk changes.
LEMMA FieldStep ==
  ASSUME Coherent(vdi, vbd), vbd' = vbd, NEW d \in Vdis, NEW r \in VDIRecord,
         vdi' = [vdi EXCEPT ![d] = r], r.owner = vdi[d].owner, r.label = vdi[d].label,
         r.idTags \subseteq {vdi[d].owner}, r.state = vdi[d].state
  PROVE  Coherent(vdi', vbd') /\ Extends(vdi, vbd, vdi', vbd')
<1>1. /\ vdi \in [Vdis -> VDIRecord]
      /\ \A e \in Vdis : vdi[e].idTags \subseteq {vdi[e].owner}
  BY DEF Coherent
<1>2. vdi' \in [Vdis -> VDIRecord]  BY <1>1
<1>3. \A e \in Vdis : vdi'[e] = IF e = d THEN r ELSE vdi[e]  BY <1>1
<1> QED BY <1>1, <1>2, <1>3, VdiStep

\* A step that changes VBDs only, creates none and moves none.
LEMMA VbdStep ==
  ASSUME Coherent(vdi, vbd), vdi' = vdi, vbd' \in [Vbds -> VBDRecord],
         \A b \in Vbds : /\ vbd[b].plug = "unused" <=> vbd'[b].plug = "unused"
                         /\ vbd'[b].vm = vbd[b].vm /\ vbd'[b].vdi = vbd[b].vdi
  PROVE  Coherent(vdi', vbd') /\ Extends(vdi, vbd, vdi', vbd')
<1>1. /\ vdi' \in [Vdis -> VDIRecord]
      /\ \A d \in Vdis : vdi[d].idTags \subseteq {vdi[d].owner}
  BY DEF Coherent
<1> QED BY <1>1, StoreStep

\* One VBD changes.
LEMMA OneVbdStep ==
  ASSUME Coherent(vdi, vbd), vdi' = vdi, NEW b \in Vbds, NEW r \in VBDRecord,
         vbd' = [vbd EXCEPT ![b] = r], vbd[b].plug = "unused" <=> r.plug = "unused",
         r.vm = vbd[b].vm, r.vdi = vbd[b].vdi
  PROVE  Coherent(vdi', vbd') /\ Extends(vdi, vbd, vdi', vbd')
<1>1. vbd \in [Vbds -> VBDRecord]  BY DEF Coherent
<1>2. vbd' \in [Vbds -> VBDRecord]  BY <1>1
<1>3. \A x \in Vbds : vbd'[x] = IF x = b THEN r ELSE vbd[x]  BY <1>1
<1> QED BY <1>2, <1>3, VbdStep

\* A migration ends: the new disk holds the data of the old one.
LEMMA MigrationStep ==
  ASSUME Coherent(vdi, vbd), NEW d \in Vdis, NEW n \in Vdis, MigrationDone(d, n)
  PROVE  /\ Coherent(vdi', vbd') /\ Extends(vdi, vbd, vdi', vbd')
         /\ vdi'[n].state = "live" /\ vdi'[n].owner = vdi[d].owner
<1>1. /\ vdi[d].state = "live" /\ vdi[n].state = "unused" /\ n # d
      /\ vdi \in [Vdis -> VDIRecord] /\ vbd \in [Vbds -> VBDRecord]
      /\ vdi[d] \in VDIRecord
  BY DEF MigrationDone, Live, Coherent
<1>2. vdi'[n] = [UnusedVDI EXCEPT !.state = "live", !.sr = vdi[d].to,
                   !.label = vdi[d].label, !.owner = vdi[d].owner]
  BY <1>1 DEF MigrationDone
<1>3. vdi'[d] = [vdi[d] EXCEPT !.state = "gone", !.to = None]  BY <1>1 DEF MigrationDone
<1>4. \A e \in Vdis \ {d, n} : vdi'[e] = vdi[e]  BY <1>1 DEF MigrationDone
<1>5. vdi'[n] \in VDIRecord  BY <1>1, <1>2 DEF VDIRecord, UnusedVDI
<1>6. vdi'[d] \in VDIRecord  BY <1>1, <1>3 DEF VDIRecord
<1>7. vdi' \in [Vdis -> VDIRecord]  BY <1>1, <1>4, <1>5, <1>6 DEF MigrationDone
<1>8. /\ vdi'[n].state = "live" /\ vdi'[n].owner = vdi[d].owner
      /\ vdi'[n].label = vdi[d].label /\ vdi'[n].idTags = {}
      /\ vdi'[d].state = "gone" /\ vdi'[d].owner = vdi[d].owner
      /\ vdi'[d].label = vdi[d].label /\ vdi'[d].idTags = vdi[d].idTags
  BY <1>1, <1>2, <1>3 DEF UnusedVDI, VDIRecord
<1>9. \A b \in Vbds : /\ vbd'[b] \in VBDRecord
                      /\ vbd'[b].plug = vbd[b].plug /\ vbd'[b].vm = vbd[b].vm
                      /\ vbd'[b].vdi = vbd[b].vdi \/ (vbd[b].vdi = d /\ vbd'[b].vdi = n)
  BY <1>1 DEF MigrationDone, VBDRecord, VbdsOf
<1>10. vbd' \in [Vbds -> VBDRecord]  BY <1>9 DEF MigrationDone
<1>11. \A e \in Vdis : vdi[e].state # "unused" =>
         vdi'[e].state # "unused" /\ vdi'[e].owner = vdi[e].owner
  BY <1>1, <1>4, <1>8
<1>12. \A b \in Vbds : vbd[b].plug # "unused" =>
         /\ vbd'[b].vdi \in Vdis /\ vdi'[vbd'[b].vdi].state # "unused"
         /\ vdi'[vbd'[b].vdi].owner = vdi[vbd[b].vdi].owner
  BY <1>8, <1>9, <1>11 DEF Coherent
<1>13. Extends(vdi, vbd, vdi', vbd')  BY <1>9, <1>11, <1>12 DEF Extends
<1>14. \A e \in Vdis : /\ vdi'[e].idTags \subseteq {vdi'[e].owner}
                       /\ vdi'[e].label \in {None, vdi'[e].owner}
  BY <1>4, <1>8 DEF Coherent
<1>15. \A v \in Volumes : vdi'[HomeVdi[v]].state # "unused" /\ vdi'[HomeVdi[v]].owner = v
  BY <1>11, VolumeAssumption DEF Coherent
<1> QED BY <1>7, <1>8, <1>9, <1>10, <1>12, <1>13, <1>14, <1>15 DEF Coherent

\* What XO does on its own besides migrations.
LEMMA XOStep ==
  ASSUME Coherent(vdi, vbd), host \in [VMs -> Hosts], XONext
  PROVE  /\ Coherent(vdi', vbd') /\ Extends(vdi, vbd, vdi', vbd')
         /\ host' \in [VMs -> Hosts]
<1> DEFINE Done == /\ Coherent(vdi', vbd') /\ Extends(vdi, vbd, vdi', vbd')
                   /\ host' \in [VMs -> Hosts]
<1>1. /\ vdi \in [Vdis -> VDIRecord] /\ vbd \in [Vbds -> VBDRecord]
      /\ \A d \in Vdis : vdi[d].idTags \subseteq {vdi[d].owner}
  BY DEF Coherent
<1>2. ASSUME NEW b \in Vbds, vbd[b].plug # "unused", UNCHANGED <<vdi, host>>,
             NEW p \in {"off", "plugging", "on", "unplugging"}, NEW n \in BOOLEAN,
             vbd' = [vbd EXCEPT ![b] = [vbd[b] EXCEPT !.plug = p, !.named = n]]
      PROVE  Done
  <2>1. vbd[b] \in VBDRecord  BY <1>1
  <2>2. [vbd[b] EXCEPT !.plug = p, !.named = n] \in VBDRecord  BY <2>1 DEF VBDRecord
  <2>3. /\ [vbd[b] EXCEPT !.plug = p, !.named = n].plug = p
        /\ [vbd[b] EXCEPT !.plug = p, !.named = n].vm = vbd[b].vm
        /\ [vbd[b] EXCEPT !.plug = p, !.named = n].vdi = vbd[b].vdi
    BY <2>1 DEF VBDRecord
  <2>4. vdi' = vdi /\ host' = host /\ p # "unused"  BY <1>2
  <2> QED BY <1>2, <2>2, <2>3, <2>4, OneVbdStep
<1>3. ASSUME NEW b \in Vbds, vbd[b].plug # "unused", UNCHANGED <<vdi, host>>,
             NEW p \in {"off", "plugging", "on", "unplugging"},
             vbd' = [vbd EXCEPT ![b] = [vbd[b] EXCEPT !.plug = p]]
      PROVE  Done
  <2>1. vbd[b] \in VBDRecord /\ vbd[b].named \in BOOLEAN  BY <1>1 DEF VBDRecord
  <2>2. [vbd[b] EXCEPT !.plug = p] = [vbd[b] EXCEPT !.plug = p, !.named = vbd[b].named]
    BY <2>1 DEF VBDRecord
  <2> QED BY <1>2, <1>3, <2>1, <2>2
<1>4. ASSUME NEW b \in Vbds,
             PlugDone(b) \/ PlugFails(b) \/ DeviceNamed(b) \/ UnplugDone(b) \/ UnplugFails(b)
      PROVE  Done
  <2>1. CASE PlugDone(b)
    <3>1. PICK n \in BOOLEAN : vbd' = [vbd EXCEPT ![b] = [vbd[b] EXCEPT !.plug = "on", !.named = n]]
      BY <2>1 DEF PlugDone
    <3> QED BY <1>2, <2>1, <3>1 DEF PlugDone
  <2>2. CASE PlugFails(b)  BY <1>3, <2>2 DEF PlugFails
  <2>3. CASE DeviceNamed(b)
    <3>1. vbd[b] \in VBDRecord /\ vbd[b].plug = "on"  BY <1>1, <2>3 DEF DeviceNamed
    <3>2. [vbd[b] EXCEPT !.named = TRUE] = [vbd[b] EXCEPT !.plug = "on", !.named = TRUE]
      BY <3>1 DEF VBDRecord
    <3> QED BY <1>2, <2>3, <3>2 DEF DeviceNamed
  <2>4. CASE UnplugDone(b)  BY <1>2, <2>4 DEF UnplugDone
  <2>5. CASE UnplugFails(b)  BY <1>3, <2>5 DEF UnplugFails
  <2> QED BY <1>4, <2>1, <2>2, <2>3, <2>4, <2>5
<1>5. ASSUME NEW m \in VMs, NEW h \in Hosts, LiveMigrateVM(m, h) PROVE Done
  BY <1>5, SameStore DEF LiveMigrateVM
<1>6. ASSUME NEW d \in Vdis, EraseTags(d) PROVE Done
  <2> DEFINE r == [vdi[d] EXCEPT !.idTags = {}, !.cluster = FALSE]
  <2>1. vdi' = [vdi EXCEPT ![d] = r] /\ vbd' = vbd /\ host' = host  BY <1>6 DEF EraseTags
  <2>2. vdi[d] \in VDIRecord  BY <1>1
  <2>3. /\ r \in VDIRecord /\ r.owner = vdi[d].owner /\ r.label = vdi[d].label
        /\ r.idTags = {} /\ r.state = vdi[d].state
    BY <2>2 DEF VDIRecord
  <2> HIDE DEF r
  <2> QED BY <2>1, <2>3, FieldStep
<1> QED BY <1>4, <1>5, <1>6 DEF XONext

-----------------------------------------------------------------------------
(* What a call at work may rely on. *)

\* A call that is past its lookup holds a disk of its volume.
LEMMA HeldVdi ==
  ASSUME CallsGood, NEW c \in Calls, call[c].pc \in NeedsVdi
  PROVE  /\ call[c].vdi \in Vdis /\ vdi[call[c].vdi].state # "unused"
         /\ vdi[call[c].vdi].owner = call[c].vol /\ call[c].pc # "idle"
         /\ call[c].vol \in Volumes
BY NoneAssumption DEF CallsGood, Good, NeedsVdi

\* A call that waits for a VBD holds one of its own.
LEMMA HeldVbd ==
  ASSUME CallsGood, NEW c \in Calls, call[c].pc \in NeedsVbd
  PROVE  /\ call[c].vbd \in Vbds /\ vbd[call[c].vbd].plug # "unused"
         /\ call[c].pc # "idle"
BY NoneAssumption DEF CallsGood, Good, NeedsVbd

\* A handler that only reads leaves the store as it should be.
LEMMA ReadOnly ==
  ASSUME IInv, UNCHANGED store
  PROVE  /\ Coherent(vdi', vbd') /\ Extends(vdi, vbd, vdi', vbd')
         /\ host' \in [VMs -> Hosts] /\ UNCHANGED <<vdi, vbd>>
BY SameStore DEF IInv, store

\* A call notes something else than a disk or a VBD.
LEMMA LocalsStep ==
  ASSUME CallsGood, COTypeOK, Extends(vdi, vbd, vdi', vbd'), UNCHANGED CO, NEW c \in Calls,
         call[c].pc # "idle", call[c].vdi \in Vdis, NEW k \in CallRecord,
         k.op = call[c].op, k.vol = call[c].vol, k.vm = call[c].vm, k.vdi = call[c].vdi,
         k.tags = call[c].tags, k.vbd = call[c].vbd, k.pc \notin NeedsVbd \cup NeedsVM,
         call' = [call EXCEPT ![c] = k]
  PROVE  CallsGood' /\ COTypeOK'
<1>1. Good(call[c], vdi, vbd)  BY DEF CallsGood
<1>2. Good(k, vdi, vbd)  BY <1>1 DEF Good
<1>3. Good(k, vdi', vbd')  BY <1>2, GoodExtends
<1>4. CallsGood'  BY <1>3, OneCall
<1> QED BY <1>4 DEF CO, COTypeOK

\* A call takes a VBD of its VM and of a disk of its volume.
LEMMA TakeVbdStep ==
  ASSUME CallsGood, COTypeOK, Extends(vdi, vbd, vdi', vbd'), UNCHANGED CO, NEW c \in Calls,
         call[c].pc # "idle", call[c].vdi \in Vdis, NEW pc \in PC \ NeedsVM,
         NEW b \in Vbds, vbd'[b].plug # "unused", vbd'[b].vm = call[c].vm,
         vdi'[vbd'[b].vdi].owner = call[c].vol,
         call' = [call EXCEPT ![c] = [call[c] EXCEPT !.pc = pc, !.vbd = b]]
  PROVE  CallsGood' /\ COTypeOK'
<1> DEFINE k == [call[c] EXCEPT !.pc = pc, !.vbd = b]
<1>1. Good(call[c], vdi, vbd) /\ call[c] \in CallRecord  BY DEF CallsGood
<1>2. Good(call[c], vdi', vbd')  BY <1>1, GoodExtends
<1>3. k \in CallRecord  BY <1>1 DEF CallRecord
<1>4. /\ k.op = call[c].op /\ k.vol = call[c].vol /\ k.vm = call[c].vm /\ k.vdi = call[c].vdi
      /\ k.tags = call[c].tags /\ k.vbd = b /\ k.pc = pc
  BY <1>1 DEF CallRecord
<1>5. call' = [call EXCEPT ![c] = k]  OBVIOUS
<1> HIDE DEF k
<1>6. Good(k, vdi', vbd')  BY <1>2, <1>3, <1>4 DEF Good
<1>7. CallsGood'  BY <1>5, <1>6, OneCall
<1> QED BY <1>7 DEF CO, COTypeOK

-----------------------------------------------------------------------------
(* The steps of the system. *)

\* A call starts.
LEMMA StartCallKeeps ==
  ASSUME IInv, NEW c \in Calls, NEW op \in Ops, NEW v \in Volumes,
         NEW m \in VMs \cup {None}, StartCall(c, op, v, m)
  PROVE  IInv'
<1> DEFINE k == [Idle EXCEPT !.op = op, !.pc = "byTag", !.vol = v, !.vm = m]
<1>1. UNCHANGED store  BY DEF StartCall, store
<1>2. /\ k.op = op /\ k.pc = "byTag" /\ k.vol = v /\ k.vm = m /\ k.vdi = None
      /\ k.vbd = None /\ k.tags = {}
  BY DEF Idle
<1>3. k \in CallRecord  BY DEF Idle, CallRecord, PC
<1>4. op \in {"publish", "unpublish"} => m \in VMs
  BY VolumeAssumption DEF StartCall
<1>5. call' = [call EXCEPT ![c] = k]  BY DEF StartCall
<1> HIDE DEF k
<1>6. Good(k, vdi', vbd')
  BY <1>2, <1>3, <1>4, NoneAssumption DEF Good, NeedsVdi, NeedsVbd, NeedsVM, PC
<1>7. CallsGood'  BY <1>1, <1>5, <1>6, ReadOnly, OneCall DEF IInv
<1>8. COTypeOK'  BY DEF StartCall, Noted, COTypeOK, IInv
<1> QED BY <1>1, <1>7, <1>8, ReadOnly DEF IInv

\* GetVDIByVolumeId finds no disk but those with the data of the volume.
LEMMA LookupKeeps ==
  ASSUME IInv, NEW c \in Calls, LookupByTag(c) \/ LookupByLabel(c) \/ LookupByUUID(c)
  PROVE  IInv'
<1>1. UNCHANGED store  BY DEF LookupByTag, LookupByLabel, LookupByUUID
<1> SUFFICES CallsGood' /\ COTypeOK'  BY <1>1, ReadOnly DEF IInv
<1>2. /\ Coherent(vdi, vbd) /\ CallsGood /\ COTypeOK /\ Good(call[c], vdi, vbd)
      /\ call[c].pc # "idle" /\ call[c] \in CallRecord
      /\ call[c].vol \in Volumes
      /\ call[c].op = "publish" => call[c].vm \in VMs
  BY DEF IInv, CallsGood, Good, At, LookupByTag, LookupByLabel, LookupByUUID
<1>3. ASSUME Reject(c) \/ Succeed(c) PROVE CallsGood' /\ COTypeOK'
  BY <1>1, <1>2, <1>3, ReadOnly, RejectStep, SucceedStep
<1>4. ASSUME NEW pc \in {"byLabel", "byUUID"}, Goto(c, pc), UNCHANGED CO
      PROVE  CallsGood' /\ COTypeOK'
  BY <1>1, <1>2, <1>4, ReadOnly, GotoStep DEF PC, NeedsVdi, NeedsVbd, NeedsVM
<1>5. ASSUME NEW d \in Vdis, vdi[d].state # "unused", vdi[d].owner = call[c].vol,
             NEW pc \in {"recover", "adopt", "getVM", "findVbd", "checkUnused"},
             pc \in NeedsVM => call[c].op = "publish", Keep(c, d, pc), UNCHANGED CO
      PROVE  CallsGood' /\ COTypeOK'
  <2>1. pc \in PC \ NeedsVbd  BY DEF PC, NeedsVbd
  <2>2. UNCHANGED <<vdi, vbd>>  BY <1>1 DEF store
  <2> QED BY <1>2, <1>5, <2>1, <2>2, KeepStep
<1>6. CASE LookupByTag(c)
  <2>1. ASSUME NEW d \in Vdis, ByTag(call[c].vol) = {d}, Found(c, d)
        PROVE  CallsGood' /\ COTypeOK'
    <3>1. vdi[d].state # "unused" /\ vdi[d].owner = call[c].vol
      BY <1>2, <2>1 DEF ByTag, Live, Coherent
    <3> DEFINE pc == AfterLookup(call[c].op, vdi[d].cluster)
    <3>2. /\ pc \in {"recover", "adopt", "getVM", "findVbd", "checkUnused"}
          /\ pc \in NeedsVM => call[c].op = "publish"
      BY DEF AfterLookup, NeedsVM
    <3>3. Succeed(c) \/ (Keep(c, d, pc) /\ UNCHANGED CO)  BY <2>1 DEF Found
    <3> HIDE DEF pc
    <3> QED BY <1>3, <1>5, <3>1, <3>2, <3>3
  <2> QED BY <1>3, <1>4, <1>6, <2>1 DEF LookupByTag
<1>7. CASE LookupByLabel(c)
  <2>1. ASSUME NEW d \in Vdis, ByLabel(call[c].vol) = {d}, Keep(c, d, "recover"), UNCHANGED CO
        PROVE  CallsGood' /\ COTypeOK'
    <3>1. vdi[d].state # "unused" /\ vdi[d].owner = call[c].vol
      BY <1>2, <2>1, NoneAssumption DEF ByLabel, Live, Coherent
    <3> QED BY <1>5, <2>1, <3>1 DEF NeedsVM
  <2> QED BY <1>3, <1>4, <1>7, <2>1 DEF LookupByLabel
<1>8. CASE LookupByUUID(c)
  <2>1. ASSUME NEW d \in ByUUID(call[c].vol), Keep(c, d, "recover"), UNCHANGED CO
        PROVE  CallsGood' /\ COTypeOK'
    <3>1. d \in Vdis /\ vdi[d].state # "unused" /\ vdi[d].owner = call[c].vol
      BY <1>2, <2>1 DEF ByUUID, Live, Coherent
    <3> QED BY <1>5, <2>1, <3>1 DEF NeedsVM
  <2> QED BY <1>3, <1>8, <2>1 DEF LookupByUUID, NotFound
<1> QED BY <1>6, <1>7, <1>8

\* GetVM, FindLocalSRForHost, RefetchVDI and IsSRAttachedToHost read and note.
LEMMA PublishReadsKeep ==
  ASSUME IInv, NEW c \in Calls,
         GetVM(c) \/ FindLocalSRForHost(c) \/ RefetchVDI(c) \/ IsSRAttachedToHost(c)
  PROVE  IInv'
<1>1. UNCHANGED store  BY DEF GetVM, FindLocalSRForHost, RefetchVDI, IsSRAttachedToHost
<1> SUFFICES CallsGood' /\ COTypeOK'  BY <1>1, ReadOnly DEF IInv
<1>2. call[c].pc \in NeedsVdi
  BY DEF GetVM, FindLocalSRForHost, RefetchVDI, IsSRAttachedToHost, At, NeedsVdi, PC
<1>3. /\ Coherent(vdi, vbd) /\ CallsGood /\ COTypeOK /\ Good(call[c], vdi, vbd)
      /\ call[c] \in CallRecord /\ host \in [VMs -> Hosts]
  BY DEF IInv, CallsGood
<1>4. /\ call[c].vdi \in Vdis /\ vdi[call[c].vdi].state # "unused"
      /\ vdi[call[c].vdi].owner = call[c].vol /\ call[c].pc # "idle"
  BY <1>2, <1>3, HeldVdi
<1>5. ASSUME Reject(c) PROVE CallsGood' /\ COTypeOK'
  BY <1>1, <1>3, <1>5, ReadOnly, RejectStep
<1>6. CASE GetVM(c)
  <2>1. call[c].vm \in VMs  BY <1>3, <1>6 DEF GetVM, At, Good, NeedsVM
  <2>2. ASSUME NEW pc \in {"findSR", "checkSR"}, UNCHANGED CO,
               call' = [call EXCEPT ![c] = [call[c] EXCEPT !.host = host[call[c].vm], !.pc = pc]]
        PROVE  CallsGood' /\ COTypeOK'
    <3> DEFINE k == [call[c] EXCEPT !.host = host[call[c].vm], !.pc = pc]
    <3>0. pc \in PC /\ host[call[c].vm] \in Hosts  BY <1>3, <2>1 DEF PC
    <3>1. /\ k \in CallRecord /\ k.op = call[c].op /\ k.vol = call[c].vol /\ k.vm = call[c].vm
          /\ k.vdi = call[c].vdi /\ k.tags = call[c].tags /\ k.vbd = call[c].vbd /\ k.pc = pc
      BY <1>3, <3>0 DEF CallRecord
    <3>2. call' = [call EXCEPT ![c] = k]  BY <2>2
    <3> HIDE DEF k
    <3>3. k.pc \notin NeedsVbd \cup NeedsVM  BY <3>1 DEF NeedsVbd, NeedsVM
    <3> QED BY <1>1, <1>3, <1>4, <2>2, <3>1, <3>2, <3>3, ReadOnly, LocalsStep
  <2> QED BY <1>5, <1>6, <2>2 DEF GetVM
<1>7. CASE FindLocalSRForHost(c)
  <2>1. ASSUME NEW s \in SRs, NEW pc \in {"checkSR", "migrate"}, UNCHANGED CO,
               call' = [call EXCEPT ![c] = [call[c] EXCEPT !.to = s, !.pc = pc]]
        PROVE  CallsGood' /\ COTypeOK'
    <3> DEFINE k == [call[c] EXCEPT !.to = s, !.pc = pc]
    <3>0. pc \in PC  BY DEF PC
    <3>1. /\ k \in CallRecord /\ k.op = call[c].op /\ k.vol = call[c].vol /\ k.vm = call[c].vm
          /\ k.vdi = call[c].vdi /\ k.tags = call[c].tags /\ k.vbd = call[c].vbd /\ k.pc = pc
      BY <1>3, <3>0 DEF CallRecord
    <3>2. call' = [call EXCEPT ![c] = k]  BY <2>1
    <3> HIDE DEF k
    <3>3. k.pc \notin NeedsVbd \cup NeedsVM  BY <3>1 DEF NeedsVbd, NeedsVM
    <3> QED BY <1>1, <1>3, <1>4, <2>1, <3>1, <3>2, <3>3, ReadOnly, LocalsStep
  <2> QED BY <1>5, <1>7, <2>1 DEF FindLocalSRForHost
<1>8. CASE RefetchVDI(c)
  <2>1. Reject(c) \/ (Keep(c, call[c].vdi, "checkSR") /\ UNCHANGED CO)
    BY <1>8 DEF RefetchVDI
  <2>2. UNCHANGED <<vdi, vbd>>  BY <1>1 DEF store
  <2>3. "checkSR" \in PC \ NeedsVbd /\ "checkSR" \notin NeedsVM  BY DEF PC, NeedsVbd, NeedsVM
  <2> QED BY <1>3, <1>4, <1>5, <2>1, <2>2, <2>3, KeepStep
<1>9. CASE IsSRAttachedToHost(c)
  <2>1. Reject(c) \/ (Goto(c, "checkVbds") /\ UNCHANGED CO)  BY <1>9 DEF IsSRAttachedToHost
  <2>2. "checkVbds" \in PC /\ "checkVbds" \notin NeedsVbd \cup NeedsVM
    BY DEF PC, NeedsVbd, NeedsVM
  <2> QED BY <1>1, <1>3, <1>4, <1>5, <2>1, <2>2, ReadOnly, GotoStep
<1> QED BY <1>6, <1>7, <1>8, <1>9

\* CheckVbds and FindVBD take a VBD of the disk and the VM at hand, or none.
LEMMA VbdReadsKeep ==
  ASSUME IInv, NEW c \in Calls, CheckVbds(c) \/ FindVBD(c)
  PROVE  IInv'
<1>1. UNCHANGED store  BY DEF CheckVbds, FindVBD
<1> SUFFICES CallsGood' /\ COTypeOK'  BY <1>1, ReadOnly DEF IInv
<1>2. call[c].pc \in NeedsVdi  BY DEF CheckVbds, FindVBD, At, NeedsVdi, PC
<1>3. CallsGood /\ COTypeOK  BY DEF IInv
<1>4. /\ call[c].vdi \in Vdis /\ vdi[call[c].vdi].owner = call[c].vol
      /\ call[c].pc # "idle"
  BY <1>2, <1>3, HeldVdi
<1>5. ASSUME Reject(c) \/ Succeed(c) PROVE CallsGood' /\ COTypeOK'
  BY <1>1, <1>3, <1>4, <1>5, ReadOnly, RejectStep, SucceedStep
<1>6. ASSUME NEW b \in OwnVbds(call[c].vdi, call[c].vm), UNCHANGED CO,
             NEW pc \in {"poll", "connect", "disconnect"},
             call' = [call EXCEPT ![c] = [call[c] EXCEPT !.pc = pc, !.vbd = b]]
      PROVE  CallsGood' /\ COTypeOK'
  <2>1. /\ b \in Vbds /\ vbd[b].plug # "unused" /\ vbd[b].vm = call[c].vm
        /\ vdi[vbd[b].vdi].owner = call[c].vol
    BY <1>4, <1>6 DEF OwnVbds, VbdsOf, Exists
  <2>2. vbd'[b].plug # "unused" /\ vbd'[b].vm = call[c].vm /\ vdi'[vbd'[b].vdi].owner = call[c].vol
    BY <1>1, <2>1 DEF store
  <2>3. pc \in PC \ NeedsVM  BY DEF PC, NeedsVM
  <2> QED BY <1>1, <1>3, <1>4, <1>6, <2>1, <2>2, <2>3, ReadOnly, TakeVbdStep
<1>7. CASE CheckVbds(c)
  <2>1. "create" \in PC /\ "create" \notin NeedsVbd \cup NeedsVM  BY DEF PC, NeedsVbd, NeedsVM
  <2>2. ASSUME Goto(c, "create"), UNCHANGED CO PROVE CallsGood' /\ COTypeOK'
    BY <1>1, <1>3, <1>4, <2>1, <2>2, ReadOnly, GotoStep
  <2> QED BY <1>5, <1>6, <1>7, <2>2 DEF CheckVbds
<1>8. CASE FindVBD(c)  BY <1>5, <1>6, <1>8 DEF FindVBD, Detachable, NoVBD
<1> QED BY <1>7, <1>8

\* The steps that only move a call on or end it.
LEMMA WaitsKeep ==
  ASSUME IInv, NEW c \in Calls,
         \/ AwaitConnect(c) \/ GetConnectedVBD(c) \/ PollVBD(c) \/ PollTimeout(c)
         \/ AwaitDisconnect(c) \/ CheckUnused(c) \/ AnswerDeleted(c) \/ Interrupted(c)
         \/ TaskWaitFails(c)
  PROVE  IInv'
<1>1. UNCHANGED store
  BY DEF AwaitConnect, GetConnectedVBD, PollVBD, PollTimeout, AwaitDisconnect, CheckUnused,
         AnswerDeleted, Interrupted, TaskWaitFails
<1>2. CallsGood /\ COTypeOK  BY DEF IInv
<1>3. call[c].pc # "idle"
  BY DEF AwaitConnect, GetConnectedVBD, PollVBD, PollTimeout, AwaitDisconnect, CheckUnused,
         AnswerDeleted, Interrupted, TaskWaitFails, At
<1>4. \/ Reject(c) \/ Succeed(c) \/ (Goto(c, "panic") /\ UNCHANGED CO)
      \/ call[c].pc = "connecting" /\ Goto(c, "getVbd") /\ UNCHANGED CO
      \/ call[c].pc = "checkUnused" /\ Goto(c, "destroy") /\ UNCHANGED CO
  BY DEF AwaitConnect, GetConnectedVBD, PollVBD, PollTimeout, AwaitDisconnect, CheckUnused,
         AnswerDeleted, Interrupted, TaskWaitFails, At
<1>5. CASE Reject(c) \/ Succeed(c)
  BY <1>1, <1>2, <1>3, <1>5, ReadOnly, RejectStep, SucceedStep DEF IInv
<1>6. CASE Goto(c, "panic") /\ UNCHANGED CO
  <2>1. "panic" \in PC /\ "panic" \notin NeedsVdi \cup NeedsVbd \cup NeedsVM
    BY DEF PC, NeedsVdi, NeedsVbd, NeedsVM
  <2>2. CallsGood' /\ COTypeOK'
    BY <1>1, <1>2, <1>3, <1>6, <2>1, ReadOnly, GotoStep
  <2> QED BY <1>1, <2>2, ReadOnly DEF IInv
<1>7. CASE call[c].pc = "connecting" /\ Goto(c, "getVbd") /\ UNCHANGED CO
  <2>1. /\ "getVbd" \in PC /\ "getVbd" \notin NeedsVM
        /\ call[c].pc \in NeedsVdi /\ call[c].pc \in NeedsVbd
    BY <1>7 DEF PC, NeedsVM, NeedsVdi, NeedsVbd
  <2>2. call[c].vdi \in Vdis /\ call[c].vbd \in Vbds  BY <1>2, <2>1, HeldVdi, HeldVbd
  <2>3. CallsGood' /\ COTypeOK'
    BY <1>1, <1>2, <1>3, <1>7, <2>1, <2>2, ReadOnly, GotoStep
  <2> QED BY <1>1, <2>3, ReadOnly DEF IInv
<1>8. CASE call[c].pc = "checkUnused" /\ Goto(c, "destroy") /\ UNCHANGED CO
  <2>1. /\ "destroy" \in PC /\ "destroy" \notin NeedsVM \cup NeedsVbd
        /\ call[c].pc \in NeedsVdi
    BY <1>8 DEF PC, NeedsVM, NeedsVdi, NeedsVbd
  <2>2. call[c].vdi \in Vdis  BY <1>2, <2>1, HeldVdi
  <2>3. CallsGood' /\ COTypeOK'
    BY <1>1, <1>2, <1>3, <1>8, <2>1, <2>2, ReadOnly, GotoStep
  <2> QED BY <1>1, <2>3, ReadOnly DEF IInv
<1> QED BY <1>4, <1>5, <1>6, <1>7, <1>8

\* RecoverTags and CopyTags tag a disk with its own volume.
LEMMA TagsKeep ==
  ASSUME IInv, NEW c \in Calls, RecoverTags(c) \/ CopyTags(c)
  PROVE  IInv'
<1>1. call[c].pc \in NeedsVdi  BY DEF RecoverTags, CopyTags, At, NeedsVdi, PC
<1>2. /\ Coherent(vdi, vbd) /\ CallsGood /\ COTypeOK /\ Good(call[c], vdi, vbd)
      /\ call[c] \in CallRecord
  BY DEF IInv, CallsGood
<1>3. /\ call[c].vdi \in Vdis /\ vdi[call[c].vdi].owner = call[c].vol
      /\ call[c].pc # "idle" /\ call[c].vol \in Volumes
  BY <1>1, <1>2, HeldVdi
<1>4. host' = host /\ vbd' = vbd  BY DEF RecoverTags, CopyTags
<1>5. Coherent(vdi', vbd') /\ Extends(vdi, vbd, vdi', vbd')
  <2>1. CASE vdi' = vdi  BY <1>2, <1>4, <2>1, SameStore
  <2>2. CASE AddIdTags(call[c].vdi, {call[c].vol})  BY <1>2, <1>3, <1>4, <2>2, TagStep
  <2>3. CASE CopyTags(c)
    <3>1. PICK T \in SUBSET call[c].tags : AddIdTags(call[c].vdi, T)  BY <2>3 DEF CopyTags
    <3>2. T \subseteq {call[c].vol} /\ T \subseteq Volumes  BY <1>2, <1>3 DEF Good
    <3> QED BY <1>2, <1>3, <1>4, <3>1, <3>2, TagStep
  <2> QED BY <2>1, <2>2, <2>3 DEF RecoverTags
<1>6. CallsGood' /\ COTypeOK'
  <2>1. \/ Succeed(c)
        \/ \E pc \in {"adopt", "getVM", "findVbd", "checkUnused", "refetch"} :
             /\ Goto(c, pc) /\ UNCHANGED CO
             /\ pc \in NeedsVM => call[c].op = "publish"
    BY DEF RecoverTags, CopyTags, AfterLookup, NeedsVM, CO
  <2>2. CASE Succeed(c)  BY <1>2, <1>3, <1>5, <2>2, SucceedStep
  <2>3. ASSUME NEW pc \in {"adopt", "getVM", "findVbd", "checkUnused", "refetch"},
               Goto(c, pc), UNCHANGED CO, pc \in NeedsVM => call[c].op = "publish"
        PROVE  CallsGood' /\ COTypeOK'
    <3>1. pc \in PC /\ pc \notin NeedsVbd  BY DEF PC, NeedsVbd
    <3>2. pc \in NeedsVM => call[c].vm \in VMs  BY <1>2, <1>3, <2>3 DEF Good
    <3> QED BY <1>2, <1>3, <1>5, <2>3, <3>1, <3>2, GotoStep
  <2> QED BY <2>1, <2>2, <2>3
<1> QED BY <1>4, <1>5, <1>6 DEF IInv

\* AdoptVDI and StartMigration change what is said of a disk, not whose it is.
LEMMA DiskWritesKeep ==
  ASSUME IInv, NEW c \in Calls, AdoptVDI(c) \/ StartMigration(c)
  PROVE  IInv'
<1>1. call[c].pc \in NeedsVdi  BY DEF AdoptVDI, StartMigration, At, NeedsVdi, PC
<1>2. /\ Coherent(vdi, vbd) /\ CallsGood /\ COTypeOK /\ Good(call[c], vdi, vbd)
      /\ call[c] \in CallRecord
  BY DEF IInv, CallsGood
<1> DEFINE d == call[c].vdi
<1>3. d \in Vdis /\ call[c].pc # "idle"  BY <1>1, <1>2, HeldVdi
<1>4. host' = host /\ vbd' = vbd  BY DEF AdoptVDI, StartMigration
<1>5. vdi[d] \in VDIRecord /\ vdi[d].idTags \subseteq {vdi[d].owner}  BY <1>2, <1>3 DEF Coherent
<1>6. Coherent(vdi', vbd') /\ Extends(vdi, vbd, vdi', vbd')
  <2>1. CASE vdi' = vdi  BY <1>2, <1>4, <2>1, SameStore
  <2>2. CASE vdi' = [vdi EXCEPT ![d].cluster = TRUE]
    <3> DEFINE r == [vdi[d] EXCEPT !.cluster = TRUE]
    <3>1. /\ r \in VDIRecord /\ r.owner = vdi[d].owner /\ r.label = vdi[d].label
          /\ r.idTags = vdi[d].idTags /\ r.state = vdi[d].state
      BY <1>5 DEF VDIRecord
    <3>2. vdi' = [vdi EXCEPT ![d] = r]  BY <2>2
    <3> HIDE DEF r, d
    <3> QED BY <1>2, <1>3, <1>4, <1>5, <3>1, <3>2, FieldStep
  <2>3. CASE vdi' = [vdi EXCEPT ![d].to = call[c].to]
    <3> DEFINE r == [vdi[d] EXCEPT !.to = call[c].to]
    <3>0. call[c].to \in SRs \cup {None}  BY <1>2 DEF CallRecord
    <3>1. /\ r \in VDIRecord /\ r.owner = vdi[d].owner /\ r.label = vdi[d].label
          /\ r.idTags = vdi[d].idTags /\ r.state = vdi[d].state
      BY <1>5, <3>0 DEF VDIRecord
    <3>2. vdi' = [vdi EXCEPT ![d] = r]  BY <2>3
    <3> HIDE DEF r, d
    <3> QED BY <1>2, <1>3, <1>4, <1>5, <3>1, <3>2, FieldStep
  <2> QED BY <2>1, <2>2, <2>3 DEF AdoptVDI, StartMigration
<1>7. CallsGood' /\ COTypeOK'
  <2>1. \/ Reject(c)
        \/ call[c].pc = "adopt" /\ Goto(c, "getVM") /\ UNCHANGED CO
        \/ Goto(c, "migrating") /\ UNCHANGED CO
    BY DEF AdoptVDI, StartMigration, At
  <2>2. CASE Reject(c)  BY <1>2, <1>6, <2>2, RejectStep
  <2>3. CASE call[c].pc = "adopt" /\ Goto(c, "getVM") /\ UNCHANGED CO
    <3>1. call[c].vm \in VMs  BY <1>2, <2>3 DEF Good, NeedsVM
    <3>2. "getVM" \in PC /\ "getVM" \notin NeedsVbd  BY DEF PC, NeedsVbd
    <3> QED BY <1>2, <1>3, <1>6, <2>3, <3>1, <3>2, GotoStep
  <2>4. CASE Goto(c, "migrating") /\ UNCHANGED CO
    <3>1. "migrating" \in PC /\ "migrating" \notin NeedsVbd \cup NeedsVM
      BY DEF PC, NeedsVbd, NeedsVM
    <3> QED BY <1>2, <1>3, <1>6, <2>4, <3>1, GotoStep
  <2> QED BY <2>1, <2>2, <2>3, <2>4
<1> QED BY <1>4, <1>6, <1>7 DEF IInv

\* ConnectVBD and DisconnectVBD move a VBD neither to another VM nor disk.
LEMMA VbdWritesKeep ==
  ASSUME IInv, NEW c \in Calls, ConnectVBD(c) \/ DisconnectVBD(c)
  PROVE  IInv'
<1>1. call[c].pc \in NeedsVdi /\ call[c].pc \in NeedsVbd
  BY DEF ConnectVBD, DisconnectVBD, At, NeedsVdi, NeedsVbd, PC
<1>2. Coherent(vdi, vbd) /\ CallsGood /\ COTypeOK  BY DEF IInv
<1> DEFINE b == call[c].vbd
<1>3. /\ call[c].vdi \in Vdis /\ call[c].pc # "idle" /\ b \in Vbds
      /\ vbd[b].plug # "unused"
  BY <1>1, <1>2, HeldVdi, HeldVbd
<1>4. host' = host /\ vdi' = vdi  BY DEF ConnectVBD, DisconnectVBD
<1>5. vbd[b] \in VBDRecord  BY <1>2, <1>3 DEF Coherent
<1>6. Coherent(vdi', vbd') /\ Extends(vdi, vbd, vdi', vbd')
  <2>1. CASE vbd' = vbd  BY <1>2, <1>4, <2>1, SameStore
  <2>2. ASSUME NEW p \in {"plugging", "unplugging"}, vbd' = [vbd EXCEPT ![b].plug = p]
        PROVE  Coherent(vdi', vbd') /\ Extends(vdi, vbd, vdi', vbd')
    <3> DEFINE r == [vbd[b] EXCEPT !.plug = p]
    <3>1. /\ r \in VBDRecord /\ r.plug = p /\ r.vm = vbd[b].vm /\ r.vdi = vbd[b].vdi
      BY <1>5 DEF VBDRecord
    <3>2. vbd' = [vbd EXCEPT ![b] = r]  BY <2>2
    <3> HIDE DEF r, b
    <3> QED BY <1>2, <1>3, <1>4, <3>1, <3>2, OneVbdStep
  <2> QED BY <2>1, <2>2 DEF ConnectVBD, DisconnectVBD
<1>7. CallsGood' /\ COTypeOK'
  <2>1. \/ Reject(c)
        \/ \E pc \in {"connecting", "disconnecting"} : Goto(c, pc) /\ UNCHANGED CO
    BY DEF ConnectVBD, DisconnectVBD
  <2>2. CASE Reject(c)  BY <1>2, <1>6, <2>2, RejectStep
  <2>3. ASSUME NEW pc \in {"connecting", "disconnecting"}, Goto(c, pc), UNCHANGED CO
        PROVE  CallsGood' /\ COTypeOK'
    <3>1. pc \in PC /\ pc \notin NeedsVM  BY DEF PC, NeedsVM
    <3> QED BY <1>2, <1>3, <1>6, <2>3, <3>1, GotoStep
  <2> QED BY <2>1, <2>2, <2>3
<1> QED BY <1>4, <1>6, <1>7 DEF IInv

\* CreateVBD adds a VBD for the disk and the VM of the call.
LEMMA CreateVBDKeeps ==
  ASSUME IInv, NEW c \in Calls, CreateVBD(c)
  PROVE  IInv'
<1>1. call[c].pc \in NeedsVdi  BY DEF CreateVBD, At, NeedsVdi, PC
<1>2. /\ Coherent(vdi, vbd) /\ CallsGood /\ COTypeOK /\ call[c] \in CallRecord
  BY DEF IInv, CallsGood
<1> DEFINE d == call[c].vdi  m == call[c].vm
<1>3. /\ d \in Vdis /\ vdi[d].state # "unused" /\ vdi[d].owner = call[c].vol
      /\ call[c].pc # "idle"
  BY <1>1, <1>2, HeldVdi
<1>4. host' = host /\ vdi' = vdi  BY DEF CreateVBD
<1>5. CASE Reject(c) /\ vbd' = vbd
  <2>1. Coherent(vdi', vbd') /\ Extends(vdi, vbd, vdi', vbd')  BY <1>2, <1>4, <1>5, SameStore
  <2>2. CallsGood' /\ COTypeOK'  BY <1>2, <1>5, <2>1, RejectStep
  <2> QED BY <1>4, <2>1, <2>2 DEF IInv
<1>6. CASE Live(d)
  <2>1. PICK b \in Vbds :
          /\ CreateVBDOn(b, d, m) /\ UNCHANGED CO
          /\ call' = [call EXCEPT ![c] = [call[c] EXCEPT !.pc = "poll", !.vbd = b]]
    BY <1>6 DEF CreateVBD
  <2> DEFINE r == [plug |-> "plugging", vdi |-> d, vm |-> m, named |-> FALSE]
  <2>2. vbd \in [Vbds -> VBDRecord] /\ m \in VMs \cup {None}  BY <1>2 DEF Coherent, CallRecord
  <2>3. r \in VBDRecord  BY <1>3, <2>2 DEF VBDRecord
  <2>4. vbd' = [vbd EXCEPT ![b] = r] /\ vbd[b].plug = "unused"  BY <2>1 DEF CreateVBDOn
  <2>5. r.plug = "plugging" /\ r.vdi = d /\ r.vm = m  OBVIOUS
  <2> HIDE DEF r
  <2>6. /\ vbd' \in [Vbds -> VBDRecord]
        /\ \A x \in Vbds : vbd'[x] = IF x = b THEN r ELSE vbd[x]
    BY <2>2, <2>3, <2>4
  <2>7. /\ vdi' \in [Vdis -> VDIRecord]
        /\ \A e \in Vdis : vdi[e].idTags \subseteq {vdi[e].owner}
    BY <1>2, <1>4 DEF Coherent
  <2>8. Coherent(vdi', vbd') /\ Extends(vdi, vbd, vdi', vbd')
    BY <1>2, <1>3, <1>4, <2>4, <2>5, <2>6, <2>7, StoreStep
  <2>9. vbd'[b].plug # "unused" /\ vbd'[b].vm = m /\ vdi'[vbd'[b].vdi].owner = call[c].vol
    BY <1>3, <1>4, <2>5, <2>6
  <2>10. "poll" \in PC \ NeedsVM  BY DEF PC, NeedsVM
  <2>11. CallsGood' /\ COTypeOK'
    BY <1>2, <1>3, <2>1, <2>8, <2>9, <2>10, TakeVbdStep
  <2> QED BY <1>4, <2>8, <2>11 DEF IInv
<1> QED BY <1>5, <1>6 DEF CreateVBD

\* DeleteVDI leaves a disk that is gone with its owner.
LEMMA DeleteVDIKeeps ==
  ASSUME IInv, NEW c \in Calls, DeleteVDI(c)
  PROVE  IInv'
<1>1. call[c].pc \in NeedsVdi  BY DEF DeleteVDI, At, NeedsVdi, PC
<1>2. Coherent(vdi, vbd) /\ CallsGood /\ COTypeOK  BY DEF IInv
<1> DEFINE d == call[c].vdi
<1>3. d \in Vdis /\ call[c].pc # "idle"  BY <1>1, <1>2, HeldVdi
<1>4. host' = host /\ (Reject(c) \/ Succeed(c) \/ (Goto(c, "destroyed") /\ UNCHANGED CO))
  BY DEF DeleteVDI
<1>5. Coherent(vdi', vbd') /\ Extends(vdi, vbd, vdi', vbd')
  <2>1. CASE UNCHANGED <<vdi, vbd>>  BY <1>2, <2>1, SameStore
  <2>2. CASE DestroyVDI(d)
    <3>1. /\ vdi \in [Vdis -> VDIRecord] /\ vbd \in [Vbds -> VBDRecord]
          /\ \A e \in Vdis : vdi[e].idTags \subseteq {vdi[e].owner}
      BY <1>2 DEF Coherent
    <3>2. /\ vdi' \in [Vdis -> VDIRecord]
          /\ \A e \in Vdis : /\ vdi'[e].owner = vdi[e].owner /\ vdi'[e].label = vdi[e].label
                             /\ vdi'[e].idTags = vdi[e].idTags
                             /\ vdi[e].state # "unused" => vdi'[e].state # "unused"
      BY <1>3, <2>2, <3>1 DEF DestroyVDI, VDIRecord
    <3>3. /\ vbd' \in [Vbds -> VBDRecord]
          /\ \A b \in Vbds : /\ vbd[b].plug = "unused" <=> vbd'[b].plug = "unused"
                             /\ vbd'[b].vm = vbd[b].vm /\ vbd'[b].vdi = vbd[b].vdi
      BY <2>2, <3>1 DEF DestroyVDI, VBDRecord, VbdsOf, Exists
    <3> QED BY <1>2, <3>1, <3>2, <3>3, StoreStep
  <2> QED BY <2>1, <2>2 DEF DeleteVDI
<1>6. CallsGood' /\ COTypeOK'
  <2>1. CASE Reject(c) \/ Succeed(c)  BY <1>2, <1>3, <1>5, <2>1, RejectStep, SucceedStep
  <2>2. CASE Goto(c, "destroyed") /\ UNCHANGED CO
    <3>1. "destroyed" \in PC /\ "destroyed" \notin NeedsVM \cup NeedsVbd
      BY DEF PC, NeedsVM, NeedsVbd
    <3> QED BY <1>2, <1>3, <1>5, <2>2, <3>1, GotoStep
  <2> QED BY <1>4, <2>1, <2>2
<1> QED BY <1>4, <1>5, <1>6 DEF IInv

\* A migration ends, and the call that waits for it takes the new disk.
LEMMA FinishMigrationKeeps ==
  ASSUME IInv, NEW d \in Vdis, NEW n \in Vdis, FinishMigration(d, n)
  PROVE  IInv'
<1>1. Coherent(vdi, vbd) /\ CallsGood /\ COTypeOK  BY DEF IInv
<1>2. MigrationDone(d, n) /\ UNCHANGED CO  BY DEF FinishMigration
<1>3. /\ Coherent(vdi', vbd') /\ Extends(vdi, vbd, vdi', vbd')
      /\ vdi'[n].state = "live" /\ vdi'[n].owner = vdi[d].owner
  BY <1>1, <1>2, MigrationStep
<1>4. ASSUME NEW c \in Calls PROVE Good(call'[c], vdi', vbd') /\ call'[c] \in CallRecord
  <2>1. Good(call[c], vdi, vbd) /\ call[c] \in CallRecord  BY <1>1 DEF CallsGood
  <2>2. Good(call[c], vdi', vbd')  BY <1>3, <2>1, GoodExtends
  <2>3. CASE ~Awaits(c, d)  BY <2>1, <2>2, <2>3 DEF FinishMigration
  <2>4. CASE Awaits(c, d)
    <3> DEFINE k == [call[c] EXCEPT !.pc = "copyTags", !.vdi = n]
    <3>1. call'[c] = k  BY <2>4 DEF FinishMigration
    <3>2. call[c].vdi = d /\ call[c].pc \in NeedsVdi
      BY <2>4 DEF Awaits, At, NeedsVdi, PC
    <3>3. vdi[d].owner = call[c].vol /\ call[c].pc # "idle"  BY <1>1, <3>2, HeldVdi
    <3>4. "copyTags" \in PC /\ "copyTags" \notin NeedsVbd \cup NeedsVM
      BY DEF PC, NeedsVbd, NeedsVM
    <3>5. k \in CallRecord  BY <2>1, <3>4 DEF CallRecord
    <3>6. /\ k.op = call[c].op /\ k.vol = call[c].vol /\ k.vm = call[c].vm /\ k.vdi = n
          /\ k.tags = call[c].tags /\ k.vbd = call[c].vbd /\ k.pc = "copyTags"
      BY <2>1 DEF CallRecord
    <3> HIDE DEF k
    <3>7. Good(k, vdi', vbd')  BY <1>3, <2>2, <3>3, <3>4, <3>5, <3>6 DEF Good
    <3> QED BY <3>1, <3>5, <3>7
  <2> QED BY <2>3, <2>4
<1>5. CallsGood'  BY <1>4 DEF CallsGood, FinishMigration
<1>6. COTypeOK' /\ host' \in [VMs -> Hosts]
  BY <1>1, <1>2 DEF CO, COTypeOK, MigrationDone, IInv
<1> QED BY <1>3, <1>5, <1>6 DEF IInv

\* A migration fails, and the call that waits for it ends.
LEMMA FailMigrationKeeps ==
  ASSUME IInv, NEW d \in Vdis, FailMigration(d)
  PROVE  IInv'
<1>1. Coherent(vdi, vbd) /\ CallsGood /\ COTypeOK  BY DEF IInv
<1>2. /\ vdi' = [vdi EXCEPT ![d].to = None] /\ vbd' = vbd /\ host' = host /\ UNCHANGED CO
  BY DEF FailMigration, MigrationFails
<1>3. Coherent(vdi', vbd') /\ Extends(vdi, vbd, vdi', vbd')
  <2> DEFINE r == [vdi[d] EXCEPT !.to = None]
  <2>1. vdi[d] \in VDIRecord /\ vdi[d].idTags \subseteq {vdi[d].owner}  BY <1>1 DEF Coherent
  <2>2. /\ r \in VDIRecord /\ r.owner = vdi[d].owner /\ r.label = vdi[d].label
        /\ r.idTags = vdi[d].idTags /\ r.state = vdi[d].state
    BY <2>1 DEF VDIRecord
  <2>3. vdi' = [vdi EXCEPT ![d] = r]  BY <1>2
  <2> HIDE DEF r
  <2> QED BY <1>1, <1>2, <2>1, <2>2, <2>3, FieldStep
<1>4. ASSUME NEW c \in Calls PROVE Good(call'[c], vdi', vbd') /\ call'[c] \in CallRecord
  <2>1. Good(call[c], vdi, vbd)  BY <1>1 DEF CallsGood
  <2>2. Good(call[c], vdi', vbd')  BY <1>3, <2>1, GoodExtends
  <2>3. call'[c] = Idle \/ call'[c] = call[c]  BY DEF FailMigration
  <2>4. Good(call'[c], vdi', vbd')  BY <2>2, <2>3, IdleGood
  <2> QED BY <2>4 DEF Good
<1>5. CallsGood'  BY <1>4 DEF CallsGood, FailMigration
<1> QED BY <1>1, <1>2, <1>3, <1>5 DEF IInv, CO, COTypeOK

\* The process dies.
LEMMA CrashKeeps ==
  ASSUME IInv, Crash
  PROVE  IInv'
<1>1. UNCHANGED store /\ UNCHANGED CO  BY DEF Crash
<1>2. \A c \in Calls : call'[c] = Idle /\ Good(Idle, vdi', vbd')  BY IdleGood DEF Crash
<1>3. CallsGood'  BY <1>2 DEF CallsGood, Crash, Good
<1>4. COTypeOK'  BY <1>1 DEF IInv, CO, COTypeOK
<1> QED BY <1>1, <1>3, <1>4, ReadOnly DEF IInv

-----------------------------------------------------------------------------
(* The inductive invariant, and what follows from it. *)

\* A handler keeps the invariant.
LEMMA HandleKeeps ==
  ASSUME IInv, NEW c \in Calls, Handle(c)
  PROVE  IInv'
BY LookupKeeps, TagsKeep, DiskWritesKeep, PublishReadsKeep, VbdReadsKeep, WaitsKeep,
   VbdWritesKeep, CreateVBDKeeps, DeleteVDIKeeps DEF Handle

\* Initially each volume's disk, and no other, is tagged with it.
LEMMA InitIInv == Init => IInv
<1> SUFFICES ASSUME Init PROVE IInv
  OBVIOUS
<1>1. ASSUME NEW d \in Vdis
      PROVE  \/ \E v \in Volumes : HomeVdi[v] = d /\ vdi[d] = InitialVDI(v)
             \/ (\A v \in Volumes : HomeVdi[v] # d) /\ vdi[d] = UnusedVDI
  BY DEF Init
<1>2. \A v \in Volumes : HomeVdi[v] \in Vdis /\ vdi[HomeVdi[v]] = InitialVDI(v)
  BY <1>1, VolumeAssumption
<1>3. ASSUME NEW v \in Volumes
      PROVE  /\ InitialVDI(v) \in VDIRecord /\ InitialVDI(v).state = "live"
             /\ InitialVDI(v).owner = v /\ InitialVDI(v).idTags \subseteq {v}
             /\ InitialVDI(v).label \in {None, v}
  <2>1. HomeSR[v] \in SRs /\ (v \notin Static /\ ClusterTag) \in BOOLEAN  BY VolumeAssumption
  <2> QED BY <2>1 DEF InitialVDI, UnusedVDI, VDIRecord, DynamicTags, DynamicLabel
<1>4. UnusedVDI \in VDIRecord /\ UnusedVDI.idTags = {} /\ UnusedVDI.label = None
  BY DEF UnusedVDI, VDIRecord
<1>5. UnusedVBD \in VBDRecord /\ UnusedVBD.plug = "unused"  BY DEF UnusedVBD, VBDRecord
<1>6. \A d \in Vdis : /\ vdi[d] \in VDIRecord /\ vdi[d].idTags \subseteq {vdi[d].owner}
                      /\ vdi[d].label \in {None, vdi[d].owner}
  BY <1>1, <1>3, <1>4
<1>7. vdi \in [Vdis -> VDIRecord]  BY <1>6 DEF Init
<1>8. vbd \in [Vbds -> VBDRecord] /\ \A b \in Vbds : vbd[b].plug = "unused"  BY <1>5 DEF Init
<1>9. \A v \in Volumes : vdi[HomeVdi[v]].state # "unused" /\ vdi[HomeVdi[v]].owner = v
  BY <1>2, <1>3
<1>10. Coherent(vdi, vbd)  BY <1>6, <1>7, <1>8, <1>9 DEF Coherent
<1>11. CallsGood  BY IdleGood DEF Init, CallsGood, Good
<1>12. COTypeOK  BY DEF Init, COTypeOK
<1>13. host \in [VMs -> Hosts]  BY VolumeAssumption DEF Init
<1> QED BY <1>10, <1>11, <1>12, <1>13 DEF IInv

\* Every step keeps the invariant.
LEMMA NextIInv == IInv /\ [Next]_vars => IInv'
<1> SUFFICES ASSUME IInv, [Next]_vars PROVE IInv'
  OBVIOUS
<1>1. CASE UNCHANGED vars
  <2>1. UNCHANGED store /\ UNCHANGED <<call, CO>>  BY <1>1 DEF vars, store, CO
  <2>2. UNCHANGED <<vdi, vbd>>  BY <2>1 DEF store
  <2> QED BY <2>1, <2>2, ReadOnly DEF IInv, CallsGood, CO, COTypeOK
<1>2. CASE XONext /\ UNCHANGED <<call, CO>>
  <2>1. /\ Coherent(vdi', vbd') /\ Extends(vdi, vbd, vdi', vbd') /\ host' \in [VMs -> Hosts]
    BY <1>2, XOStep DEF IInv
  <2>2. CallsGood'  BY <1>2, <2>1, GoodExtends DEF IInv, CallsGood
  <2> QED BY <1>2, <2>1, <2>2 DEF IInv, CO, COTypeOK
<1>3. CASE \E c \in Calls : Handle(c) \/ PollTimeout(c) \/ Interrupted(c) \/ TaskWaitFails(c)
  BY <1>3, HandleKeeps, WaitsKeep
<1>4. CASE \E c \in Calls, op \in Ops, v \in Volumes, m \in VMs \cup {None} :
             StartCall(c, op, v, m)
  BY <1>4, StartCallKeeps
<1> QED BY <1>1, <1>2, <1>3, <1>4, FinishMigrationKeeps, FailMigrationKeeps, CrashKeeps
        DEF Next

\* The invariant holds of every behaviour of the controller service.
THEOREM Invariance == Spec => []IInv
BY InitIInv, NextIInv, PTL DEF Spec

\* Every state of the controller service and of the store is well-typed,
\* whatever requests and tasks fail and however calls interleave.
THEOREM TypeCorrect == Spec => []TypeOK
<1>1. IInv => TypeOK
  BY DEF IInv, TypeOK, StoreTypeOK, Coherent, CallsGood, COTypeOK
<1> QED BY <1>1, Invariance, PTL

\* No disk ever carries the k8s:volumeId tag of a volume whose data it does not
\* hold: neither the tag recovery of a lookup nor the copy of tags after a
\* migration, both of which write from a stale record, misplaces one.
THEOREM TagsStayTruthful == Spec => []TagsTruthful
<1>1. IInv => TagsTruthful  BY DEF IInv, Coherent, TagsTruthful
<1> QED BY <1>1, Invariance, PTL

\* No call ever works on the disk of another volume or on the VBD of another VM.
THEOREM CallsUseTheirOwnDisk == Spec => []OwnDisk
<1>1. IInv => OwnDisk  BY DEF IInv, CallsGood, Good, OwnDisk
<1> QED BY <1>1, Invariance, PTL
=============================================================================
