----------------------------- MODULE DiskProofs -----------------------------
(***************************************************************************)
(* What happens to the disk of a volume over its migrations, whatever the  *)
(* CO asks for and in whatever order: there is one until a deletion that   *)
(* was asked for destroys it, and it can be found until then.              *)
(*                                                                         *)
(* The invariant has a part for the store, split by what it speaks of, and *)
(* Located for a call: which operation it serves, that a deletion was asked *)
(* for, that it knows the SR of its disk, and that what it is about to     *)
(* migrate may be migrated.                                                *)
(***************************************************************************)
EXTENDS AttachmentProofs

\* A disk that is never moved off its host's local SR needs a host with one:
\* FindLocalSRForHost takes the first it is given (xoclient.go:343-353).
OneLocalSR ==
  \A s, t \in SRs : LocalHost[s] = LocalHost[t] /\ LocalHost[s] # None => s = t

\* One disk holds the data of a volume; it is there unless the deletion of the
\* volume was asked for, answered or not.
OneLive ==
  \A d, e \in Vdis : Live(d) /\ Live(e) /\ vdi[d].owner = vdi[e].owner => d = e
Kept == \A v \in Volumes \ doomed : \E d \in Vdis : Live(d) /\ vdi[d].owner = v

\* It carries the name that CreateVolume gave it.
Labelled ==
  \A d \in Vdis : vdi[d].state # "unused" /\ vdi[d].owner \notin Static =>
    vdi[d].label = vdi[d].owner

\* Every disk is on an SR.
OnSR == \A d \in Vdis : vdi[d].state # "unused" => vdi[d].sr \in SRs

\* Only disks of local volumes are migrated, and to another local SR.
HomeStays ==
  \A v \in Volumes \ Local, d \in Vdis : vdi[d].owner = v => d = HomeVdi[v]
MovesLocal ==
  \A d \in Vdis : vdi[d].to # None =>
    vdi[d].owner \in Local /\ LocalHost[vdi[d].to] # None /\ vdi[d].to # vdi[d].sr

\* A VBD is one of a live disk, which its VM reaches while it is plugged.
Placed(b) ==
  /\ vbd[b].vm \in VMs /\ Live(vbd[b].vdi) /\ vdi[vbd[b].vdi].owner \in Volumes
  /\ vdi[vbd[b].vdi].owner \in Local => LocalHost[vdi[vbd[b].vdi].sr] # None
  /\ Attached(b) => Reaches(vdi[vbd[b].vdi].sr, host[vbd[b].vm])
VbdsPlaced == \A b \in Vbds : Exists(b) => Placed(b)

DisksOK == OneLive /\ Labelled /\ OnSR /\ HomeStays /\ MovesLocal /\ VbdsPlaced

Publishing ==
  {"adopt", "getVM", "findSR", "migrate", "migrating", "copyTags", "refetch", "checkSR",
   "checkVbds", "connect", "connecting", "getVbd", "create", "poll"}
Migrating == {"findSR", "migrate", "migrating", "copyTags", "refetch"}
KnowsSR == {"recover", "adopt", "getVM", "findSR", "migrate", "checkSR", "checkVbds", "create"}
OnLocalSR == {"copyTags", "refetch", "checkSR", "checkVbds", "create"}

Located(k, D, A) ==
  /\ k.pc # "idle" /\ k.op = "delete" => k.vol \in A
  /\ k.pc \in Publishing => k.op = "publish"
  /\ k.pc \in {"findVbd", "disconnect", "disconnecting"} => k.op = "unpublish"
  /\ k.pc \in {"checkUnused", "destroy", "destroyed"} => k.op = "delete"
  /\ k.pc \in Migrating => k.vol \in Local
  /\ k.pc \in KnowsSR => k.sr = D[k.vdi].sr
  /\ k.pc = "findSR" => k.host \in Hosts
  /\ k.pc = "migrate" => k.to \in SRs /\ LocalHost[k.to] # None /\ k.to # k.sr
  /\ k.pc \in OnLocalSR /\ k.vol \in Local => LocalHost[D[k.vdi].sr] # None

CallsLocated == \A c \in Calls : Located(call[c], vdi, doomed)

DiskInv == IInv /\ DisksOK /\ Kept /\ CallsLocated

\* No step takes a request to delete back, or gives a disk another SR.
DoomedKept == doomed \subseteq doomed'
Lasting == DoomedKept /\ \A d \in Vdis : vdi[d].state # "unused" => vdi'[d].sr = vdi[d].sr

-----------------------------------------------------------------------------
(* How the store stays as it should be. *)

\* Where a VBD that exists refers to.
LEMMA VbdRefers ==
  ASSUME Coherent(vdi, vbd), NEW b \in Vbds, Exists(b)
  PROVE  vbd[b].vdi \in Vdis /\ vdi[vbd[b].vdi].state # "unused"
BY DEF Coherent, Exists

\* What is said of a disk changes: its tags, or where it is to be moved.
LEMMA DisksSame ==
  ASSUME IInv, DisksOK, Kept, vbd' = vbd, host' = host, DoomedKept, MovesLocal',
         \A d \in Vdis : /\ vdi'[d].state = vdi[d].state /\ vdi'[d].sr = vdi[d].sr
                         /\ vdi'[d].owner = vdi[d].owner /\ vdi'[d].label = vdi[d].label
  PROVE  DisksOK' /\ Kept' /\ Lasting
<1>1. OneLive'  BY DEF DisksOK, OneLive, Live
<1>2. Labelled' /\ OnSR'  BY DEF DisksOK, Labelled, OnSR
<1>3. HomeStays'  BY DEF DisksOK, HomeStays
<1>4. ASSUME NEW b \in Vbds, Exists(b)' PROVE Placed(b)'
  <2>1. Exists(b)  BY <1>4 DEF Exists
  <2>2. Placed(b)  BY <2>1 DEF DisksOK, VbdsPlaced
  <2>3. vbd[b].vdi \in Vdis  BY <2>1, VbdRefers DEF IInv
  <2> QED BY <2>2, <2>3 DEF Placed, Live, Attached, Reaches
<1>5. VbdsPlaced'  BY <1>4 DEF VbdsPlaced
<1>6. Kept'  BY DEF Kept, Live, DoomedKept
<1> QED BY <1>1, <1>2, <1>3, <1>5, <1>6 DEF DisksOK, Lasting

\* VBDs change, but none moves, and only one that its VM reaches gets plugged.
LEMMA VbdsSame ==
  ASSUME IInv, DisksOK, Kept, vdi' = vdi, host' = host, DoomedKept,
         \A b \in Vbds : Exists(b)' =>
           /\ Exists(b) /\ vbd'[b].vm = vbd[b].vm /\ vbd'[b].vdi = vbd[b].vdi
           /\ Attached(b)' => Attached(b) \/ Reaches(vdi[vbd[b].vdi].sr, host[vbd[b].vm])
  PROVE  DisksOK' /\ Kept' /\ Lasting
<1>1. OneLive' /\ Labelled' /\ OnSR' /\ HomeStays' /\ MovesLocal'
  BY DEF DisksOK, OneLive, Labelled, OnSR, HomeStays, MovesLocal, Live
<1>2. ASSUME NEW b \in Vbds, Exists(b)' PROVE Placed(b)'
  <2>1. Exists(b) /\ Placed(b)  BY <1>2 DEF DisksOK, VbdsPlaced
  <2> QED BY <1>2, <2>1 DEF Placed, Live, Reaches
<1>3. VbdsPlaced'  BY <1>2 DEF VbdsPlaced
<1>4. Kept'  BY DEF Kept, Live, DoomedKept
<1> QED BY <1>1, <1>3, <1>4 DEF DisksOK, Lasting

\* A step that only reads.
LEMMA StoreSame ==
  ASSUME IInv, DisksOK, Kept, UNCHANGED store, DoomedKept
  PROVE  DisksOK' /\ Kept' /\ Lasting
BY VbdsSame DEF store, Exists, Attached

\* A VM moves to a host that reaches its disks.
LEMMA HostStep ==
  ASSUME IInv, DisksOK, Kept, DoomedKept, NEW m \in VMs, NEW h \in Hosts, LiveMigrateVM(m, h)
  PROVE  DisksOK' /\ Kept' /\ Lasting
<1>1. vdi' = vdi /\ vbd' = vbd  BY DEF LiveMigrateVM
<1>2. OneLive' /\ Labelled' /\ OnSR' /\ HomeStays' /\ MovesLocal'
  BY <1>1 DEF DisksOK, OneLive, Labelled, OnSR, HomeStays, MovesLocal, Live
<1>3. ASSUME NEW b \in Vbds, Exists(b)' PROVE Placed(b)'
  <2>1. Exists(b) /\ Placed(b)  BY <1>1, <1>3 DEF DisksOK, VbdsPlaced, Exists
  <2>2. Attached(b) => Reaches(vdi[vbd[b].vdi].sr, host'[vbd[b].vm])
    BY <2>1 DEF LiveMigrateVM, Placed, IInv
  <2> QED BY <1>1, <2>1, <2>2 DEF Placed, Live, Attached, Reaches
<1>4. VbdsPlaced'  BY <1>3 DEF VbdsPlaced
<1>5. Kept'  BY <1>1 DEF Kept, Live, DoomedKept
<1> QED BY <1>1, <1>2, <1>4, <1>5 DEF DisksOK, Lasting

\* A VBD is made for a live disk, on a local SR if the volume is local.
LEMMA CreateStep ==
  ASSUME IInv, DisksOK, Kept, DoomedKept, UNCHANGED <<vdi, host>>,
         NEW b \in Vbds, NEW d \in Vdis, NEW m \in VMs, CreateVBDOn(b, d, m), Live(d),
         vdi[d].owner \in Volumes, vdi[d].owner \in Local => LocalHost[vdi[d].sr] # None
  PROVE  DisksOK' /\ Kept' /\ Lasting
<1>1. OneLive' /\ Labelled' /\ OnSR' /\ HomeStays' /\ MovesLocal'
  BY DEF DisksOK, OneLive, Labelled, OnSR, HomeStays, MovesLocal, Live
<1>2. vbd'[b] = [plug |-> "plugging", vdi |-> d, vm |-> m, named |-> FALSE]
  BY DEF CreateVBDOn, IInv, Coherent
<1>3. ASSUME NEW a \in Vbds, Exists(a)' PROVE Placed(a)'
  <2>1. CASE a = b
    <3>1. vbd'[a].vdi = d /\ vbd'[a].vm = m /\ vbd'[a].plug = "plugging"  BY <1>2, <2>1
    <3> QED BY <3>1 DEF Placed, Live, Attached
  <2>2. CASE a # b
    <3>1. vbd'[a] = vbd[a]  BY <2>2 DEF CreateVBDOn, IInv, Coherent
    <3>2. Exists(a) /\ Placed(a)  BY <1>3, <3>1 DEF DisksOK, VbdsPlaced, Exists
    <3> QED BY <3>1, <3>2 DEF Placed, Live, Attached, Reaches
  <2> QED BY <2>1, <2>2
<1>4. VbdsPlaced'  BY <1>3 DEF VbdsPlaced
<1>5. Kept'  BY DEF Kept, Live, DoomedKept
<1> QED BY <1>1, <1>4, <1>5 DEF DisksOK, Lasting

\* A disk is destroyed with its VBDs, as the CO asked.
LEMMA DestroyStep ==
  ASSUME IInv, DisksOK, Kept, UNCHANGED host, NEW d \in Vdis, Live(d), DestroyVDI(d),
         DoomedKept, vdi[d].owner \in doomed
  PROVE  DisksOK' /\ Kept' /\ Lasting
<1>1. \A e \in Vdis : /\ vdi'[e].sr = vdi[e].sr /\ vdi'[e].owner = vdi[e].owner
                      /\ vdi'[e].label = vdi[e].label /\ vdi'[e].to = vdi[e].to
                      /\ vdi'[e].state = IF e = d THEN "gone" ELSE vdi[e].state
  BY DEF DestroyVDI, IInv, Coherent, VDIRecord
<1>2. OneLive'  BY <1>1 DEF DisksOK, OneLive, Live
<1>3. Labelled' /\ OnSR'  BY <1>1 DEF DisksOK, Labelled, OnSR, Live
<1>4. HomeStays' /\ MovesLocal'  BY <1>1 DEF DisksOK, HomeStays, MovesLocal
<1>5. ASSUME NEW b \in Vbds, Exists(b)' PROVE Placed(b)'
  <2>1. b \notin VbdsOf(d)
    BY <1>5 DEF DestroyVDI, VbdsOf, Exists, IInv, Coherent, VBDRecord
  <2>2. vbd'[b] = vbd[b]  BY <2>1 DEF DestroyVDI
  <2>3. Exists(b)  BY <1>5, <2>2 DEF Exists
  <2>4. Placed(b) /\ vbd[b].vdi # d  BY <2>1, <2>3 DEF DisksOK, VbdsPlaced, VbdsOf
  <2>5. vbd[b].vdi \in Vdis  BY <2>3, VbdRefers DEF IInv
  <2> QED BY <1>1, <2>2, <2>4, <2>5 DEF Placed, Live, Attached, Reaches
<1>6. VbdsPlaced'  BY <1>5 DEF VbdsPlaced
<1>7. Kept'  BY <1>1 DEF Kept, Live, DoomedKept
<1> QED BY <1>1, <1>2, <1>3, <1>4, <1>6, <1>7 DEF DisksOK, Lasting

\* A migration ends: the disk is on the SR it was to be moved to, under a new UUID.
LEMMA MovedStep ==
  ASSUME IInv, DisksOK, Kept, DoomedKept, NEW d \in Vdis, NEW n \in Vdis, MigrationDone(d, n)
  PROVE  /\ DisksOK' /\ Kept' /\ Lasting
         /\ vdi[d].owner \in Local /\ LocalHost[vdi'[n].sr] # None
<1>1. /\ vdi \in [Vdis -> VDIRecord] /\ vdi[d].state = "live" /\ vdi[n].state = "unused"
      /\ vdi[d].to # None /\ n # d
  BY DEF MigrationDone, Live, IInv, Coherent
<1>2. /\ vdi'[n].state = "live" /\ vdi'[n].sr = vdi[d].to /\ vdi'[n].owner = vdi[d].owner
      /\ vdi'[n].label = vdi[d].label /\ vdi'[n].to = None
  BY <1>1 DEF MigrationDone, UnusedVDI
<1>3. /\ vdi'[d].state = "gone" /\ vdi'[d].sr = vdi[d].sr /\ vdi'[d].owner = vdi[d].owner
      /\ vdi'[d].label = vdi[d].label /\ vdi'[d].to = None
  BY <1>1 DEF MigrationDone, VDIRecord
<1>4. \A e \in Vdis \ {d, n} : vdi'[e] = vdi[e]  BY <1>1 DEF MigrationDone
<1>5. vdi[d].owner \in Local /\ LocalHost[vdi[d].to] # None  BY <1>1 DEF DisksOK, MovesLocal
<1>6. OneLive'
  <2> SUFFICES ASSUME NEW e \in Vdis, NEW f \in Vdis, vdi'[e].state = "live",
                      vdi'[f].state = "live", vdi'[e].owner = vdi'[f].owner
               PROVE  e = f
    BY DEF OneLive, Live
  <2>1. e # d /\ f # d  BY <1>3
  <2>2. ASSUME NEW x \in Vdis \ {d, n}, vdi'[x].state = "live" PROVE vdi'[x].owner # vdi[d].owner
    BY <1>1, <1>4, <2>2 DEF DisksOK, OneLive, Live
  <2>3. CASE e = n \/ f = n  BY <1>2, <2>1, <2>2, <2>3
  <2>4. CASE e # n /\ f # n  BY <1>4, <2>1, <2>4 DEF DisksOK, OneLive, Live
  <2> QED BY <2>3, <2>4
<1>7. Labelled' /\ OnSR'
  <2>1. vdi[d].to \in SRs  BY <1>1 DEF VDIRecord
  <2> QED BY <1>1, <1>2, <1>3, <1>4, <2>1 DEF DisksOK, Labelled, OnSR
<1>8. HomeStays'  BY <1>2, <1>3, <1>4, <1>5 DEF DisksOK, HomeStays
<1>9. MovesLocal'  BY <1>2, <1>3, <1>4 DEF DisksOK, MovesLocal
<1>10. ASSUME NEW b \in Vbds, Exists(b)' PROVE Placed(b)'
  <2>1. vbd \in [Vbds -> VBDRecord]  BY DEF IInv, Coherent
  <2>2. CASE b \in VbdsOf(d)
    <3>1. /\ vbd'[b].vdi = n /\ vbd'[b].vm = vbd[b].vm /\ vbd'[b].plug = vbd[b].plug
      BY <2>1, <2>2 DEF MigrationDone, VBDRecord
    <3>2. Placed(b) /\ vbd[b].vdi = d  BY <2>2 DEF DisksOK, VbdsPlaced, VbdsOf
    <3>3. Attached(b) => Reaches(vdi[d].to, host[vbd[b].vm])  BY <2>2 DEF MigrationDone
    <3>4. host' = host  BY DEF MigrationDone
    <3> QED BY <1>2, <1>5, <3>1, <3>2, <3>3, <3>4 DEF Placed, Live, Attached, Reaches
  <2>3. CASE b \notin VbdsOf(d)
    <3>1. vbd'[b] = vbd[b] /\ host' = host  BY <2>3 DEF MigrationDone
    <3>2. Exists(b) /\ Placed(b) /\ vbd[b].vdi \in Vdis /\ vbd[b].vdi # d
      BY <1>10, <2>3, <3>1, VbdRefers DEF DisksOK, VbdsPlaced, VbdsOf, Exists, IInv
    <3>3. vdi[vbd[b].vdi].state = "live"  BY <3>2 DEF Placed, Live
    <3>4. vdi'[vbd[b].vdi] = vdi[vbd[b].vdi]  BY <1>1, <1>4, <3>2, <3>3
    <3> QED BY <3>1, <3>2, <3>4 DEF Placed, Live, Attached, Reaches
  <2> QED BY <2>2, <2>3
<1>11. VbdsPlaced'  BY <1>10 DEF VbdsPlaced
<1>12. Kept'
  <2> SUFFICES ASSUME NEW v \in Volumes, v \notin doomed'
               PROVE  \E e \in Vdis : vdi'[e].state = "live" /\ vdi'[e].owner = v
    BY DEF Kept, Live
  <2>1. PICK e \in Vdis : vdi[e].state = "live" /\ vdi[e].owner = v
    BY DEF Kept, Live, DoomedKept
  <2>2. CASE e = d  BY <1>2, <2>1, <2>2
  <2>3. CASE e # d  BY <1>1, <1>4, <2>1, <2>3
  <2> QED BY <2>2, <2>3
<1>13. Lasting  BY <1>1, <1>3, <1>4 DEF Lasting
<1> QED BY <1>2, <1>5, <1>6, <1>7, <1>8, <1>9, <1>11, <1>12, <1>13 DEF DisksOK

\* The end of a task on a VBD, or the erasure of tags, or a VM that moves.
LEMMA XOKeepsDisks ==
  ASSUME IInv, DisksOK, Kept, XONext, DoomedKept
  PROVE  DisksOK' /\ Kept' /\ Lasting
<1>1. vbd \in [Vbds -> VBDRecord] /\ vdi \in [Vdis -> VDIRecord]  BY DEF IInv, Coherent
<1>2. ASSUME NEW b \in Vbds,
             PlugDone(b) \/ PlugFails(b) \/ DeviceNamed(b) \/ UnplugDone(b) \/ UnplugFails(b)
      PROVE  DisksOK' /\ Kept' /\ Lasting
  <2>1. /\ UNCHANGED <<vdi, host>> /\ \A x \in Vbds \ {b} : vbd'[x] = vbd[x]
        /\ Exists(b) /\ vbd'[b].vm = vbd[b].vm /\ vbd'[b].vdi = vbd[b].vdi
        /\ Attached(b)' => Attached(b) \/ Reaches(vdi[vbd[b].vdi].sr, host[vbd[b].vm])
    <3>1. CASE PlugDone(b)  BY <1>1, <3>1 DEF PlugDone, Exists, Attached, VBDRecord
    <3>2. CASE PlugFails(b)  BY <1>1, <3>2 DEF PlugFails, Exists, Attached, VBDRecord
    <3>3. CASE DeviceNamed(b)  BY <1>1, <3>3 DEF DeviceNamed, Exists, Attached, VBDRecord
    <3>4. CASE UnplugDone(b)  BY <1>1, <3>4 DEF UnplugDone, Exists, Attached, VBDRecord
    <3>5. CASE UnplugFails(b)  BY <1>1, <3>5 DEF UnplugFails, Exists, Attached, VBDRecord
    <3> QED BY <1>2, <3>1, <3>2, <3>3, <3>4, <3>5
  <2>2. \A x \in Vbds : Exists(x)' =>
          /\ Exists(x) /\ vbd'[x].vm = vbd[x].vm /\ vbd'[x].vdi = vbd[x].vdi
          /\ Attached(x)' => Attached(x) \/ Reaches(vdi[vbd[x].vdi].sr, host[vbd[x].vm])
    BY <2>1 DEF Exists, Attached
  <2> QED BY <2>1, <2>2, VbdsSame
<1>3. ASSUME NEW d \in Vdis, EraseTags(d) PROVE DisksOK' /\ Kept' /\ Lasting
  <2>1. /\ vbd' = vbd /\ host' = host
        /\ \A e \in Vdis : /\ vdi'[e].state = vdi[e].state /\ vdi'[e].sr = vdi[e].sr
                           /\ vdi'[e].owner = vdi[e].owner /\ vdi'[e].label = vdi[e].label
                           /\ vdi'[e].to = vdi[e].to
    BY <1>1, <1>3 DEF EraseTags, VDIRecord
  <2>2. MovesLocal'  BY <2>1 DEF DisksOK, MovesLocal
  <2> QED BY <2>1, <2>2, DisksSame
<1> QED BY <1>2, <1>3, HostStep DEF XONext

-----------------------------------------------------------------------------
(* What a call knows of its disk stays right. *)

Held(k) == k.pc \in NeedsVdi => k.vdi \in Vdis /\ vdi[k.vdi].state # "unused"

\* The SR of a disk does not change, so that a call that knows it still does.
LEMMA LocatedStays ==
  ASSUME NEW k, Located(k, vdi, doomed), Held(k), Lasting PROVE Located(k, vdi', doomed')
<1>1. k.pc \in KnowsSR \cup OnLocalSR => vdi'[k.vdi].sr = vdi[k.vdi].sr
  BY DEF Held, Lasting, KnowsSR, OnLocalSR, NeedsVdi, PC
<1> QED BY <1>1 DEF Located, Lasting, DoomedKept

\* What the disk invariant says of one call.
LEMMA HeldByCall ==
  ASSUME IInv, NEW c \in Calls PROVE Held(call[c]) /\ call[c] \in CallRecord
BY NoneAssumption DEF IInv, CallsGood, Good, Held

\* One call steps, and knows what it has to know where it is then.
LEMMA OneLocated ==
  ASSUME IInv, CallsLocated, Lasting, NEW c \in Calls, NEW k, Located(k, vdi, doomed), Held(k),
         call' = [call EXCEPT ![c] = k]
  PROVE  CallsLocated'
<1> SUFFICES ASSUME NEW e \in Calls PROVE Located(call'[e], vdi', doomed')
  BY DEF CallsLocated
<1>1. CASE e = c
  <2>1. call'[e] = k  BY <1>1 DEF IInv, CallsGood
  <2> QED BY <2>1, LocatedStays
<1>2. CASE e # c
  <2>1. call'[e] = call[e] /\ Located(call[e], vdi, doomed) /\ Held(call[e])
    BY <1>2, HeldByCall DEF IInv, CallsGood, CallsLocated
  <2> QED BY <2>1, LocatedStays
<1> QED BY <1>1, <1>2

\* A slot without a call knows nothing and has to know nothing.
LEMMA IdleLocated == Located(Idle, vdi, doomed) /\ Held(Idle)
BY DEF Located, Held, Idle, Publishing, Migrating, KnowsSR, OnLocalSR, NeedsVdi, PC

\* A call that ends is located nowhere.
LEMMA EndsLocated ==
  ASSUME IInv, CallsLocated, Lasting, NEW c \in Calls, Reject(c) \/ Succeed(c)
  PROVE  CallsLocated'
<1>1. call' = [call EXCEPT ![c] = Idle]  BY DEF Reject, Succeed
<1> QED BY <1>1, IdleLocated, OneLocated

\* The handler goes on where it needs no more than it knows.
LEMMA GotoLocated ==
  ASSUME IInv, CallsLocated, Lasting, NEW c \in Calls, call[c].pc \in NeedsVdi,
         NEW pc \in PC, Goto(c, pc),
         pc \in Publishing => call[c].op = "publish",
         pc \in {"findVbd", "disconnect", "disconnecting"} => call[c].op = "unpublish",
         pc \in {"checkUnused", "destroy", "destroyed"} => call[c].op = "delete",
         pc \in Migrating => call[c].pc \in Migrating,
         pc \in KnowsSR => call[c].pc \in KnowsSR,
         pc \in OnLocalSR => call[c].pc \in OnLocalSR, pc \notin {"findSR", "migrate"}
  PROVE  CallsLocated'
<1> DEFINE k == [call[c] EXCEPT !.pc = pc]
<1>1. Held(call[c]) /\ call[c] \in CallRecord /\ Located(call[c], vdi, doomed)
  BY HeldByCall DEF CallsLocated
<1>2. k.pc = pc /\ \A f \in {"op", "vol", "vm", "vdi", "sr", "host", "to"} : k[f] = call[c][f]
  BY <1>1 DEF CallRecord
<1>3. call' = [call EXCEPT ![c] = k]  BY DEF Goto
<1> HIDE DEF k
<1>4. Located(k, vdi, doomed) /\ Held(k)  BY <1>1, <1>2 DEF Located, Held, NeedsVdi
<1> QED BY <1>3, <1>4, OneLocated

\* The handler goes on with a disk it has just read.
LEMMA KeepLocated ==
  ASSUME IInv, CallsLocated, Lasting, NEW c \in Calls, NEW d \in Vdis,
         call[c].pc # "idle", vdi[d].state # "unused", NEW pc \in PC, Keep(c, d, pc),
         pc \in Publishing => call[c].op = "publish",
         pc \in {"findVbd", "disconnect", "disconnecting"} => call[c].op = "unpublish",
         pc \in {"checkUnused", "destroy", "destroyed"} => call[c].op = "delete",
         pc \notin Migrating,
         pc \in OnLocalSR /\ call[c].vol \in Local => LocalHost[vdi[d].sr] # None
  PROVE  CallsLocated'
<1> DEFINE k == [call[c] EXCEPT !.pc = pc, !.vdi = d, !.sr = vdi[d].sr,
                                !.tags = vdi[d].idTags, !.adopted = vdi[d].cluster]
<1>1. call[c] \in CallRecord /\ Located(call[c], vdi, doomed)  BY HeldByCall DEF CallsLocated
<1>2. /\ k.pc = pc /\ k.vdi = d /\ k.sr = vdi[d].sr
      /\ k.op = call[c].op /\ k.vol = call[c].vol
  BY <1>1 DEF CallRecord
<1>3. call' = [call EXCEPT ![c] = k]  BY DEF Keep
<1> HIDE DEF k
<1>4. Located(k, vdi, doomed) /\ Held(k)  BY <1>1, <1>2 DEF Located, Held, Migrating
<1> QED BY <1>3, <1>4, OneLocated

\* The handler takes a VBD, at a point where it needs nothing else.
LEMMA TakeLocated ==
  ASSUME IInv, CallsLocated, Lasting, NEW c \in Calls, call[c].pc \in NeedsVdi,
         NEW b, NEW pc \in {"poll", "connect", "disconnect"},
         call' = [call EXCEPT ![c] = [call[c] EXCEPT !.pc = pc, !.vbd = b]],
         call[c].op = IF pc = "disconnect" THEN "unpublish" ELSE "publish"
  PROVE  CallsLocated'
<1> DEFINE k == [call[c] EXCEPT !.pc = pc, !.vbd = b]
<1>1. Held(call[c]) /\ call[c] \in CallRecord  BY HeldByCall
<1>2. /\ k.pc = pc /\ k.op = call[c].op /\ k.vol = call[c].vol /\ k.vdi = call[c].vdi
  BY <1>1 DEF CallRecord
<1> HIDE DEF k
<1>3. Located(k, vdi, doomed) /\ Held(k)
  BY <1>1, <1>2 DEF Located, Held, Migrating, KnowsSR, OnLocalSR, Publishing
<1>4. call' = [call EXCEPT ![c] = k]  BY DEF k
<1> QED BY <1>3, <1>4, OneLocated

-----------------------------------------------------------------------------
(* The steps of the system. *)

\* What a step has to show.
Steady == DisksOK' /\ Kept' /\ Lasting

\* What only reads leaves the disks as they are.
LEMMA ReadSteady ==
  ASSUME DiskInv, UNCHANGED store, DoomedKept PROVE Steady /\ UNCHANGED <<vdi, vbd, host>>
BY StoreSame DEF DiskInv, Steady, store

\* Nothing that a handler does takes a request to delete back.
LEMMA RequestsStay ==
  ASSUME NEW c \in Calls, Reject(c) \/ Succeed(c) \/ UNCHANGED CO PROVE DoomedKept
BY DEF Reject, Succeed, CO, DoomedKept

\* A call starts with nothing.
LEMMA StartLocated ==
  ASSUME DiskInv, NEW c \in Calls, NEW op \in Ops, NEW v \in Volumes,
         NEW m \in VMs \cup {None}, StartCall(c, op, v, m)
  PROVE  Steady /\ CallsLocated'
<1>1. UNCHANGED store /\ DoomedKept  BY DEF StartCall, store, DoomedKept
<1>2. Steady  BY <1>1, ReadSteady
<1> DEFINE k == [Idle EXCEPT !.op = op, !.pc = "byTag", !.vol = v, !.vm = m]
<1>3. k.pc = "byTag" /\ k.op = op /\ k.vol = v  BY DEF Idle
<1>4. call' = [call EXCEPT ![c] = k]  BY DEF StartCall
<1> HIDE DEF k
<1>5. Located(k, vdi', doomed')
  BY <1>3 DEF StartCall, Located, Publishing, Migrating, KnowsSR, OnLocalSR
<1>6. \A e \in Calls : Located(call[e], vdi', doomed')
  BY <1>2, HeldByCall, LocatedStays DEF DiskInv, CallsLocated, Steady
<1>7. call \in [Calls -> CallRecord]  BY DEF DiskInv, IInv, CallsGood
<1> QED BY <1>2, <1>4, <1>5, <1>6, <1>7 DEF CallsLocated

\* A lookup ends with a live disk of the volume.
LEMMA LookupLocated ==
  ASSUME DiskInv, NEW c \in Calls, LookupByTag(c) \/ LookupByLabel(c) \/ LookupByUUID(c)
  PROVE  Steady /\ CallsLocated'
<1>1. UNCHANGED store  BY DEF LookupByTag, LookupByLabel, LookupByUUID
<1>2. /\ call[c].op \in Ops /\ call[c].pc \in {"byTag", "byLabel", "byUUID"}
      /\ Located(call[c], vdi, doomed)
  BY DEF DiskInv, IInv, CallsGood, CallsLocated, Good, At, LookupByTag, LookupByLabel,
    LookupByUUID
<1>3. ASSUME Reject(c) \/ Succeed(c) PROVE Steady /\ CallsLocated'
  BY <1>1, <1>3, RequestsStay, ReadSteady, EndsLocated DEF DiskInv, Steady
<1>4. ASSUME NEW pc \in {"byLabel", "byUUID"}, Goto(c, pc), UNCHANGED CO
      PROVE  Steady /\ CallsLocated'
  <2>1. Steady  BY <1>1, <1>4, RequestsStay, ReadSteady
  <2> DEFINE k == [call[c] EXCEPT !.pc = pc]
  <2>2. k.pc = pc /\ k.op = call[c].op /\ k.vol = call[c].vol
    BY HeldByCall DEF DiskInv, CallRecord
  <2>3. call' = [call EXCEPT ![c] = k]  BY <1>4 DEF Goto
  <2> HIDE DEF k
  <2>4. Located(k, vdi, doomed) /\ Held(k)
    BY <1>2, <2>2 DEF Located, Held, Publishing, Migrating, KnowsSR, OnLocalSR, NeedsVdi, PC
  <2> QED BY <2>1, <2>3, <2>4, OneLocated DEF DiskInv, Steady
<1>5. ASSUME NEW d \in Vdis, Live(d),
             NEW pc \in {"recover", "adopt", "getVM", "findVbd", "checkUnused"},
             pc \in {"adopt", "getVM"} => call[c].op = "publish",
             pc = "findVbd" => call[c].op = "unpublish",
             pc = "checkUnused" => call[c].op = "delete", Keep(c, d, pc), UNCHANGED CO
      PROVE  Steady /\ CallsLocated'
  <2>1. Steady  BY <1>1, <1>5, RequestsStay, ReadSteady
  <2>2. /\ pc \in PC /\ pc \notin Migrating /\ pc \notin OnLocalSR
        /\ pc \in Publishing => pc \in {"adopt", "getVM"}
    BY <1>5 DEF PC, Migrating, OnLocalSR, Publishing
  <2> QED BY <1>2, <1>5, <2>1, <2>2, KeepLocated DEF DiskInv, Steady, Live
<1>6. CASE LookupByTag(c)
  <2>1. ASSUME NEW d \in Vdis, ByTag(call[c].vol) = {d}, Found(c, d)
        PROVE  Steady /\ CallsLocated'
    <3>1. Live(d)  BY <2>1 DEF ByTag
    <3> DEFINE pc == AfterLookup(call[c].op, vdi[d].cluster)
    <3>2. \/ Succeed(c)
          \/ call[c].op # "validate" /\ Keep(c, d, pc) /\ UNCHANGED CO
      BY <2>1 DEF Found
    <3>3. call[c].op # "validate" =>
          /\ pc \in {"recover", "adopt", "getVM", "findVbd", "checkUnused"}
          /\ pc \in {"adopt", "getVM"} => call[c].op = "publish"
          /\ pc = "findVbd" => call[c].op = "unpublish"
          /\ pc = "checkUnused" => call[c].op = "delete"
      BY <1>2, VolumeAssumption DEF AfterLookup
    <3> HIDE DEF pc
    <3> QED BY <1>3, <1>5, <3>1, <3>2, <3>3
  <2> QED BY <1>3, <1>4, <1>6, <2>1 DEF LookupByTag
<1>7. CASE LookupByLabel(c)
  <2>1. ASSUME NEW d \in Vdis, ByLabel(call[c].vol) = {d}, Keep(c, d, "recover"), UNCHANGED CO
        PROVE  Steady /\ CallsLocated'
    <3>1. Live(d)  BY <2>1 DEF ByLabel
    <3> QED BY <1>5, <2>1, <3>1
  <2> QED BY <1>3, <1>4, <1>7, <2>1 DEF LookupByLabel
<1>8. CASE LookupByUUID(c)
  <2>1. ASSUME NEW d \in ByUUID(call[c].vol), Keep(c, d, "recover"), UNCHANGED CO
        PROVE  Steady /\ CallsLocated'
    <3>1. d \in Vdis /\ Live(d)  BY <2>1 DEF ByUUID
    <3> QED BY <1>5, <2>1, <3>1
  <2> QED BY <1>3, <1>8, <2>1 DEF LookupByUUID, NotFound
<1> QED BY <1>6, <1>7, <1>8

\* The steps of a publish that read: the SR to move to is a local one, and not
\* the one the disk is on.
LEMMA PublishReadsLocated ==
  ASSUME DiskInv, NEW c \in Calls,
         GetVM(c) \/ FindLocalSRForHost(c) \/ RefetchVDI(c) \/ IsSRAttachedToHost(c)
  PROVE  Steady /\ CallsLocated'
<1>1. UNCHANGED store  BY DEF GetVM, FindLocalSRForHost, RefetchVDI, IsSRAttachedToHost
<1>2. Reject(c) \/ UNCHANGED CO
  BY DEF GetVM, FindLocalSRForHost, RefetchVDI, IsSRAttachedToHost
<1>3. Steady  BY <1>1, <1>2, RequestsStay, ReadSteady
<1>4. CASE Reject(c)  BY <1>3, <1>4, EndsLocated DEF DiskInv, Steady
<1>5. /\ IInv /\ CallsLocated /\ Lasting /\ Located(call[c], vdi, doomed) /\ Held(call[c])
      /\ call[c] \in CallRecord
  BY <1>3, HeldByCall DEF DiskInv, Steady, CallsLocated
<1>6. CASE GetVM(c) /\ ~Reject(c)
  <2> DEFINE pc == IF call[c].vol \in Local THEN "findSR" ELSE "checkSR"
             k == [call[c] EXCEPT !.host = host[call[c].vm], !.pc = pc]
  <2>1. call[c].pc = "getVM" /\ call[c].vm \in VMs
    BY <1>6 DEF GetVM, At, DiskInv, IInv, CallsGood, Good, NeedsVM
  <2>2. host[call[c].vm] \in Hosts  BY <2>1 DEF DiskInv, IInv
  <2>3. /\ k.pc = pc /\ k.vdi = call[c].vdi /\ k.sr = call[c].sr /\ k.op = call[c].op
        /\ k.vol = call[c].vol /\ k.host \in Hosts
    BY <1>5, <2>2 DEF CallRecord
  <2>4. call' = [call EXCEPT ![c] = k]  BY <1>6 DEF GetVM
  <2>5. \/ pc = "findSR" /\ call[c].vol \in Local
        \/ pc = "checkSR" /\ call[c].vol \notin Local
    OBVIOUS
  <2> HIDE DEF k, pc
  <2>6. Located(k, vdi, doomed) /\ Held(k)
    BY <1>5, <2>1, <2>3, <2>5
    DEF Located, Held, Publishing, Migrating, KnowsSR, OnLocalSR, NeedsVdi, PC
  <2> QED BY <1>3, <1>5, <2>4, <2>6, OneLocated
<1>7. CASE FindLocalSRForHost(c) /\ ~Reject(c)
  <2>1. PICK s \in SRs :
          /\ LocalHost[s] = call[c].host
          /\ call' = [call EXCEPT ![c] = [call[c] EXCEPT !.to = s,
                        !.pc = IF s = call[c].sr THEN "checkSR" ELSE "migrate"]]
    BY <1>7 DEF FindLocalSRForHost
  <2> DEFINE pc == IF s = call[c].sr THEN "checkSR" ELSE "migrate"
             k == [call[c] EXCEPT !.to = s, !.pc = pc]
  <2>2. call[c].pc = "findSR"  BY <1>7 DEF FindLocalSRForHost, At
  <2>3. LocalHost[s] # None
    BY <1>5, <2>1, <2>2, NoneAssumption DEF Located
  <2>4. /\ k.pc = pc /\ k.vdi = call[c].vdi /\ k.sr = call[c].sr /\ k.op = call[c].op
        /\ k.vol = call[c].vol /\ k.to = s
    BY <1>5 DEF CallRecord
  <2>5. call' = [call EXCEPT ![c] = k]  BY <2>1
  <2>6. \/ pc = "checkSR" /\ s = call[c].sr
        \/ pc = "migrate" /\ s # call[c].sr
    OBVIOUS
  <2> HIDE DEF k, pc
  <2>7. call[c].sr = vdi[call[c].vdi].sr /\ call[c].op = "publish" /\ call[c].vol \in Local
    BY <1>5, <2>2 DEF Located, KnowsSR, Publishing, Migrating
  <2>8. Located(k, vdi, doomed) /\ Held(k)
    BY <1>5, <2>2, <2>3, <2>4, <2>6, <2>7
    DEF Located, Held, Publishing, Migrating, KnowsSR, OnLocalSR, NeedsVdi, PC
  <2> QED BY <1>3, <1>5, <2>5, <2>8, OneLocated
<1>8. CASE RefetchVDI(c) /\ ~Reject(c)
  <2>1. /\ call[c].pc = "refetch" /\ Live(call[c].vdi) /\ Keep(c, call[c].vdi, "checkSR")
    BY <1>8 DEF RefetchVDI, At
  <2>2. /\ call[c].vdi \in Vdis /\ call[c].op = "publish"
        /\ call[c].vol \in Local => LocalHost[vdi[call[c].vdi].sr] # None
    BY <1>5, <2>1 DEF Held, NeedsVdi, PC, Located, Publishing, OnLocalSR
  <2>3. "checkSR" \in PC /\ "checkSR" \notin Migrating  BY DEF PC, Migrating
  <2> QED BY <1>3, <1>5, <2>1, <2>2, <2>3, KeepLocated DEF Live
<1>9. CASE IsSRAttachedToHost(c) /\ ~Reject(c)
  <2>1. call[c].pc = "checkSR" /\ Goto(c, "checkVbds")  BY <1>9 DEF IsSRAttachedToHost, At
  <2>2. /\ call[c].op = "publish" /\ "checkVbds" \in PC /\ "checkVbds" \notin Migrating
        /\ call[c].pc \in KnowsSR /\ call[c].pc \in OnLocalSR /\ call[c].pc \in NeedsVdi
    BY <1>5, <2>1 DEF Located, Publishing, PC, Migrating, KnowsSR, OnLocalSR, NeedsVdi
  <2> QED BY <1>3, <1>5, <2>1, <2>2, GotoLocated
<1> QED BY <1>4, <1>6, <1>7, <1>8, <1>9

\* The steps that look at VBDs, wait, or end a call.
LEMMA WaitsLocated ==
  ASSUME DiskInv, NEW c \in Calls,
         \/ CheckVbds(c) \/ FindVBD(c) \/ AwaitConnect(c) \/ GetConnectedVBD(c) \/ PollVBD(c)
         \/ PollTimeout(c) \/ AwaitDisconnect(c) \/ CheckUnused(c) \/ AnswerDeleted(c)
         \/ Interrupted(c) \/ TaskWaitFails(c)
  PROVE  Steady /\ CallsLocated'
<1>1. UNCHANGED store
  BY DEF CheckVbds, FindVBD, AwaitConnect, GetConnectedVBD, PollVBD, PollTimeout,
         AwaitDisconnect, CheckUnused, AnswerDeleted, Interrupted, TaskWaitFails
<1>2. \/ Reject(c) \/ Succeed(c)
      \/ call[c].pc # "idle" /\ Goto(c, "panic") /\ UNCHANGED CO
      \/ call[c].pc = "checkVbds" /\ Goto(c, "create") /\ UNCHANGED CO
      \/ call[c].pc = "connecting" /\ Goto(c, "getVbd") /\ UNCHANGED CO
      \/ call[c].pc = "checkUnused" /\ Goto(c, "destroy") /\ UNCHANGED CO
      \/ \E b \in Vbds, pc \in {"poll", "connect", "disconnect"} :
           /\ call' = [call EXCEPT ![c] = [call[c] EXCEPT !.pc = pc, !.vbd = b]]
           /\ call[c].pc = IF pc = "disconnect" THEN "findVbd" ELSE "checkVbds"
           /\ UNCHANGED CO
  BY DEF CheckVbds, FindVBD, AwaitConnect, GetConnectedVBD, PollVBD, PollTimeout,
         AwaitDisconnect, CheckUnused, AnswerDeleted, Interrupted, TaskWaitFails, At, OwnVbds, VbdsOf,
         Detachable, NoVBD, CO
<1>3. Steady  BY <1>1, <1>2, RequestsStay, ReadSteady
<1>4. /\ IInv /\ CallsLocated /\ Lasting /\ Located(call[c], vdi, doomed) /\ call[c] \in CallRecord
  BY <1>3, HeldByCall DEF DiskInv, Steady, CallsLocated
<1>5. CASE Reject(c) \/ Succeed(c)  BY <1>3, <1>4, <1>5, EndsLocated
<1>6. CASE call[c].pc # "idle" /\ Goto(c, "panic")
  <2> DEFINE k == [call[c] EXCEPT !.pc = "panic"]
  <2>1. k.pc = "panic" /\ k.op = call[c].op /\ k.vol = call[c].vol  BY <1>4 DEF CallRecord
  <2>2. call' = [call EXCEPT ![c] = k]  BY <1>6 DEF Goto
  <2> HIDE DEF k
  <2>3. Located(k, vdi, doomed) /\ Held(k)
    BY <1>4, <1>6, <2>1
    DEF Located, Held, Publishing, Migrating, KnowsSR, OnLocalSR, NeedsVdi, PC
  <2> QED BY <1>3, <1>4, <2>2, <2>3, OneLocated
<1>7. ASSUME NEW p \in {"checkVbds", "connecting", "checkUnused"}, NEW q, call[c].pc = p,
             Goto(c, q), q = CASE p = "checkVbds" -> "create" [] p = "connecting" -> "getVbd"
                               [] OTHER -> "destroy"
      PROVE  Steady /\ CallsLocated'
  <2>1. CASE p = "checkVbds"
    <3>1. q = "create"  BY <1>7, <2>1
    <3>2. /\ call[c].op = "publish" /\ q \in PC /\ q \notin Migrating
          /\ call[c].pc \in KnowsSR /\ call[c].pc \in OnLocalSR /\ call[c].pc \in NeedsVdi
      BY <1>4, <1>7, <2>1, <3>1
      DEF Located, Publishing, PC, Migrating, KnowsSR, OnLocalSR, NeedsVdi
    <3> QED BY <1>3, <1>4, <1>7, <3>1, <3>2, GotoLocated
  <2>2. CASE p = "connecting"
    <3>1. q = "getVbd"  BY <1>7, <2>2
    <3>2. /\ call[c].op = "publish" /\ q \in PC /\ q \notin Migrating \cup KnowsSR \cup OnLocalSR
          /\ call[c].pc \in NeedsVdi
      BY <1>4, <1>7, <2>2, <3>1
      DEF Located, Publishing, PC, Migrating, KnowsSR, OnLocalSR, NeedsVdi
    <3> QED BY <1>3, <1>4, <1>7, <3>1, <3>2, GotoLocated
  <2>3. CASE p = "checkUnused"
    <3>1. q = "destroy"  BY <1>7, <2>3
    <3>2. /\ call[c].op = "delete" /\ q \in PC
          /\ q \notin Migrating \cup KnowsSR \cup OnLocalSR \cup Publishing
          /\ call[c].pc \in NeedsVdi
      BY <1>4, <1>7, <2>3, <3>1
      DEF Located, Publishing, PC, Migrating, KnowsSR, OnLocalSR, NeedsVdi
    <3> QED BY <1>3, <1>4, <1>7, <3>1, <3>2, GotoLocated
  <2> QED BY <1>7, <2>1, <2>2, <2>3
<1>8. ASSUME NEW b \in Vbds, NEW pc \in {"poll", "connect", "disconnect"},
             call' = [call EXCEPT ![c] = [call[c] EXCEPT !.pc = pc, !.vbd = b]],
             call[c].pc = IF pc = "disconnect" THEN "findVbd" ELSE "checkVbds"
      PROVE  Steady /\ CallsLocated'
  <2>1. /\ call[c].op = IF pc = "disconnect" THEN "unpublish" ELSE "publish"
        /\ call[c].pc \in NeedsVdi
    BY <1>4, <1>8 DEF Located, Publishing, NeedsVdi, PC
  <2> QED BY <1>3, <1>4, <1>8, <2>1, TakeLocated
<1> QED BY <1>2, <1>5, <1>6, <1>7, <1>8

\* A change of what is said of the disk at hand.
LEMMA TagSteady ==
  ASSUME DiskInv, vbd' = vbd, host' = host, DoomedKept,
         \/ vdi' = vdi
         \/ \E d \in Vdis, T \in SUBSET Volumes : AddIdTags(d, T)
         \/ \E d \in Vdis : vdi' = [vdi EXCEPT ![d].cluster = TRUE]
  PROVE  Steady
<1>1. \A e \in Vdis : /\ vdi'[e].state = vdi[e].state /\ vdi'[e].sr = vdi[e].sr
                      /\ vdi'[e].owner = vdi[e].owner /\ vdi'[e].label = vdi[e].label
                      /\ vdi'[e].to = vdi[e].to
  BY DEF DiskInv, IInv, Coherent, VDIRecord, AddIdTags
<1>2. MovesLocal'  BY <1>1 DEF DiskInv, DisksOK, MovesLocal
<1> QED BY <1>1, <1>2, DisksSame DEF DiskInv, Steady

\* Writing tags, or the target of a migration, leaves the located calls so.
LEMMA DiskWritesLocated ==
  ASSUME DiskInv, NEW c \in Calls, RecoverTags(c) \/ CopyTags(c) \/ AdoptVDI(c)
  PROVE  Steady /\ CallsLocated'
<1>1. /\ call[c].pc \in {"recover", "copyTags", "adopt"} /\ call[c].pc \in NeedsVdi
      /\ vbd' = vbd /\ host' = host
  BY DEF RecoverTags, CopyTags, AdoptVDI, At, NeedsVdi, PC
<1>2. /\ IInv /\ CallsLocated /\ Located(call[c], vdi, doomed) /\ Held(call[c])
      /\ call[c] \in CallRecord /\ Good(call[c], vdi, vbd)
  BY HeldByCall DEF DiskInv, CallsLocated, IInv, CallsGood
<1>3. /\ call[c].vdi \in Vdis /\ call[c].vol \in Volumes /\ call[c].op \in Ops
  BY <1>1, <1>2 DEF Held, Good
<1>4. \/ Reject(c) \/ Succeed(c)
      \/ call[c].pc = "copyTags" /\ Goto(c, "refetch") /\ UNCHANGED CO
      \/ call[c].pc = "adopt" /\ Goto(c, "getVM") /\ UNCHANGED CO
      \/ /\ call[c].pc = "recover" /\ call[c].op # "validate"
         /\ Goto(c, AfterLookup(call[c].op, call[c].adopted)) /\ UNCHANGED CO
  BY DEF RecoverTags, CopyTags, AdoptVDI, At, CO
<1>5. Steady
  <2>1. \/ vdi' = vdi
        \/ \E d \in Vdis, T \in SUBSET Volumes : AddIdTags(d, T)
        \/ \E d \in Vdis : vdi' = [vdi EXCEPT ![d].cluster = TRUE]
    <3>1. CASE RecoverTags(c)
      <4>1. {call[c].vol} \in SUBSET Volumes  BY <1>3
      <4> QED BY <1>3, <3>1, <4>1 DEF RecoverTags
    <3>2. CASE CopyTags(c)
      <4>1. SUBSET call[c].tags \subseteq SUBSET Volumes  BY <1>2, <1>3 DEF Good
      <4> QED BY <1>3, <3>2, <4>1 DEF CopyTags
    <3>3. CASE AdoptVDI(c)  BY <1>3, <3>3 DEF AdoptVDI
    <3> QED BY <3>1, <3>2, <3>3
  <2>2. DoomedKept  BY <1>4, RequestsStay
  <2> QED BY <1>1, <2>1, <2>2, TagSteady
<1>6. CASE Reject(c) \/ Succeed(c)  BY <1>2, <1>5, <1>6, EndsLocated DEF Steady
<1>7. CASE call[c].pc = "copyTags" /\ Goto(c, "refetch")
  <2>1. /\ call[c].op = "publish" /\ "refetch" \in PC /\ "refetch" \notin KnowsSR
        /\ call[c].pc \in Migrating /\ call[c].pc \in OnLocalSR
    BY <1>2, <1>7 DEF Located, Publishing, PC, KnowsSR, Migrating, OnLocalSR
  <2> QED BY <1>1, <1>2, <1>5, <1>7, <2>1, GotoLocated DEF Steady
<1>8. CASE call[c].pc = "adopt" /\ Goto(c, "getVM")
  <2>1. /\ call[c].op = "publish" /\ "getVM" \in PC /\ "getVM" \notin Migrating \cup OnLocalSR
        /\ call[c].pc \in KnowsSR
    BY <1>2, <1>8 DEF Located, Publishing, PC, KnowsSR, Migrating, OnLocalSR
  <2> QED BY <1>1, <1>2, <1>5, <1>8, <2>1, GotoLocated DEF Steady
<1>9. CASE /\ call[c].pc = "recover" /\ call[c].op # "validate"
           /\ Goto(c, AfterLookup(call[c].op, call[c].adopted))
  <2> DEFINE pc == AfterLookup(call[c].op, call[c].adopted)
  <2>1. /\ pc \in {"adopt", "getVM", "findVbd", "checkUnused"}
        /\ pc \in {"adopt", "getVM"} => call[c].op = "publish"
        /\ pc = "findVbd" => call[c].op = "unpublish"
        /\ pc = "checkUnused" => call[c].op = "delete"
    BY <1>3, <1>9, VolumeAssumption DEF AfterLookup
  <2>2. Goto(c, pc)  BY <1>9
  <2> HIDE DEF pc
  <2>3. /\ pc \in PC /\ pc \notin Migrating \cup OnLocalSR /\ call[c].pc \in KnowsSR
        /\ pc \in Publishing => pc \in {"adopt", "getVM"}
    BY <1>9, <2>1 DEF PC, KnowsSR, Migrating, OnLocalSR, Publishing
  <2> QED BY <1>1, <1>2, <1>5, <2>1, <2>2, <2>3, GotoLocated DEF Steady
<1> QED BY <1>4, <1>6, <1>7, <1>8, <1>9

\* A migration starts: to a local SR, for a disk that is not on it.
LEMMA StartMigrationLocated ==
  ASSUME DiskInv, NEW c \in Calls, StartMigration(c)
  PROVE  Steady /\ CallsLocated'
<1>1. call[c].pc = "migrate" /\ vbd' = vbd /\ host' = host  BY DEF StartMigration, At
<1>2. /\ IInv /\ CallsLocated /\ Located(call[c], vdi, doomed) /\ Held(call[c])
      /\ call[c] \in CallRecord /\ Good(call[c], vdi, vbd)
  BY HeldByCall DEF DiskInv, CallsLocated, IInv, CallsGood
<1>3. call[c].pc \in NeedsVdi  BY <1>1 DEF NeedsVdi, PC
<1>4. /\ call[c].vdi \in Vdis /\ vdi[call[c].vdi].owner = call[c].vol
  BY <1>2, <1>3, HeldVdi DEF IInv
<1>5. CASE Reject(c) /\ vdi' = vdi
  <2>1. Steady  BY <1>1, <1>5, RequestsStay, ReadSteady DEF store
  <2> QED BY <1>2, <1>5, <2>1, EndsLocated DEF Steady
<1>6. CASE /\ vdi' = [vdi EXCEPT ![call[c].vdi].to = call[c].to]
           /\ Goto(c, "migrating") /\ UNCHANGED CO
  <2>1. \A e \in Vdis : /\ vdi'[e].state = vdi[e].state /\ vdi'[e].sr = vdi[e].sr
                        /\ vdi'[e].owner = vdi[e].owner /\ vdi'[e].label = vdi[e].label
                        /\ vdi'[e].to = IF e = call[c].vdi THEN call[c].to ELSE vdi[e].to
    BY <1>2, <1>4, <1>6 DEF IInv, Coherent, VDIRecord
  <2>2. /\ call[c].vol \in Local /\ call[c].op = "publish" /\ LocalHost[call[c].to] # None
        /\ call[c].to # vdi[call[c].vdi].sr
    BY <1>1, <1>2 DEF Located, Migrating, Publishing, KnowsSR
  <2>3. MovesLocal'  BY <1>4, <2>1, <2>2 DEF DiskInv, DisksOK, MovesLocal
  <2>4. Steady  BY <1>1, <1>6, <2>1, <2>3, RequestsStay, DisksSame DEF DiskInv, Steady
  <2>5. /\ "migrating" \in PC /\ "migrating" \notin KnowsSR \cup OnLocalSR
        /\ call[c].pc \in Migrating
    BY <1>1 DEF PC, KnowsSR, OnLocalSR, Migrating
  <2> QED BY <1>2, <1>3, <1>6, <2>2, <2>4, <2>5, GotoLocated DEF Steady
<1> QED BY <1>5, <1>6 DEF StartMigration

\* A VBD is plugged or unplugged by request; it stays where it is.
LEMMA VbdWritesLocated ==
  ASSUME DiskInv, NEW c \in Calls, ConnectVBD(c) \/ DisconnectVBD(c)
  PROVE  Steady /\ CallsLocated'
<1>1. /\ call[c].pc \in {"connect", "disconnect"} /\ call[c].pc \in NeedsVdi
      /\ call[c].pc \in NeedsVbd /\ vdi' = vdi /\ host' = host
  BY DEF ConnectVBD, DisconnectVBD, At, NeedsVdi, NeedsVbd, PC
<1>2. /\ IInv /\ CallsLocated /\ Located(call[c], vdi, doomed) /\ call[c] \in CallRecord
      /\ vbd \in [Vbds -> VBDRecord]
  BY HeldByCall DEF DiskInv, CallsLocated, IInv, Coherent
<1> DEFINE b == call[c].vbd
<1>3. b \in Vbds  BY <1>1, <1>2, HeldVbd DEF IInv
<1>4. \/ Reject(c)
      \/ call[c].pc = "connect" /\ Goto(c, "connecting") /\ UNCHANGED CO
      \/ call[c].pc = "disconnect" /\ Goto(c, "disconnecting") /\ UNCHANGED CO
  BY DEF ConnectVBD, DisconnectVBD, At, CO
<1>5. Steady
  <2>1. \/ vbd' = vbd
        \/ vbd[b].plug = "off" /\ vbd' = [vbd EXCEPT ![b].plug = "plugging"]
        \/ vbd[b].plug = "on" /\ vbd' = [vbd EXCEPT ![b].plug = "unplugging"]
    BY DEF ConnectVBD, DisconnectVBD
  <2>2. \A x \in Vbds : Exists(x)' =>
          /\ Exists(x) /\ vbd'[x].vm = vbd[x].vm /\ vbd'[x].vdi = vbd[x].vdi
          /\ Attached(x)' => Attached(x) \/ Reaches(vdi[vbd[x].vdi].sr, host[vbd[x].vm])
    BY <1>2, <1>3, <2>1 DEF Exists, Attached, VBDRecord
  <2> QED BY <1>1, <1>4, <2>2, RequestsStay, VbdsSame DEF DiskInv, Steady
<1>6. CASE Reject(c)  BY <1>2, <1>5, <1>6, EndsLocated DEF Steady
<1>7. CASE call[c].pc = "connect" /\ Goto(c, "connecting")
  <2>1. /\ call[c].op = "publish" /\ "connecting" \in PC
        /\ "connecting" \notin Migrating \cup KnowsSR \cup OnLocalSR
    BY <1>2, <1>7 DEF Located, Publishing, PC, Migrating, KnowsSR, OnLocalSR
  <2> QED BY <1>1, <1>2, <1>5, <1>7, <2>1, GotoLocated DEF Steady
<1>8. CASE call[c].pc = "disconnect" /\ Goto(c, "disconnecting")
  <2>1. /\ call[c].op = "unpublish" /\ "disconnecting" \in PC
        /\ "disconnecting" \notin Migrating \cup KnowsSR \cup OnLocalSR \cup Publishing
    BY <1>2, <1>8 DEF Located, Publishing, PC, Migrating, KnowsSR, OnLocalSR
  <2> QED BY <1>1, <1>2, <1>5, <1>8, <2>1, GotoLocated DEF Steady
<1> QED BY <1>4, <1>6, <1>7, <1>8

\* The VBD of a new attachment.
LEMMA CreateVBDLocated ==
  ASSUME DiskInv, NEW c \in Calls, CreateVBD(c)
  PROVE  Steady /\ CallsLocated'
<1>1. /\ call[c].pc = "create" /\ call[c].pc \in NeedsVdi /\ vdi' = vdi /\ host' = host
  BY DEF CreateVBD, At, NeedsVdi, PC
<1>2. /\ IInv /\ CallsLocated /\ Located(call[c], vdi, doomed) /\ Good(call[c], vdi, vbd)
  BY DEF DiskInv, CallsLocated, IInv, CallsGood
<1>3. call[c].vdi \in Vdis /\ vdi[call[c].vdi].owner = call[c].vol /\ call[c].vol \in Volumes
  BY <1>1, <1>2, HeldVdi DEF IInv
<1>4. /\ call[c].op = "publish" /\ call[c].vm \in VMs
      /\ call[c].vol \in Local => LocalHost[vdi[call[c].vdi].sr] # None
  BY <1>1, <1>2 DEF Located, Publishing, OnLocalSR, Good
<1>5. CASE Reject(c) /\ vbd' = vbd
  <2>1. Steady  BY <1>1, <1>5, RequestsStay, ReadSteady DEF store
  <2> QED BY <1>2, <1>5, <2>1, EndsLocated DEF Steady
<1>6. CASE Live(call[c].vdi)
  <2>1. PICK b \in Vbds :
          /\ CreateVBDOn(b, call[c].vdi, call[c].vm) /\ UNCHANGED CO
          /\ call' = [call EXCEPT ![c] = [call[c] EXCEPT !.pc = "poll", !.vbd = b]]
    BY <1>6 DEF CreateVBD
  <2>2. Steady
    BY <1>1, <1>3, <1>4, <1>6, <2>1, RequestsStay, CreateStep DEF DiskInv, Steady
  <2> QED BY <1>1, <1>2, <1>4, <2>1, <2>2, TakeLocated DEF Steady
<1> QED BY <1>5, <1>6 DEF CreateVBD

\* The disk of a deletion.
LEMMA DeleteVDILocated ==
  ASSUME DiskInv, NEW c \in Calls, DeleteVDI(c)
  PROVE  Steady /\ CallsLocated'
<1>1. /\ call[c].pc = "destroy" /\ call[c].pc \in NeedsVdi /\ host' = host
  BY DEF DeleteVDI, At, NeedsVdi, PC
<1>2. /\ IInv /\ CallsLocated /\ Located(call[c], vdi, doomed)
  BY DEF DiskInv, CallsLocated
<1>3. call[c].vdi \in Vdis /\ vdi[call[c].vdi].owner = call[c].vol /\ call[c].op = "delete"
  BY <1>1, <1>2, HeldVdi DEF IInv, Located
<1>4. Reject(c) \/ Succeed(c) \/ (Goto(c, "destroyed") /\ UNCHANGED CO)  BY DEF DeleteVDI
<1>5. Steady
  <2>1. CASE UNCHANGED <<vdi, vbd>>
    BY <1>1, <1>4, <2>1, RequestsStay, ReadSteady DEF store
  <2>2. CASE Live(call[c].vdi) /\ DestroyVDI(call[c].vdi)
    <3>1. call[c].vol \in doomed  BY <1>1, <1>2, <1>3 DEF Located
    <3> QED BY <1>1, <1>3, <1>4, <2>2, <3>1, RequestsStay, DestroyStep DEF DiskInv, Steady
  <2> QED BY <2>1, <2>2 DEF DeleteVDI
<1>6. CASE Reject(c) \/ Succeed(c)  BY <1>2, <1>5, <1>6, EndsLocated DEF Steady
<1>7. CASE Goto(c, "destroyed")
  <2>1. /\ "destroyed" \in PC
        /\ "destroyed" \notin Migrating \cup KnowsSR \cup OnLocalSR \cup Publishing
    BY DEF PC, Migrating, KnowsSR, OnLocalSR, Publishing
  <2> QED BY <1>1, <1>2, <1>3, <1>5, <1>7, <2>1, GotoLocated DEF Steady
<1> QED BY <1>4, <1>6, <1>7

\* The end of a migration: the call that waits for it gets the new disk.
LEMMA FinishMigrationLocated ==
  ASSUME DiskInv, NEW d \in Vdis, NEW n \in Vdis, FinishMigration(d, n)
  PROVE  Steady /\ CallsLocated'
<1>1. MigrationDone(d, n) /\ DoomedKept  BY DEF FinishMigration, CO, DoomedKept
<1>2. Steady /\ LocalHost[vdi'[n].sr] # None  BY <1>1, MovedStep DEF DiskInv, Steady
<1>3. ASSUME NEW c \in Calls PROVE Located(call'[c], vdi', doomed')
  <2>1. Held(call[c]) /\ call[c] \in CallRecord /\ Located(call[c], vdi, doomed)
    BY HeldByCall DEF DiskInv, CallsLocated
  <2>2. CASE ~Awaits(c, d)
    BY <1>2, <2>1, <2>2, LocatedStays DEF FinishMigration, Steady
  <2>3. CASE Awaits(c, d)
    <3> DEFINE k == [call[c] EXCEPT !.pc = "copyTags", !.vdi = n]
    <3>1. call'[c] = k  BY <2>3 DEF FinishMigration
    <3>2. k.pc = "copyTags" /\ k.vdi = n /\ k.op = call[c].op /\ k.vol = call[c].vol
      BY <2>1 DEF CallRecord
    <3> HIDE DEF k
    <3>3. call[c].op = "publish" /\ call[c].vol \in Local
      BY <2>1, <2>3 DEF Awaits, At, Located, Publishing, Migrating
    <3> QED BY <1>2, <3>1, <3>2, <3>3 DEF Located, Publishing, Migrating, KnowsSR
  <2> QED BY <2>2, <2>3
<1> QED BY <1>2, <1>3 DEF CallsLocated

\* The end of a migration that failed ends the calls that wait for it.
LEMMA FailMigrationLocated ==
  ASSUME DiskInv, NEW d \in Vdis, FailMigration(d)
  PROVE  Steady /\ CallsLocated'
<1>1. /\ vdi' = [vdi EXCEPT ![d].to = None] /\ vbd' = vbd /\ host' = host /\ DoomedKept
  BY DEF FailMigration, MigrationFails, CO, DoomedKept
<1>2. \A e \in Vdis : /\ vdi'[e].state = vdi[e].state /\ vdi'[e].sr = vdi[e].sr
                      /\ vdi'[e].owner = vdi[e].owner /\ vdi'[e].label = vdi[e].label
                      /\ vdi'[e].to = IF e = d THEN None ELSE vdi[e].to
  BY <1>1 DEF DiskInv, IInv, Coherent, VDIRecord
<1>3. MovesLocal'  BY <1>2 DEF DiskInv, DisksOK, MovesLocal
<1>4. Steady  BY <1>1, <1>2, <1>3, DisksSame DEF DiskInv, Steady
<1>5. ASSUME NEW c \in Calls PROVE Located(call'[c], vdi', doomed')
  <2>1. Held(call[c]) /\ Located(call[c], vdi, doomed)  BY HeldByCall DEF DiskInv, CallsLocated
  <2>2. call'[c] = Idle \/ call'[c] = call[c]  BY DEF FailMigration
  <2> QED BY <1>4, <2>1, <2>2, LocatedStays, IdleLocated DEF Steady
<1> QED BY <1>4, <1>5 DEF CallsLocated

\* The end of the process ends all calls.
LEMMA CrashLocated ==
  ASSUME DiskInv, Crash PROVE Steady /\ CallsLocated'
<1>1. UNCHANGED store /\ DoomedKept  BY DEF Crash, CO, DoomedKept
<1>2. Steady  BY <1>1, ReadSteady
<1>3. \A c \in Calls : call'[c] = Idle  BY DEF Crash
<1>4. Located(Idle, vdi', doomed')  BY <1>2, IdleLocated, LocatedStays DEF Steady
<1> QED BY <1>2, <1>3, <1>4 DEF CallsLocated

-----------------------------------------------------------------------------
(* The inductive invariant, and what follows from it. *)

\* Each volume starts on one live disk, which carries its handle.
LEMMA InitDiskInv == Init => DiskInv
<1> SUFFICES ASSUME Init PROVE DiskInv
  OBVIOUS
<1>1. IInv  BY InitIInv
<1>2. ASSUME NEW d \in Vdis
      PROVE  \/ \E v \in Volumes : HomeVdi[v] = d /\ vdi[d] = InitialVDI(v)
             \/ (\A v \in Volumes : HomeVdi[v] # d) /\ vdi[d] = UnusedVDI
  BY DEF Init
<1>3. \A v \in Volumes : HomeVdi[v] \in Vdis /\ vdi[HomeVdi[v]] = InitialVDI(v)
  BY <1>2, VolumeAssumption
<1>4. \A v \in Volumes : /\ InitialVDI(v).state = "live" /\ InitialVDI(v).owner = v
                         /\ InitialVDI(v).sr \in SRs /\ InitialVDI(v).to = None
                         /\ v \notin Static => InitialVDI(v).label = v
  BY VolumeAssumption DEF InitialVDI, UnusedVDI, DynamicLabel
<1>5. UnusedVDI.state = "unused" /\ UnusedVDI.owner = None /\ UnusedVDI.to = None
  BY DEF UnusedVDI
<1>6. OneLive  BY <1>2, <1>4, <1>5 DEF OneLive, Live
<1>7. Labelled /\ OnSR  BY <1>2, <1>4, <1>5 DEF Labelled, OnSR
<1>8. HomeStays  BY <1>2, <1>4, <1>5, NoneAssumption DEF HomeStays
<1>9. MovesLocal  BY <1>2, <1>4, <1>5 DEF MovesLocal
<1>10. VbdsPlaced  BY DEF Init, VbdsPlaced, Exists, UnusedVBD
<1>11. Kept  BY <1>3, <1>4, VolumeAssumption DEF Kept, Live
<1>12. CallsLocated  BY IdleLocated DEF CallsLocated, Init
<1> QED BY <1>1, <1>6, <1>7, <1>8, <1>9, <1>10, <1>11, <1>12 DEF DiskInv, DisksOK

\* Every step of a call, of XO and of the process keeps the disk invariant.
LEMMA NextDiskInv == DiskInv /\ [Next]_vars => DiskInv'
<1> SUFFICES ASSUME DiskInv, [Next]_vars PROVE DiskInv'
  OBVIOUS
<1>1. IInv'  BY NextIInv DEF DiskInv
<1> SUFFICES Steady /\ CallsLocated'  BY <1>1 DEF DiskInv, Steady
<1>2. CASE UNCHANGED vars
  <2>1. UNCHANGED store /\ DoomedKept /\ call' = call  BY <1>2 DEF vars, store, DoomedKept
  <2>2. Steady  BY <2>1, ReadSteady
  <2> QED BY <2>1, <2>2, HeldByCall, LocatedStays DEF DiskInv, CallsLocated, Steady
<1>3. CASE XONext /\ UNCHANGED <<call, CO>>
  <2>1. Steady  BY <1>3, XOKeepsDisks DEF CO, DiskInv, Steady, DoomedKept
  <2> QED BY <1>3, <2>1, HeldByCall, LocatedStays DEF CO, DiskInv, CallsLocated, Steady
<1>4. ASSUME NEW c \in Calls, Handle(c) \/ PollTimeout(c) \/ Interrupted(c) \/ TaskWaitFails(c)
      PROVE  Steady /\ CallsLocated'
  BY <1>4, LookupLocated, PublishReadsLocated, WaitsLocated, DiskWritesLocated,
     StartMigrationLocated, VbdWritesLocated, CreateVBDLocated, DeleteVDILocated DEF Handle
<1>5. CASE \E c \in Calls, op \in Ops, v \in Volumes, m \in VMs \cup {None} :
             StartCall(c, op, v, m)
  BY <1>5, StartLocated
<1> QED BY <1>2, <1>3, <1>4, <1>5, FinishMigrationLocated, FailMigrationLocated, CrashLocated
        DEF Next

\* The invariant holds of every behaviour, in whatever order the CO calls.
THEOREM DiskInvariance == Spec => []DiskInv
BY InitDiskInv, NextDiskInv, PTL DEF Spec

\* A volume that was not destroyed is found by its disk and by no other: by a tag,
\* by its name, or, static and never migrated, by its UUID.
LEMMA FoundByOne ==
  ASSUME DiskInv, NEW v \in Volumes, ~Destroyed(v), v \notin Static \cap Local
  PROVE  \E d \in Vdis : /\ Live(d) /\ vdi[d].owner = v
                         /\ ByTag(v) \in {{}, {d}}
                         /\ ByLabel(v) \in {{}, {d}}
                         /\ v \notin Static => ByLabel(v) = {d}
                         /\ v \in Static => ByUUID(v) = {d}
<1>1. PICK d \in Vdis : Live(d) /\ vdi[d].owner = v  BY DEF DiskInv, Kept, Destroyed
<1>2. \A e \in Vdis : Live(e) /\ vdi[e].owner = v => e = d
  BY <1>1 DEF DiskInv, DisksOK, OneLive
<1>3. \A e \in Vdis : vdi[e].idTags \subseteq {vdi[e].owner} /\ vdi[e].label \in {None, vdi[e].owner}
  BY DEF DiskInv, IInv, Coherent
<1>4. ByTag(v) \in {{}, {d}}  BY <1>1, <1>2, <1>3 DEF ByTag
<1>5. ByLabel(v) \in {{}, {d}}  BY <1>1, <1>2, <1>3, NoneAssumption DEF ByLabel
<1>6. v \notin Static => ByLabel(v) = {d}
  <2>1. v \notin Static => vdi[d].label = v  BY <1>1 DEF DiskInv, DisksOK, Labelled, Live
  <2> QED BY <1>1, <1>5, <2>1 DEF ByLabel
<1>7. v \in Static => ByUUID(v) = {d}
  <2>1. v \in Static => d = HomeVdi[v]  BY <1>1 DEF DiskInv, DisksOK, HomeStays
  <2> QED BY <1>1, <2>1 DEF ByUUID
<1> QED BY <1>1, <1>4, <1>5, <1>6, <1>7

\* A volume that was not destroyed is findable.
LEMMA FoundIsFindable ==
  ASSUME DiskInv, NEW v \in Volumes, ~Destroyed(v), v \notin Static \cap Local
  PROVE  Findable(v)
<1>1. PICK d \in Vdis : /\ ByTag(v) \in {{}, {d}} /\ ByLabel(v) \in {{}, {d}}
                        /\ v \notin Static => ByLabel(v) = {d}
                        /\ v \in Static => ByUUID(v) = {d}
  BY FoundByOne
<1> QED BY <1>1 DEF Findable

\* A dynamic volume is found by exactly one disk, in every state of every migration,
\* recovery, crash and retry and in any order of calls, until a deletion that the CO
\* asked for has destroyed the disk, and also if that deletion left it there.
THEOREM DynamicVolumesAreFindable == Spec => []DynamicFindable
<1>1. DiskInv => DynamicFindable  BY FoundIsFindable DEF DynamicFindable
<1> QED BY <1>1, DiskInvariance, PTL

\* So is every volume if none is both static and local: only the migration of a
\* static volume's disk loses it.
THEOREM OtherVolumesAreFindable ==
  ASSUME Static \cap Local = {}
  PROVE  Spec => []VolumesFindable
<1>1. DiskInv => VolumesFindable  BY FoundIsFindable DEF VolumesFindable
<1> QED BY <1>1, DiskInvariance, PTL

\* A disk that is plugged is on the local SR of its VM's host; no other local SR
\* can be reached from there, so a migration does not end.
LEMMA PluggedIsNotMoved ==
  ASSUME OneLocalSR, DiskInv, NEW d \in Vdis, NEW n \in Vdis, MigrationDone(d, n),
         NEW b \in VbdsOf(d)
  PROVE  ~Attached(b)
<1> SUFFICES ASSUME Attached(b) PROVE FALSE
  OBVIOUS
<1> DEFINE h == host[vbd[b].vm]  s == vdi[d].sr  t == vdi[d].to
<1>1. /\ Placed(b) /\ vbd[b].vdi = d  BY DEF DiskInv, DisksOK, VbdsPlaced, VbdsOf
<1>2. /\ vdi[d].owner \in Local /\ LocalHost[t] # None /\ t # s
  BY DEF MigrationDone, DiskInv, DisksOK, MovesLocal
<1>3. s \in SRs /\ t \in SRs
  BY <1>2 DEF MigrationDone, Live, DiskInv, DisksOK, OnSR, IInv, Coherent, VDIRecord
<1>4. Reaches(s, h) /\ LocalHost[s] # None  BY <1>1, <1>2 DEF Placed
<1>5. Reaches(t, h)  BY DEF MigrationDone
<1>6. LocalHost[s] = h /\ LocalHost[t] = h  BY <1>2, <1>4, <1>5 DEF Reaches
<1> HIDE DEF s, t, h
<1> QED BY <1>2, <1>3, <1>4, <1>6 DEF OneLocalSR

-----------------------------------------------------------------------------
(* The cluster tag, which only an administrator takes off a disk.  A publish
   goes past its adoption only with a disk that has the tag; the disk of a volume
   that is not local is the same all the time.                              *)

AfterAdoption == Publishing \ {"adopt"}

Adopts(k, D) ==
  ClusterTag /\ k.op = "publish" /\ k.vol \notin Local =>
    /\ k.pc \in AfterAdoption => D[k.vdi].cluster
    /\ k.pc = "recover" /\ k.adopted => D[k.vdi].cluster

InAdopted ==
  \A v \in Volumes \ Local, m \in VMs :
    ClusterTag /\ co[v][m] = "in" => vdi[HomeVdi[v]].cluster

AdoptInv == DiskInv /\ (\A c \in Calls : Adopts(call[c], vdi)) /\ InAdopted

\* Nobody takes the tag off a disk.
ClusterKept ==
  \A d \in Vdis : vdi[d].state # "unused" /\ vdi[d].cluster => vdi'[d].cluster

\* No step but that of the administrator takes the tag off a disk.
LEMMA ClusterStays ==
  ASSUME "erase" \notin Faults, DiskInv, [Next]_vars PROVE ClusterKept
<1>1. vdi \in [Vdis -> VDIRecord]  BY DEF DiskInv, IInv, Coherent
<1>2. CASE vdi' = vdi  BY <1>2 DEF ClusterKept
<1>3. CASE \E d \in Vdis : vdi' = [vdi EXCEPT ![d].to = None]
  BY <1>1, <1>3 DEF ClusterKept, VDIRecord
<1>4. CASE \E d, n \in Vdis : MigrationDone(d, n)
  <2>1. PICK d \in Vdis, n \in Vdis : MigrationDone(d, n)  BY <1>4
  <2>2. /\ vdi[n].state = "unused" /\ vdi[d].state # "unused"
        /\ vdi'[d] = [vdi[d] EXCEPT !.state = "gone", !.to = None]
        /\ \A e \in Vdis \ {d, n} : vdi'[e] = vdi[e]
    BY <1>1, <2>1 DEF MigrationDone, Live
  <2>3. vdi'[d].cluster = vdi[d].cluster  BY <1>1, <2>2 DEF VDIRecord
  <2> QED BY <2>2, <2>3 DEF ClusterKept
<1>5. ASSUME NEW c \in Calls, Handle(c) \/ PollTimeout(c) \/ Interrupted(c) \/ TaskWaitFails(c)
      PROVE  ClusterKept
  <2>1. \/ vdi' = vdi \/ AddIdTags(call[c].vdi, {call[c].vol}) \/ CopyTags(c)
        \/ AdoptVDI(c) \/ StartMigration(c) \/ DeleteVDI(c)
    BY <1>5
    DEF Handle, LookupByTag, LookupByLabel, LookupByUUID, RecoverTags, GetVM,
        FindLocalSRForHost, RefetchVDI, IsSRAttachedToHost, CheckVbds, ConnectVBD, AwaitConnect,
        GetConnectedVBD, CreateVBD, PollVBD, FindVBD, DisconnectVBD, AwaitDisconnect,
        CheckUnused, AnswerDeleted, PollTimeout, Interrupted, TaskWaitFails, store
  <2>2. CASE AddIdTags(call[c].vdi, {call[c].vol})
    BY <1>1, <2>2 DEF AddIdTags, Live, ClusterKept, VDIRecord
  <2>3. CASE CopyTags(c)
    <3>1. \E T : AddIdTags(call[c].vdi, T)  BY <2>3 DEF CopyTags
    <3> QED BY <1>1, <3>1 DEF AddIdTags, ClusterKept, VDIRecord
  <2>4. CASE AdoptVDI(c)  BY <1>1, <2>4 DEF AdoptVDI, ClusterKept, VDIRecord
  <2>5. CASE StartMigration(c)  BY <1>1, <2>5 DEF StartMigration, ClusterKept, VDIRecord
  <2>6. CASE DeleteVDI(c)  BY <1>1, <2>6 DEF DeleteVDI, DestroyVDI, ClusterKept, VDIRecord
  <2> QED BY <1>2, <2>1, <2>2, <2>3, <2>4, <2>5, <2>6
<1>6. CASE XONext
  BY <1>2, <1>6 DEF XONext, PlugDone, PlugFails, DeviceNamed, UnplugDone, UnplugFails,
     LiveMigrateVM, EraseTags
<1> QED BY <1>2, <1>3, <1>4, <1>5, <1>6
        DEF Next, StartCall, FinishMigration, FailMigration, MigrationFails, Crash, store, vars

\* So what a call relies on stays.
LEMMA AdoptsStays ==
  ASSUME NEW k, Adopts(k, vdi), Held(k), ClusterKept PROVE Adopts(k, vdi')
<1>1. k.pc \in AfterAdoption \cup {"recover"} => k.vdi \in Vdis /\ vdi[k.vdi].state # "unused"
  BY DEF Held, AfterAdoption, Publishing, NeedsVdi, PC
<1> QED BY <1>1 DEF Adopts, ClusterKept

\* How a call may step.
Adopting(c) ==
  \/ Reject(c)
  \/ Succeed(c) /\ (call[c].op = "publish" => call[c].pc \in AfterAdoption)
  \/ \E k : Adopts(k, vdi') /\ call' = [call EXCEPT ![c] = k] /\ UNCHANGED CO

\* It steps from a point after the adoption to another one.
LEMMA StillAdopted ==
  ASSUME AdoptInv, ClusterKept, NEW c \in Calls, UNCHANGED CO, NEW k,
         call' = [call EXCEPT ![c] = k], k.op = call[c].op, k.vol = call[c].vol,
         k.pc \in AfterAdoption => call[c].pc \in AfterAdoption /\ k.vdi = call[c].vdi,
         k.pc # "recover"
  PROVE  Adopting(c)
<1>1. Adopts(call[c], vdi) /\ Held(call[c])  BY HeldByCall DEF AdoptInv, DiskInv
<1>2. Adopts(call[c], vdi')  BY <1>1, AdoptsStays
<1>3. Adopts(k, vdi')  BY <1>2 DEF Adopts
<1> QED BY <1>3 DEF Adopting

\* A call that goes on has adopted its disk if it had before.
LEMMA GotoAdopting ==
  ASSUME AdoptInv, ClusterKept, NEW c \in Calls, NEW pc, Goto(c, pc), UNCHANGED CO,
         pc \in AfterAdoption => call[c].pc \in AfterAdoption, pc # "recover"
  PROVE  Adopting(c)
<1> DEFINE k == [call[c] EXCEPT !.pc = pc]
<1>1. call[c] \in CallRecord  BY HeldByCall DEF AdoptInv, DiskInv
<1>2. k.pc = pc /\ k.op = call[c].op /\ k.vol = call[c].vol /\ k.vdi = call[c].vdi
  BY <1>1 DEF CallRecord
<1>3. call' = [call EXCEPT ![c] = k]  BY DEF Goto
<1> HIDE DEF k
<1> QED BY <1>2, <1>3, StillAdopted

\* A lookup goes past the adoption only with a disk that has the tag.
LEMMA KeepAdopting ==
  ASSUME AdoptInv, ClusterKept, NEW c \in Calls, NEW d \in Vdis, NEW pc, Keep(c, d, pc),
         UNCHANGED CO, UNCHANGED vdi,
         ClusterTag /\ call[c].op = "publish" /\ pc \in AfterAdoption => vdi[d].cluster
  PROVE  Adopting(c)
<1> DEFINE k == [call[c] EXCEPT !.pc = pc, !.vdi = d, !.sr = vdi[d].sr,
                                !.tags = vdi[d].idTags, !.adopted = vdi[d].cluster]
<1>1. call[c] \in CallRecord  BY HeldByCall DEF AdoptInv, DiskInv
<1>2. /\ k.pc = pc /\ k.vdi = d /\ k.adopted = vdi[d].cluster
      /\ k.op = call[c].op /\ k.vol = call[c].vol
  BY <1>1 DEF CallRecord
<1>3. call' = [call EXCEPT ![c] = k]  BY DEF Keep
<1> HIDE DEF k
<1>4. Adopts(k, vdi')  BY <1>2 DEF Adopts
<1> QED BY <1>3, <1>4 DEF Adopting

\* A handler goes past the adoption only with a disk that carries the tag.
LEMMA HandleAdopting ==
  ASSUME AdoptInv, ClusterKept, NEW c \in Calls,
         Handle(c) \/ PollTimeout(c) \/ Interrupted(c) \/ TaskWaitFails(c)
  PROVE  Adopting(c)
<1>1. /\ call[c] \in CallRecord /\ Located(call[c], vdi, doomed) /\ Held(call[c])
      /\ Adopts(call[c], vdi)
  BY HeldByCall DEF AdoptInv, DiskInv, CallsLocated
<1> USE DEF At
<1>2. CASE LookupByTag(c)
  <2>1. vdi' = vdi  BY <1>2 DEF LookupByTag, store
  <2>2. ASSUME NEW d \in Vdis, Found(c, d) PROVE Adopting(c)
    <3> DEFINE pc == AfterLookup(call[c].op, vdi[d].cluster)
    <3>1. ClusterTag /\ call[c].op = "publish" /\ pc \in AfterAdoption => vdi[d].cluster
      BY DEF AfterLookup, AfterAdoption
    <3>2. \/ call[c].op = "validate" /\ Succeed(c)
          \/ Keep(c, d, pc) /\ UNCHANGED CO
      BY <2>2 DEF Found
    <3> HIDE DEF pc
    <3>3. CASE call[c].op = "validate" /\ Succeed(c)  BY <3>3 DEF Adopting
    <3> QED BY <2>1, <3>1, <3>2, <3>3, KeepAdopting
  <2>3. ASSUME Goto(c, "byLabel"), UNCHANGED CO PROVE Adopting(c)
    BY <2>3, GotoAdopting DEF AfterAdoption, Publishing
  <2> QED BY <1>2, <2>2, <2>3 DEF LookupByTag, Adopting
<1>3. CASE LookupByLabel(c) \/ LookupByUUID(c)
  <2>1. vdi' = vdi  BY <1>3 DEF LookupByLabel, LookupByUUID, store
  <2>2. ASSUME NEW d \in Vdis, Keep(c, d, "recover"), UNCHANGED CO PROVE Adopting(c)
    BY <2>1, <2>2, KeepAdopting DEF AfterAdoption, Publishing
  <2>3. ASSUME Goto(c, "byUUID"), UNCHANGED CO PROVE Adopting(c)
    BY <2>3, GotoAdopting DEF AfterAdoption, Publishing
  <2>4. ASSUME NotFound(c) PROVE Adopting(c)  BY <2>4 DEF NotFound, Adopting
  <2> QED BY <1>3, <2>2, <2>3, <2>4 DEF LookupByLabel, LookupByUUID, ByUUID, Adopting
<1>4. CASE RecoverTags(c)
  <2> DEFINE pc == AfterLookup(call[c].op, call[c].adopted)
  <2>1. \/ call[c].op = "validate" /\ Succeed(c)
        \/ Goto(c, pc) /\ UNCHANGED CO
    BY <1>4 DEF RecoverTags
  <2>2. CASE call[c].op = "validate" /\ Succeed(c)  BY <2>2 DEF Adopting
  <2>3. CASE Goto(c, pc) /\ UNCHANGED CO
    <3> DEFINE k == [call[c] EXCEPT !.pc = pc]
    <3>1. k.pc = pc /\ k.op = call[c].op /\ k.vol = call[c].vol /\ k.vdi = call[c].vdi
      BY <1>1 DEF CallRecord
    <3>2. call' = [call EXCEPT ![c] = k]  BY <2>3 DEF Goto
    <3>3. call[c].pc = "recover"  BY <1>4 DEF RecoverTags
    <3>4. Adopts(call[c], vdi')  BY <1>1, AdoptsStays
    <3>5. /\ ClusterTag /\ call[c].op = "publish" /\ pc \in AfterAdoption => call[c].adopted
          /\ pc # "recover"
      BY DEF AfterLookup, AfterAdoption
    <3> HIDE DEF k, pc
    <3>6. Adopts(k, vdi')  BY <3>1, <3>3, <3>4, <3>5 DEF Adopts
    <3> QED BY <2>3, <3>2, <3>6 DEF Adopting
  <2> QED BY <2>1, <2>2, <2>3
<1>5. CASE AdoptVDI(c)
  <2>1. CASE Reject(c)  BY <2>1 DEF Adopting
  <2>2. CASE vdi' = [vdi EXCEPT ![call[c].vdi].cluster = TRUE] /\ Goto(c, "getVM") /\ UNCHANGED CO
    <3> DEFINE k == [call[c] EXCEPT !.pc = "getVM"]
    <3>1. k.pc = "getVM" /\ k.vdi = call[c].vdi  BY <1>1 DEF CallRecord
    <3>2. call' = [call EXCEPT ![c] = k]  BY <2>2 DEF Goto
    <3>3. call[c].vdi \in Vdis  BY <1>1, <1>5 DEF AdoptVDI, Held, NeedsVdi, PC
    <3>4. vdi \in [Vdis -> VDIRecord]  BY DEF AdoptInv, DiskInv, IInv, Coherent
    <3>5. vdi'[call[c].vdi].cluster  BY <2>2, <3>3, <3>4 DEF VDIRecord
    <3> HIDE DEF k
    <3>6. Adopts(k, vdi')  BY <3>1, <3>5 DEF Adopts
    <3> QED BY <2>2, <3>2, <3>6 DEF Adopting
  <2> QED BY <1>5, <2>1, <2>2 DEF AdoptVDI
<1>6. CASE RefetchVDI(c)
  <2>1. CASE Reject(c)  BY <2>1 DEF Adopting
  <2>2. CASE Keep(c, call[c].vdi, "checkSR") /\ UNCHANGED CO
    <3>1. /\ call[c].pc \in AfterAdoption /\ call[c].vdi \in Vdis /\ call[c].vol \in Local
          /\ vdi' = vdi
      BY <1>1, <1>6
      DEF RefetchVDI, store, AfterAdoption, Publishing, Held, NeedsVdi, PC, Located, Migrating
    <3> DEFINE d == call[c].vdi
               k == [call[c] EXCEPT !.pc = "checkSR", !.vdi = d, !.sr = vdi[d].sr,
                                    !.tags = vdi[d].idTags, !.adopted = vdi[d].cluster]
    <3>2. k.vol = call[c].vol  BY <1>1 DEF CallRecord
    <3>3. call' = [call EXCEPT ![c] = k]  BY <2>2 DEF Keep
    <3> HIDE DEF k
    <3>4. Adopts(k, vdi')  BY <3>1, <3>2 DEF Adopts
    <3> QED BY <2>2, <3>3, <3>4 DEF Adopting
  <2> QED BY <1>6, <2>1, <2>2 DEF RefetchVDI
<1>7. CASE \/ GetVM(c) \/ FindLocalSRForHost(c) \/ CheckVbds(c) \/ CreateVBD(c) \/ FindVBD(c)
  <2>1. ASSUME NEW k, call' = [call EXCEPT ![c] = k], UNCHANGED CO, k.op = call[c].op,
               k.vol = call[c].vol, k.vdi = call[c].vdi, k.pc # "recover",
               call[c].pc \in AfterAdoption \/ k.pc \notin AfterAdoption
        PROVE  Adopting(c)
    BY <2>1, StillAdopted
  <2>2. CASE GetVM(c)
    <3>1. call[c].pc \in AfterAdoption  BY <2>2 DEF GetVM, AfterAdoption, Publishing
    <3>2. CASE Reject(c)  BY <3>2 DEF Adopting
    <3>3. CASE ~Reject(c)
      <4> DEFINE k == [call[c] EXCEPT !.host = host[call[c].vm],
                         !.pc = IF call[c].vol \in Local THEN "findSR" ELSE "checkSR"]
      <4>1. call' = [call EXCEPT ![c] = k] /\ UNCHANGED CO  BY <2>2, <3>3 DEF GetVM
      <4>2. k.op = call[c].op /\ k.vol = call[c].vol /\ k.vdi = call[c].vdi /\ k.pc # "recover"
        BY <1>1 DEF CallRecord
      <4> HIDE DEF k
      <4> QED BY <2>1, <3>1, <4>1, <4>2
    <3> QED BY <3>2, <3>3
  <2>3. CASE FindLocalSRForHost(c)
    <3>1. call[c].pc \in AfterAdoption  BY <2>3 DEF FindLocalSRForHost, AfterAdoption, Publishing
    <3>2. CASE Reject(c)  BY <3>2 DEF Adopting
    <3>3. CASE ~Reject(c)
      <4>1. PICK s \in SRs :
              /\ call' = [call EXCEPT ![c] = [call[c] EXCEPT !.to = s,
                            !.pc = IF s = call[c].sr THEN "checkSR" ELSE "migrate"]]
              /\ UNCHANGED CO
        BY <2>3, <3>3 DEF FindLocalSRForHost
      <4> DEFINE k == [call[c] EXCEPT !.to = s,
                         !.pc = IF s = call[c].sr THEN "checkSR" ELSE "migrate"]
      <4>2. call' = [call EXCEPT ![c] = k]  BY <4>1
      <4>3. k.op = call[c].op /\ k.vol = call[c].vol /\ k.vdi = call[c].vdi /\ k.pc # "recover"
        BY <1>1 DEF CallRecord
      <4> HIDE DEF k
      <4> QED BY <2>1, <3>1, <4>1, <4>2, <4>3
    <3> QED BY <3>2, <3>3
  <2>4. ASSUME NEW b, NEW pc \in {"poll", "connect", "disconnect"}, UNCHANGED CO,
               call' = [call EXCEPT ![c] = [call[c] EXCEPT !.pc = pc, !.vbd = b]],
               call[c].pc \in AfterAdoption \/ pc \notin AfterAdoption
        PROVE  Adopting(c)
    <3> DEFINE k == [call[c] EXCEPT !.pc = pc, !.vbd = b]
    <3>1. call' = [call EXCEPT ![c] = k]  BY <2>4
    <3>2. k.op = call[c].op /\ k.vol = call[c].vol /\ k.vdi = call[c].vdi /\ k.pc = pc
      BY <1>1 DEF CallRecord
    <3> HIDE DEF k
    <3> QED BY <2>1, <2>4, <3>1, <3>2
  <2>5. CASE CheckVbds(c)
    <3>1. call[c].pc \in AfterAdoption  BY <2>5 DEF CheckVbds, AfterAdoption, Publishing
    <3>2. CASE Reject(c) \/ Succeed(c)  BY <3>1, <3>2 DEF Adopting
    <3>3. CASE Goto(c, "create") /\ UNCHANGED CO  BY <3>1, <3>3, GotoAdopting
    <3> QED BY <2>4, <2>5, <3>1, <3>2, <3>3 DEF CheckVbds
  <2>6. CASE CreateVBD(c)
    <3>1. call[c].pc \in AfterAdoption  BY <2>6 DEF CreateVBD, AfterAdoption, Publishing
    <3> QED BY <2>4, <2>6, <3>1 DEF CreateVBD, Adopting
  <2>7. CASE FindVBD(c)
    <3>1. call[c].op = "unpublish"  BY <1>1, <2>7 DEF FindVBD, Located
    <3>2. CASE Succeed(c)  BY <3>1, <3>2 DEF Adopting
    <3>3. "disconnect" \notin AfterAdoption  BY DEF AfterAdoption, Publishing
    <3> QED BY <2>4, <2>7, <3>2, <3>3 DEF FindVBD, NoVBD
  <2> QED BY <1>7, <2>2, <2>3, <2>5, <2>6, <2>7
<1>8. ASSUME Reject(c) PROVE Adopting(c)  BY <1>8 DEF Adopting
<1>9. ASSUME Succeed(c), call[c].op # "publish" \/ call[c].pc \in AfterAdoption
      PROVE  Adopting(c)
  BY <1>9 DEF Adopting
<1>10. ASSUME NEW pc, Goto(c, pc), UNCHANGED CO, pc # "recover",
              pc \notin AfterAdoption \/ call[c].pc \in AfterAdoption
       PROVE  Adopting(c)
  BY <1>10, GotoAdopting
<1>11. CASE \/ StartMigration(c) \/ CopyTags(c) \/ IsSRAttachedToHost(c) \/ ConnectVBD(c)
            \/ AwaitConnect(c) \/ GetConnectedVBD(c) \/ PollVBD(c)
  <2>1. call[c].pc \in AfterAdoption
    BY <1>11 DEF StartMigration, CopyTags, IsSRAttachedToHost, ConnectVBD, AwaitConnect,
                 GetConnectedVBD, PollVBD, AfterAdoption, Publishing
  <2>2. Reject(c) \/ Succeed(c) \/ (\E pc : Goto(c, pc) /\ UNCHANGED CO /\ pc # "recover")
    BY <1>11 DEF StartMigration, CopyTags, IsSRAttachedToHost, ConnectVBD, AwaitConnect,
                 GetConnectedVBD, PollVBD, CO
  <2> QED BY <1>8, <1>9, <1>10, <2>1, <2>2
<1>12. CASE \/ DisconnectVBD(c) \/ AwaitDisconnect(c) \/ CheckUnused(c) \/ DeleteVDI(c)
             \/ AnswerDeleted(c)
  <2>1. call[c].op # "publish"
    BY <1>1, <1>12 DEF DisconnectVBD, AwaitDisconnect, CheckUnused, DeleteVDI, AnswerDeleted,
                      Located
  <2>2. \/ Reject(c) \/ Succeed(c)
        \/ \E pc \in {"disconnecting", "destroy", "destroyed"} : Goto(c, pc) /\ UNCHANGED CO
    BY <1>12 DEF DisconnectVBD, AwaitDisconnect, CheckUnused, DeleteVDI, AnswerDeleted, CO
  <2>3. \A pc \in {"disconnecting", "destroy", "destroyed"} : pc \notin AfterAdoption
    BY DEF AfterAdoption, Publishing
  <2> QED BY <1>8, <1>9, <1>10, <2>1, <2>2, <2>3
<1>13. CASE PollTimeout(c) \/ Interrupted(c) \/ TaskWaitFails(c)
  <2>1. "panic" \notin AfterAdoption  BY DEF AfterAdoption, Publishing
  <2> QED BY <1>8, <1>10, <1>13, <2>1 DEF PollTimeout, Interrupted, TaskWaitFails
<1> QED BY <1>2, <1>3, <1>4, <1>5, <1>6, <1>7, <1>11, <1>12, <1>13 DEF Handle

\* What was published stays adopted, and what a handler answers OK is.
LEMMA InStaysAdopted ==
  ASSUME AdoptInv, ClusterKept,
         \A v \in Volumes, m \in VMs : co'[v][m] = "in" /\ v \notin Local /\ ClusterTag =>
           co[v][m] = "in" \/ vdi'[HomeVdi[v]].cluster
  PROVE  InAdopted'
<1>1. \A v \in Volumes : HomeVdi[v] \in Vdis /\ vdi[HomeVdi[v]].state # "unused"
  BY VolumeAssumption DEF AdoptInv, DiskInv, IInv, Coherent
<1> QED BY <1>1 DEF AdoptInv, InAdopted, ClusterKept

\* A publish is acknowledged only for a disk that was adopted.
LEMMA PublishedIsAdopted ==
  ASSUME AdoptInv, ClusterKept, NEW c \in Calls, Succeed(c),
         call[c].op = "publish" => call[c].pc \in AfterAdoption
  PROVE  InAdopted'
<1>1. /\ Adopts(call[c], vdi) /\ Held(call[c]) /\ Good(call[c], vdi, vbd)
      /\ call[c] \in CallRecord
  BY HeldByCall DEF AdoptInv, DiskInv, IInv, CallsGood
<1>2. ASSUME NEW v \in Volumes, NEW m \in VMs, v \notin Local, ClusterTag,
             co'[v][m] = "in", co[v][m] # "in"
      PROVE  vdi'[HomeVdi[v]].cluster
  <2>1. co \in [Volumes -> [VMs -> {"out", "attaching", "in", "detaching"}]]
    BY DEF AdoptInv, DiskInv, IInv, COTypeOK
  <2>2. call[c].op = "publish" /\ co' = Noted(call[c].vol, call[c].vm, "in")
    <3>1. CASE call[c].op = "publish"  BY <3>1 DEF Succeed
    <3>2. CASE call[c].op = "unpublish"
      <4>1. co' = Noted(call[c].vol, call[c].vm, "out")  BY <3>2 DEF Succeed
      <4> QED BY <1>2, <2>1, <4>1 DEF Noted
    <3>3. CASE call[c].op \notin {"publish", "unpublish"}  BY <1>2, <3>3 DEF Succeed
    <3> QED BY <3>1, <3>2, <3>3
  <2>3. call[c].vol = v  BY <1>2, <2>1, <2>2 DEF Noted
  <2>4. call[c].vdi \in Vdis /\ vdi[call[c].vdi].state # "unused" /\ vdi[call[c].vdi].owner = v
    BY <1>1, <2>2, <2>3, NoneAssumption
    DEF Held, AfterAdoption, Publishing, NeedsVdi, PC, Good
  <2>5. call[c].vdi = HomeVdi[v]  BY <1>2, <2>4 DEF AdoptInv, DiskInv, DisksOK, HomeStays
  <2> QED BY <1>1, <1>2, <2>2, <2>3, <2>4, <2>5 DEF Adopts, ClusterKept
<1> QED BY <1>2, InStaysAdopted

\* A step of one call.
LEMMA AdoptingStep ==
  ASSUME AdoptInv, ClusterKept, NEW c \in Calls, Adopting(c)
  PROVE  (\A e \in Calls : Adopts(call'[e], vdi')) /\ InAdopted'
<1>1. \A e \in Calls : Adopts(call[e], vdi')
  BY AdoptsStays, HeldByCall DEF AdoptInv, DiskInv
<1>2. Adopts(Idle, vdi')  BY DEF Adopts, Idle, AfterAdoption, Publishing
<1>3. call \in [Calls -> CallRecord]  BY DEF AdoptInv, DiskInv, IInv, CallsGood
<1>4. ASSUME Reject(c) \/ Succeed(c) PROVE \A e \in Calls : Adopts(call'[e], vdi')
  <2>1. call' = [call EXCEPT ![c] = Idle]  BY <1>4 DEF Reject, Succeed
  <2> QED BY <1>1, <1>2, <1>3, <2>1
<1>5. CASE Reject(c)  BY <1>4, <1>5, InStaysAdopted DEF Reject, CO
<1>6. CASE Succeed(c) /\ (call[c].op = "publish" => call[c].pc \in AfterAdoption)
  BY <1>4, <1>6, PublishedIsAdopted
<1>7. CASE \E k : Adopts(k, vdi') /\ call' = [call EXCEPT ![c] = k] /\ UNCHANGED CO
  <2>1. InAdopted'  BY <1>7, InStaysAdopted DEF CO
  <2> QED BY <1>1, <1>3, <1>7, <2>1
<1> QED BY <1>5, <1>6, <1>7 DEF Adopting

\* Nothing is published yet.
LEMMA InitAdoptInv == Init => AdoptInv
<1> SUFFICES ASSUME Init PROVE AdoptInv
  OBVIOUS
<1>1. \A c \in Calls : Adopts(call[c], vdi)  BY DEF Init, Adopts, Idle, AfterAdoption, Publishing
<1>2. InAdopted  BY DEF Init, InAdopted
<1> QED BY <1>1, <1>2, InitDiskInv DEF AdoptInv

\* Every step keeps what is known of adopted disks.
LEMMA NextAdoptInv ==
  ASSUME "erase" \notin Faults
  PROVE  AdoptInv /\ [Next]_vars => AdoptInv'
<1> SUFFICES ASSUME AdoptInv, [Next]_vars PROVE AdoptInv'
  OBVIOUS
<1>1. DiskInv' /\ ClusterKept  BY NextDiskInv, ClusterStays DEF AdoptInv
<1> SUFFICES (\A e \in Calls : Adopts(call'[e], vdi')) /\ InAdopted'
  BY <1>1 DEF AdoptInv
<1>2. \A e \in Calls : Adopts(call[e], vdi') /\ Adopts(Idle, vdi')
  <2>1. Adopts(Idle, vdi')  BY DEF Adopts, Idle, AfterAdoption, Publishing
  <2> QED BY <1>1, <2>1, AdoptsStays, HeldByCall DEF AdoptInv, DiskInv
<1>3. ASSUME NEW c \in Calls, Handle(c) \/ PollTimeout(c) \/ Interrupted(c) \/ TaskWaitFails(c)
      PROVE  (\A e \in Calls : Adopts(call'[e], vdi')) /\ InAdopted'
  BY <1>1, <1>3, HandleAdopting, AdoptingStep
<1>4. ASSUME NEW c \in Calls, NEW op \in Ops, NEW v \in Volumes, NEW m \in VMs \cup {None},
             StartCall(c, op, v, m)
      PROVE  (\A e \in Calls : Adopts(call'[e], vdi')) /\ InAdopted'
  <2> DEFINE k == [Idle EXCEPT !.op = op, !.pc = "byTag", !.vol = v, !.vm = m]
  <2>1. call' = [call EXCEPT ![c] = k]  BY <1>4 DEF StartCall
  <2>2. k.pc = "byTag"  BY DEF Idle
  <2> HIDE DEF k
  <2>3. Adopts(k, vdi')  BY <2>2 DEF Adopts, AfterAdoption, Publishing
  <2>4. call \in [Calls -> CallRecord] /\ COTypeOK  BY DEF AdoptInv, DiskInv, IInv, CallsGood
  <2>5. \A w \in Volumes, n \in VMs : co'[w][n] = "in" => co[w][n] = "in"
    BY <1>4, <2>4 DEF StartCall, Noted, COTypeOK
  <2> QED BY <1>1, <1>2, <2>1, <2>3, <2>4, <2>5, InStaysAdopted
<1>5. ASSUME NEW d \in Vdis, NEW n \in Vdis, FinishMigration(d, n)
      PROVE  (\A e \in Calls : Adopts(call'[e], vdi')) /\ InAdopted'
  <2>1. ASSUME NEW e \in Calls PROVE Adopts(call'[e], vdi')
    <3>1. CASE ~Awaits(e, d)  BY <1>2, <1>5, <3>1 DEF FinishMigration
    <3>2. CASE Awaits(e, d)
      <4>1. call[e].vol \in Local /\ call[e] \in CallRecord
        BY <3>2, HeldByCall DEF Awaits, At, Migrating, AdoptInv, DiskInv, CallsLocated, Located
      <4> DEFINE k == [call[e] EXCEPT !.pc = "copyTags", !.vdi = n]
      <4>2. call'[e] = k  BY <1>5, <3>2 DEF FinishMigration
      <4>3. k.vol = call[e].vol  BY <4>1 DEF CallRecord
      <4> HIDE DEF k
      <4> QED BY <4>1, <4>2, <4>3 DEF Adopts
    <3> QED BY <3>1, <3>2
  <2> QED BY <1>1, <1>5, <2>1, InStaysAdopted DEF FinishMigration, CO
<1>6. CASE \E d \in Vdis : FailMigration(d)
  BY <1>1, <1>2, <1>6, InStaysAdopted DEF FailMigration, CO
<1>7. CASE Crash  BY <1>1, <1>2, <1>7, InStaysAdopted DEF Crash, CO
<1>8. CASE UNCHANGED <<call, co>>  BY <1>1, <1>2, <1>8, InStaysAdopted
<1> QED BY <1>3, <1>4, <1>5, <1>6, <1>7, <1>8 DEF Next, vars, CO

\* Unless an administrator takes the tag off, a disk that is not migrated carries
\* it wherever it is published, also when its tags were recovered or its publish
\* was cut short and tried again.
THEOREM SharedDisksAreAdopted ==
  ASSUME "erase" \notin Faults
  PROVE  Spec => []SharedIsAdopted
<1>1. AdoptInv => SharedIsAdopted
  <2> SUFFICES ASSUME AdoptInv, NEW b \in Vbds, ClusterTag, Attached(b),
                      vdi[vbd[b].vdi].owner \notin Local,
                      co[vdi[vbd[b].vdi].owner][vbd[b].vm] = "in"
               PROVE  vdi[vbd[b].vdi].cluster
    BY DEF SharedIsAdopted
  <2>1. Exists(b)  BY DEF Exists, Attached
  <2>2. Placed(b) /\ vbd[b].vdi \in Vdis
    BY <2>1, VbdRefers DEF AdoptInv, DiskInv, IInv, DisksOK, VbdsPlaced
  <2>3. vbd[b].vdi = HomeVdi[vdi[vbd[b].vdi].owner]
    BY <2>2 DEF Placed, AdoptInv, DiskInv, DisksOK, HomeStays
  <2> QED BY <2>2, <2>3 DEF Placed, AdoptInv, InAdopted
<1> QED BY <1>1, InitAdoptInv, NextAdoptInv, PTL DEF Spec
=============================================================================
