--------------------------- MODULE OrderedProofs ---------------------------
(***************************************************************************)
(* What the driver keeps for a CO that orders its calls, as Kubernetes     *)
(* does: for any number of volumes, VMs, hosts and goroutines, and for any *)
(* failures of requests, migrations, plugs and the process itself, its     *)
(* answers are true when they are given and a disk is in one VM at most.   *)
(*                                                                         *)
(* The invariant has a part for each volume, which relates the CO's        *)
(* VolumeAttachments to the VBDs of its disk, and two for each call: what  *)
(* the CO asked for, and what the call has seen that is still true.  A     *)
(* step concerns one volume; Drift says what it may do to another one.     *)
(***************************************************************************)
EXTENDS DiskProofs, FiniteSetTheorems

\* The CO orders its calls; no volume loses its handle by a migration
\* (static_tag_lost), no unplug fails (unplug_ignored), XO refuses at once to
\* disconnect a VBD that is being plugged, and each host has one local SR, so that
\* a publish tried again is not given another one.
Orderly == /\ Ordered /\ Static \cap Local = {}
           /\ "unplug" \notin Faults /\ "locked" \notin Faults /\ OneLocalSR

Plugged(b) == vbd[b].plug \in {"plugging", "on", "unplugging"}
OwnerOf(b) == vdi[vbd[b].vdi].owner

\* The CO has business with one VM of a volume at a time.
Sole(v) == \A m1, m2 \in VMs : co[v][m1] # "out" /\ co[v][m2] # "out" => m1 = m2

\* A disk is plugged where the CO wants it, or wants it no more but was not told
\* that it is gone; a device name does not outlive the device.
Wanted(v) ==
  \A b \in Vbds : Exists(b) /\ OwnerOf(b) = v =>
    /\ Plugged(b) => co[v][vbd[b].vm] # "out"
    /\ vbd[b].plug = "unplugging" => co[v][vbd[b].vm] = "detaching"
    /\ vbd[b].named => Attached(b)

\* No publish adds a second VBD for its VM, however often it is tried again.
OneVbd(v) ==
  \A a, b \in Vbds :
    Exists(a) /\ Exists(b) /\ vbd[a].vm = vbd[b].vm /\ OwnerOf(a) = v /\ OwnerOf(b) = v => a = b

\* What was published is there.
Given(v) ==
  \A m \in VMs : co[v][m] = "in" =>
    \E b \in Vbds : vbd[b].plug = "on" /\ vbd[b].named /\ vbd[b].vm = m /\ OwnerOf(b) = v

VolumeOK(v) == Sole(v) /\ Wanted(v) /\ OneVbd(v) /\ Given(v)

OneCallPerVolume ==
  \A c, e \in Calls : call[c].vol # None /\ call[c].vol = call[e].vol => c = e

\* What the CO has noted of the VM that a call is for, and of the volume.
Asked(k, C, X) ==
  /\ k.pc = "idle" => k = Idle
  /\ k.pc # "idle" =>
       /\ k.vol \notin X
       /\ k.op = "publish" => C[k.vol][k.vm] = "attaching"
       /\ k.op = "unpublish" => C[k.vol][k.vm] = "detaching"
       /\ k.op = "delete" => \A m \in VMs : C[k.vol][m] = "out"

\* What a call has seen of the VBDs and still holds: a publish that is about to
\* create one, that there is none; a call that did not find a dynamic volume by its
\* name, and an unpublish whose disk has got another UUID in the meantime, that nothing
\* is plugged; and an unpublish that waits for its unplug, that nobody plugs again.
Sees(k, D, B) ==
  /\ k.pc = "create" /\ D[k.vdi].state = "live" =>
       \A b \in Vbds : ~(/\ B[b].plug \notin {"unused", "gone"}
                         /\ B[b].vm = k.vm /\ D[B[b].vdi].owner = k.vol)
  /\ \/ k.pc = "byUUID" /\ k.vol \notin Static
     \/ k.pc # "idle" /\ k.op = "unpublish" /\ k.vdi # None /\ D[k.vdi].state # "live"
     => \A b \in Vbds : ~(/\ B[b].plug \in {"plugging", "on", "unplugging"}
                          /\ D[B[b].vdi].owner = k.vol)
  /\ k.pc = "disconnecting" => B[k.vbd].plug \in {"unplugging", "off"}

CallOK(k) == Asked(k, co, deleted) /\ Sees(k, vdi, vbd)

OrdInv ==
  /\ \A v \in Volumes : VolumeOK(v)
  /\ OneCallPerVolume
  /\ \A c \in Calls : CallOK(call[c])

Inv == DiskInv /\ OrdInv

-----------------------------------------------------------------------------
(* What may happen to a volume on its own. *)

\* A VBD changes as XO changes it.
Drifts(b) ==
  \/ vbd'[b].plug = vbd[b].plug /\ vbd'[b].named = vbd[b].named
  \/ vbd[b].plug = "plugging" /\ vbd'[b].plug = "on"
  \/ vbd[b].plug = "plugging" /\ vbd'[b].plug = "off" /\ vbd'[b].named = vbd[b].named
  \/ vbd[b].plug = "on" /\ vbd'[b].plug = "on" /\ vbd'[b].named
  \/ vbd[b].plug = "unplugging" /\ vbd'[b].plug = "off" /\ ~vbd'[b].named

\* So do all VBDs of the volume, and its disk gets no other UUID while it is plugged.
Drift(v) ==
  /\ \A b \in Vbds : vbd'[b].plug # "unused" /\ OwnerOf(b)' = v =>
       vbd[b].plug # "unused" /\ Drifts(b)
  /\ \A d \in Vdis : vdi[d].state # "unused" /\ vdi[d].owner = v =>
       /\ Live(d)' => Live(d)
       /\ Live(d) /\ ~Live(d)' => \A b \in Vbds : Plugged(b) => OwnerOf(b) # v

\* No VBD changes its VM or the volume it is for, nor a disk its owner.
Lasts == Extends(vdi, vbd, vdi', vbd')

\* A volume that drifts is what it was.
LEMMA DriftVolume ==
  ASSUME IInv, NEW v \in Volumes, VolumeOK(v), Lasts, Drift(v), co'[v] = co[v]
  PROVE  VolumeOK(v)'
<1>1. ASSUME NEW b \in Vbds, vbd'[b].plug # "unused", OwnerOf(b)' = v
      PROVE  /\ vbd[b].plug # "unused" /\ Drifts(b)
             /\ vbd'[b].vm = vbd[b].vm /\ OwnerOf(b) = v
  BY <1>1 DEF Drift, Lasts, Extends, OwnerOf
<1>2. ASSUME NEW b \in Vbds, vbd[b].plug # "unused"
      PROVE  vbd'[b].plug # "unused" /\ OwnerOf(b)' = OwnerOf(b)
  BY <1>2 DEF Lasts, Extends, OwnerOf
<1>3. Sole(v)'  BY DEF VolumeOK, Sole
<1>4. Wanted(v)'
  <2> SUFFICES ASSUME NEW b \in Vbds, Exists(b)', OwnerOf(b)' = v
               PROVE  /\ Plugged(b)' => co[v][vbd[b].vm] # "out"
                      /\ vbd'[b].plug = "unplugging" => co[v][vbd[b].vm] = "detaching"
                      /\ vbd'[b].named => Attached(b)'
                      /\ vbd'[b].vm = vbd[b].vm
    BY DEF Wanted
  <2>1. vbd[b].plug # "unused" /\ Drifts(b) /\ vbd'[b].vm = vbd[b].vm /\ OwnerOf(b) = v
    BY <1>1 DEF Exists
  <2>2. Exists(b)  BY <2>1 DEF Drifts, Exists
  <2> QED BY <2>1, <2>2 DEF VolumeOK, Wanted, Drifts, Plugged, Attached
<1>5. OneVbd(v)'
  <2>1. \A b \in Vbds : Exists(b)' /\ OwnerOf(b)' = v =>
          Exists(b) /\ OwnerOf(b) = v /\ vbd'[b].vm = vbd[b].vm
    BY <1>1 DEF Drifts, Exists
  <2> QED BY <2>1 DEF VolumeOK, OneVbd
<1>6. Given(v)'
  <2> SUFFICES ASSUME NEW m \in VMs, co[v][m] = "in"
               PROVE  \E b \in Vbds : /\ vbd'[b].plug = "on" /\ vbd'[b].named
                                      /\ vbd'[b].vm = m /\ OwnerOf(b)' = v
    BY DEF Given
  <2>1. PICK b \in Vbds : vbd[b].plug = "on" /\ vbd[b].named /\ vbd[b].vm = m /\ OwnerOf(b) = v
    BY DEF VolumeOK, Given
  <2>2. vbd'[b].plug # "unused" /\ OwnerOf(b)' = v  BY <1>2, <2>1
  <2>3. Drifts(b) /\ vbd'[b].vm = m  BY <1>1, <2>1, <2>2
  <2> QED BY <2>1, <2>2, <2>3 DEF Drifts
<1> QED BY <1>3, <1>4, <1>5, <1>6 DEF VolumeOK

\* What a call sees of a volume that drifts stays as it is.
LEMMA DriftSees ==
  ASSUME NEW k, Good(k, vdi, vbd), k.pc # "idle", Drift(k.vol), Lasts, Sees(k, vdi, vbd)
  PROVE  Sees(k, vdi', vbd')
<1>1. ASSUME NEW b \in Vbds, vbd'[b].plug # "unused", OwnerOf(b)' = k.vol
      PROVE  /\ vbd[b].plug # "unused" /\ Drifts(b)
             /\ vbd'[b].vm = vbd[b].vm /\ OwnerOf(b) = k.vol
  BY <1>1 DEF Drift, Lasts, Extends, OwnerOf
<1>2. k.vdi # None => k.vdi \in Vdis /\ vdi[k.vdi].state # "unused" /\ vdi[k.vdi].owner = k.vol
  BY DEF Good, CallRecord
<1>3. k.pc = "create" => k.vdi # None
  BY NoneAssumption DEF Good, NeedsVdi, PC
<1>4. ASSUME k.pc = "create", vdi'[k.vdi].state = "live",
             NEW b \in Vbds, vbd'[b].plug \notin {"unused", "gone"}, OwnerOf(b)' = k.vol
      PROVE  vbd'[b].vm # k.vm
  <2>1. vdi[k.vdi].state = "live"  BY <1>2, <1>3, <1>4 DEF Drift, Live
  <2>2. Drifts(b) /\ vbd'[b].vm = vbd[b].vm /\ vdi[vbd[b].vdi].owner = k.vol
        /\ vbd[b].plug # "unused"
    BY <1>1, <1>4 DEF OwnerOf
  <2>3. vbd[b].plug \notin {"unused", "gone"}  BY <1>4, <2>2 DEF Drifts
  <2> QED BY <1>4, <2>1, <2>2, <2>3 DEF Sees
<1>5. ASSUME \/ k.pc = "byUUID" /\ k.vol \notin Static
             \/ k.op = "unpublish" /\ k.vdi # None /\ vdi'[k.vdi].state # "live",
             NEW b \in Vbds, vbd'[b].plug \in {"plugging", "on", "unplugging"}
      PROVE  OwnerOf(b)' # k.vol
  <2> SUFFICES ASSUME OwnerOf(b)' = k.vol PROVE FALSE
    OBVIOUS
  <2>1. vbd[b].plug # "unused" /\ Drifts(b) /\ OwnerOf(b) = k.vol  BY <1>1, <1>5
  <2>2. Plugged(b)  BY <1>5, <2>1 DEF Drifts, Plugged
  <2>3. CASE k.pc = "byUUID" /\ k.vol \notin Static
    BY <2>1, <2>2, <2>3 DEF Sees, Plugged, OwnerOf
  <2>4. CASE k.vdi # None /\ vdi[k.vdi].state = "live" /\ vdi'[k.vdi].state # "live"
    BY <1>2, <1>5, <2>1, <2>2, <2>4 DEF Drift, Live
  <2>5. CASE k.op = "unpublish" /\ k.vdi # None /\ vdi[k.vdi].state # "live"
    BY <1>5, <2>1, <2>2, <2>5 DEF Sees, Plugged, OwnerOf
  <2> QED BY <1>5, <2>3, <2>4, <2>5
<1>6. ASSUME k.pc = "disconnecting" PROVE vbd'[k.vbd].plug \in {"unplugging", "off"}
  <2>1. k.vbd \in Vbds /\ k.vbd # None  BY <1>6, NoneAssumption DEF Good, NeedsVbd
  <2>2. vbd[k.vbd].plug # "unused" /\ OwnerOf(k.vbd) = k.vol  BY <2>1 DEF Good, OwnerOf
  <2> DEFINE b == k.vbd
  <2>3. vbd'[b].plug # "unused" /\ OwnerOf(b)' = k.vol  BY <2>1, <2>2 DEF Lasts, Extends, OwnerOf
  <2>4. Drifts(b)  BY <1>1, <2>1, <2>3
  <2> QED BY <1>6, <2>4 DEF Drifts, Sees
<1> QED BY <1>4, <1>5, <1>6 DEF Sees, OwnerOf

-----------------------------------------------------------------------------
(* How calls step. *)

\* Every volume drifts.
Drifting == Lasts /\ \A v \in Volumes : Drift(v)

\* A step that writes no more of the store than tags or the target of a migration.
LEMMA SameDrifting ==
  ASSUME vbd' = vbd,
         \A d \in Vdis : vdi'[d].state = vdi[d].state /\ vdi'[d].owner = vdi[d].owner,
         Coherent(vdi, vbd)
  PROVE  Drifting
<1>1. \A b \in Vbds : vbd[b].plug # "unused" => OwnerOf(b)' = OwnerOf(b)
  BY DEF Coherent, OwnerOf
<1> QED BY <1>1 DEF Drifting, Lasts, Extends, Drift, Drifts, Live, OwnerOf

\* What only reads lets every volume drift.
LEMMA ReadDrifting ==
  ASSUME Inv, UNCHANGED store PROVE Drifting
BY SameDrifting DEF Inv, DiskInv, IInv, store

\* A call works for one volume, alone.
LEMMA Alone ==
  ASSUME Inv, NEW c \in Calls, call[c].pc # "idle"
  PROVE  /\ call[c].vol \in Volumes /\ call[c].op \in Ops
         /\ \A e \in Calls \ {c} : call[e].vol # call[c].vol
         /\ CallOK(call[c]) /\ Good(call[c], vdi, vbd) /\ Located(call[c], vdi, doomed)
         /\ call[c] \in CallRecord /\ call \in [Calls -> CallRecord]
BY NoneAssumption
DEF Inv, OrdInv, OneCallPerVolume, DiskInv, IInv, CallsGood, Good, CallsLocated

\* A call for the volume w steps; other volumes drift and so do the calls for them.
LEMMA OneOrdered ==
  ASSUME Inv, NEW c \in Calls, NEW w \in Volumes, NEW k, call' = [call EXCEPT ![c] = k],
         \A e \in Calls \ {c} : call[e].vol # w,
         k = Idle \/ (k.vol = w /\ k.pc # "idle"),
         Lasts, \A v \in Volumes \ {w} : Drift(v) /\ co'[v] = co[v],
         deleted' \subseteq deleted \cup {w}, VolumeOK(w)',
         Asked(k, co', deleted'), Sees(k, vdi', vbd')
  PROVE  OrdInv'
<1>1. call \in [Calls -> CallRecord] /\ IInv  BY DEF Inv, DiskInv, IInv, CallsGood
<1>2. \A e \in Calls : call'[e] = IF e = c THEN k ELSE call[e]  BY <1>1
<1>3. ASSUME NEW v \in Volumes PROVE VolumeOK(v)'
  <2>1. CASE v = w  BY <2>1
  <2>2. CASE v # w  BY <1>1, <2>2, DriftVolume DEF Inv, OrdInv
  <2> QED BY <2>1, <2>2
<1>4. OneCallPerVolume'
  BY <1>2 DEF OneCallPerVolume, Inv, OrdInv, Idle
<1>5. ASSUME NEW e \in Calls \ {c} PROVE Asked(call[e], co', deleted') /\ Sees(call[e], vdi', vbd')
  <2>1. /\ Asked(call[e], co, deleted) /\ Sees(call[e], vdi, vbd)
        /\ Good(call[e], vdi, vbd)
    BY <1>1 DEF Inv, OrdInv, CallOK, IInv, CallsGood
  <2>2. CASE call[e].pc = "idle"
    BY <2>1, <2>2 DEF Asked, Sees
  <2>3. CASE call[e].pc # "idle"
    <3>1. call[e].vol \in Volumes \ {w}  BY <2>1, <2>3 DEF Good
    <3>2. Asked(call[e], co', deleted')  BY <2>1, <2>3, <3>1 DEF Asked
    <3>3. Sees(call[e], vdi', vbd')  BY <2>1, <2>3, <3>1, DriftSees
    <3> QED BY <3>2, <3>3
  <2> QED BY <2>2, <2>3
<1>6. \A e \in Calls : CallOK(call[e])'  BY <1>2, <1>5 DEF CallOK
<1> QED BY <1>3, <1>4, <1>6 DEF OrdInv

\* A call steps while every volume drifts and the CO is told nothing.
LEMMA DriftingStep ==
  ASSUME Inv, NEW c \in Calls, call[c].pc # "idle", Drifting, UNCHANGED CO,
         NEW k, call' = [call EXCEPT ![c] = k],
         \/ k = Idle
         \/ /\ k.op = call[c].op /\ k.vol = call[c].vol /\ k.vm = call[c].vm
            /\ k.pc # "idle" /\ Sees(k, vdi', vbd')
  PROVE  OrdInv'
<1>1. PICK w \in Volumes : call[c].vol = w  BY Alone
<1>2. \A e \in Calls \ {c} : call[e].vol # w  BY <1>1, Alone
<1>3. co' = co /\ deleted' = deleted  BY DEF CO
<1>4. VolumeOK(w)'  BY <1>3, DriftVolume DEF Drifting, Inv, OrdInv, DiskInv
<1>5. Asked(call[c], co, deleted)  BY Alone DEF CallOK
<1>6. Asked(k, co', deleted') /\ Sees(k, vdi', vbd')
  <2>1. CASE k = Idle
    BY <2>1 DEF Asked, Sees, Idle
  <2>2. CASE k # Idle  BY <1>3, <1>5, <2>2 DEF Asked
  <2> QED BY <2>1, <2>2
<1> QED BY <1>1, <1>2, <1>3, <1>4, <1>6, OneOrdered DEF Drifting

\* The handler returns an error.
LEMMA RejectOrdered ==
  ASSUME Inv, NEW c \in Calls, call[c].pc # "idle", Drifting, Reject(c)
  PROVE  OrdInv'
BY DriftingStep DEF Reject, CO

\* The handler goes on with the same disk, where it relies on nothing new.
LEMMA SameDiskOrdered ==
  ASSUME Inv, NEW c \in Calls, call[c].pc # "idle", Drifting, UNCHANGED CO,
         NEW k, call' = [call EXCEPT ![c] = k],
         k.op = call[c].op, k.vol = call[c].vol, k.vm = call[c].vm, k.vdi = call[c].vdi,
         k.pc \notin {"idle", "byUUID", "create", "disconnecting"}
  PROVE  OrdInv'
<1>1. Sees(call[c], vdi', vbd')
  BY Alone, DriftSees DEF Drifting, CallOK
<1>2. Sees(k, vdi', vbd')  BY <1>1 DEF Sees
<1> QED BY <1>2, DriftingStep

\* The handler goes on and keeps all it holds.
LEMMA GotoOrdered ==
  ASSUME Inv, NEW c \in Calls, call[c].pc # "idle", Drifting, UNCHANGED CO,
         NEW pc, Goto(c, pc), pc \notin {"idle", "byUUID", "create", "disconnecting"}
  PROVE  OrdInv'
<1> DEFINE k == [call[c] EXCEPT !.pc = pc]
<1>1. call[c] \in CallRecord  BY Alone
<1>2. /\ k.pc = pc /\ k.op = call[c].op /\ k.vol = call[c].vol /\ k.vm = call[c].vm
      /\ k.vdi = call[c].vdi
  BY <1>1 DEF CallRecord
<1>3. call' = [call EXCEPT ![c] = k]  BY DEF Goto
<1> HIDE DEF k
<1> QED BY <1>2, <1>3, SameDiskOrdered

\* The handler goes on with a live disk that it has just read.
LEMMA KeepOrdered ==
  ASSUME Inv, NEW c \in Calls, call[c].pc # "idle", UNCHANGED store, UNCHANGED CO,
         NEW d \in Vdis, Live(d), NEW pc, Keep(c, d, pc),
         pc \notin {"idle", "byUUID", "create", "disconnecting"}
  PROVE  OrdInv'
<1> DEFINE k == [call[c] EXCEPT !.pc = pc, !.vdi = d, !.sr = vdi[d].sr,
                                !.tags = vdi[d].idTags, !.adopted = vdi[d].cluster]
<1>1. call[c] \in CallRecord  BY Alone
<1>2. /\ k.pc = pc /\ k.op = call[c].op /\ k.vol = call[c].vol /\ k.vm = call[c].vm
      /\ k.vdi = d
  BY <1>1 DEF CallRecord
<1>3. call' = [call EXCEPT ![c] = k]  BY DEF Keep
<1> HIDE DEF k
<1>4. Sees(k, vdi', vbd')  BY <1>2 DEF Sees, Live, store
<1> QED BY <1>2, <1>3, <1>4, ReadDrifting, DriftingStep

-----------------------------------------------------------------------------
(* What the CO asks and is told. *)

\* The CO notes something of the volume w and the VM m.
Notes(w, m, state) == co' = [co EXCEPT ![w][m] = state]

\* It notes nothing of other volumes and VMs.
LEMMA NotesOne ==
  ASSUME COTypeOK, NEW w \in Volumes, NEW m \in VMs, NEW state, Notes(w, m, state)
  PROVE  /\ \A v \in Volumes \ {w} : co'[v] = co[v]
         /\ \A n \in VMs : co'[w][n] = IF n = m THEN state ELSE co[w][n]
BY DEF COTypeOK, Notes

\* What the VBDs of a volume are is the same; what is noted of them is not.
LEMMA NotedVolume ==
  ASSUME Inv, UNCHANGED store, NEW w \in Volumes, NEW m \in VMs,
         NEW state \in {"out", "attaching", "in", "detaching"}, Notes(w, m, state),
         state # "out" => \A n \in VMs \ {m} : co[w][n] = "out",
         state = "out" =>
           \A b \in Vbds : Plugged(b) /\ OwnerOf(b) = w => vbd[b].vm # m,
         state \in {"attaching", "in"} => co[w][m] # "detaching",
         state = "in" =>
           \E b \in Vbds : vbd[b].plug = "on" /\ vbd[b].named /\ vbd[b].vm = m /\ OwnerOf(b) = w
  PROVE  VolumeOK(w)'
<1>1. \A n \in VMs : co'[w][n] = IF n = m THEN state ELSE co[w][n]
  BY NotesOne DEF Inv, DiskInv, IInv
<1>2. VolumeOK(w) /\ vdi' = vdi /\ vbd' = vbd  BY DEF Inv, OrdInv, store
<1>3. Sole(w)'  BY <1>1, <1>2 DEF VolumeOK, Sole
<1>4. Wanted(w)'
  <2> SUFFICES ASSUME NEW b \in Vbds, Exists(b), OwnerOf(b) = w
               PROVE  /\ Plugged(b) => co'[w][vbd[b].vm] # "out"
                      /\ vbd[b].plug = "unplugging" => co'[w][vbd[b].vm] = "detaching"
                      /\ vbd[b].named => Attached(b)
    BY <1>2 DEF Wanted, Exists, OwnerOf, Plugged, Attached
  <2>1. vbd[b].vm \in VMs
    BY DEF Inv, DiskInv, DisksOK, VbdsPlaced, Placed
  <2>2. /\ Plugged(b) => co[w][vbd[b].vm] # "out"
        /\ vbd[b].plug = "unplugging" => co[w][vbd[b].vm] = "detaching"
        /\ vbd[b].named => Attached(b)
    BY <1>2 DEF VolumeOK, Wanted
  <2> QED BY <1>1, <2>1, <2>2 DEF Plugged
<1>5. OneVbd(w)'  BY <1>2 DEF VolumeOK, OneVbd, Exists, OwnerOf
<1>6. Given(w)'  BY <1>1, <1>2 DEF VolumeOK, Given, OwnerOf
<1> QED BY <1>3, <1>4, <1>5, <1>6 DEF VolumeOK

\* A publish is acknowledged when the VBD of its VM is there under a device name.
LEMMA PublishedOrdered ==
  ASSUME Orderly, Inv, NEW c \in Calls, call[c].pc # "idle", call[c].op = "publish",
         UNCHANGED store, Succeed(c), NEW b \in Vbds, Attached(b), vbd[b].named,
         vbd[b].vm = call[c].vm, OwnerOf(b) = call[c].vol
  PROVE  OrdInv'
<1>1. PICK w \in Volumes, m \in VMs : call[c].vol = w /\ call[c].vm = m
  BY Alone DEF Good
<1>2. \A e \in Calls \ {c} : call[e].vol # w  BY <1>1, Alone
<1>3. co[w][m] = "attaching"  BY <1>1, Alone DEF CallOK, Asked
<1>4. VolumeOK(w)  BY DEF Inv, OrdInv
<1>5. vbd[b].plug = "on"
  BY <1>1, <1>3, <1>4 DEF VolumeOK, Wanted, Exists, Attached
<1>6. Notes(w, m, "in") /\ deleted' = deleted
  BY <1>1 DEF Succeed, Noted, Orderly, Notes
<1>7. \A n \in VMs \ {m} : co[w][n] = "out"  BY <1>3, <1>4 DEF VolumeOK, Sole
<1>8. VolumeOK(w)'  BY <1>1, <1>3, <1>5, <1>6, <1>7, NotedVolume
<1>9. Drifting /\ \A v \in Volumes \ {w} : co'[v] = co[v]
  BY <1>6, ReadDrifting, NotesOne DEF Inv, DiskInv, IInv
<1>10. Asked(Idle, co', deleted') /\ Sees(Idle, vdi', vbd')  BY DEF Asked, Sees, Idle
<1>11. call' = [call EXCEPT ![c] = Idle]  BY DEF Succeed
<1> QED BY <1>2, <1>6, <1>8, <1>9, <1>10, <1>11, OneOrdered DEF Drifting

\* An unpublish is acknowledged when no VBD plugs the disk into its VM.
LEMMA UnpublishedOrdered ==
  ASSUME Orderly, Inv, NEW c \in Calls, call[c].pc # "idle", call[c].op = "unpublish",
         UNCHANGED store, Succeed(c),
         \A b \in Vbds : Plugged(b) /\ OwnerOf(b) = call[c].vol => vbd[b].vm # call[c].vm
  PROVE  OrdInv'
<1>1. PICK w \in Volumes, m \in VMs : call[c].vol = w /\ call[c].vm = m
  BY Alone DEF Good
<1>2. \A e \in Calls \ {c} : call[e].vol # w  BY <1>1, Alone
<1>3. Notes(w, m, "out") /\ deleted' = deleted
  BY <1>1 DEF Succeed, Noted, Orderly, Notes
<1>4. VolumeOK(w)'  BY <1>1, <1>3, NotedVolume
<1>5. Drifting /\ \A v \in Volumes \ {w} : co'[v] = co[v]
  BY <1>3, ReadDrifting, NotesOne DEF Inv, DiskInv, IInv
<1>6. Asked(Idle, co', deleted') /\ Sees(Idle, vdi', vbd')  BY DEF Asked, Sees, Idle
<1>7. call' = [call EXCEPT ![c] = Idle]  BY DEF Succeed
<1> QED BY <1>2, <1>3, <1>4, <1>5, <1>6, <1>7, OneOrdered DEF Drifting

\* A validation tells the CO nothing of its VMs.
LEMMA ValidatedOrdered ==
  ASSUME Inv, NEW c \in Calls, call[c].pc # "idle", call[c].op = "validate",
         Drifting, Succeed(c)
  PROVE  OrdInv'
<1>1. call' = [call EXCEPT ![c] = Idle] /\ UNCHANGED CO  BY DEF Succeed, CO
<1> QED BY <1>1, DriftingStep

\* A deletion is acknowledged: the CO is not told anything of a VM.
LEMMA DeletedOrdered ==
  ASSUME Inv, NEW c \in Calls, call[c].pc # "idle", call[c].op = "delete",
         Drifting, Succeed(c)
  PROVE  OrdInv'
<1>1. PICK w \in Volumes : call[c].vol = w  BY Alone
<1>2. \A e \in Calls \ {c} : call[e].vol # w  BY <1>1, Alone
<1>3. call' = [call EXCEPT ![c] = Idle] /\ co' = co /\ deleted' = deleted \cup {w}
  BY <1>1 DEF Succeed
<1>4. VolumeOK(w)'  BY <1>3, DriftVolume DEF Drifting, Inv, OrdInv, DiskInv
<1>5. Asked(Idle, co', deleted') /\ Sees(Idle, vdi', vbd')  BY DEF Asked, Sees, Idle
<1> QED BY <1>2, <1>3, <1>4, <1>5, OneOrdered DEF Drifting

\* The CO asks for a volume that no call is at work on.
LEMMA StartOrdered ==
  ASSUME Orderly, Inv, NEW c \in Calls, NEW op \in Ops, NEW w \in Volumes,
         NEW m \in VMs \cup {None}, StartCall(c, op, w, m)
  PROVE  OrdInv'
<1> DEFINE k == [Idle EXCEPT !.op = op, !.pc = "byTag", !.vol = w, !.vm = m]
<1>1. /\ call' = [call EXCEPT ![c] = k] /\ UNCHANGED store /\ deleted' = deleted
      /\ COAllows(op, w, m) /\ (m = None <=> op \in {"delete", "validate"})
  BY DEF StartCall, store, Orderly
<1>2. k.op = op /\ k.pc = "byTag" /\ k.vol = w /\ k.vm = m /\ k.vdi = None  BY DEF Idle
<1> HIDE DEF k
<1>3. w \notin deleted /\ \A e \in Calls : call[e].vol # w  BY <1>1 DEF COAllows, InFlight
<1>4. VolumeOK(w) /\ COTypeOK  BY DEF Inv, OrdInv, DiskInv, IInv
<1>5. Drifting  BY <1>1, ReadDrifting
<1>6. Sees(k, vdi', vbd')  BY <1>2 DEF Sees
<1> DEFINE Right == /\ VolumeOK(w)' /\ Asked(k, co', deleted')
                    /\ \A v \in Volumes \ {w} : co'[v] = co[v]
<1>7. ASSUME m = None PROVE Right
  <2>1. co' = co  BY <1>7 DEF StartCall
  <2>2. Asked(k, co', deleted')
    <3>1. op \in {"delete", "validate"}  BY <1>1, <1>7
    <3>2. op = "delete" => \A n \in VMs : co[w][n] = "out"  BY <1>1 DEF COAllows
    <3> QED BY <1>1, <1>2, <1>3, <2>1, <3>1, <3>2 DEF Asked
  <2>3. VolumeOK(w)'  BY <1>4, <1>5, <2>1, DriftVolume DEF Drifting, Inv, DiskInv
  <2> QED BY <2>1, <2>2, <2>3
<1>8. ASSUME m # None PROVE Right
  <2> DEFINE state == IF op = "publish" THEN "attaching" ELSE "detaching"
  <2>1. m \in VMs /\ op \in {"publish", "unpublish"}
    BY <1>1, <1>8, VolumeAssumption
  <2>2. Notes(w, m, state)  BY <1>8 DEF StartCall, Noted, Orderly, Notes
  <2>3. /\ op = "publish" => co[w][m] # "detaching" /\ \A n \in VMs \ {m} : co[w][n] = "out"
        /\ op = "unpublish" => co[w][m] # "out"
    BY <1>1 DEF COAllows
  <2>4. \A n \in VMs \ {m} : co[w][n] = "out"
    BY <1>4, <2>1, <2>3 DEF VolumeOK, Sole
  <2>5. VolumeOK(w)'
    BY <1>1, <2>1, <2>2, <2>3, <2>4, NotedVolume
  <2>6. (\A v \in Volumes \ {w} : co'[v] = co[v]) /\ co'[w][m] = state
    BY <1>4, <2>1, <2>2, NotesOne
  <2>7. Asked(k, co', deleted')  BY <1>1, <1>2, <1>3, <2>1, <2>6 DEF Asked
  <2> QED BY <2>5, <2>6, <2>7
<1>9. Right  BY <1>7, <1>8
<1> QED BY <1>1, <1>2, <1>3, <1>5, <1>6, <1>9, OneOrdered DEF Drifting

-----------------------------------------------------------------------------
(* The steps of the handlers. *)

\* A VBD is one of a live disk: where there is none, nothing is plugged.
LEMMA DestroyedIsUnplugged ==
  ASSUME Inv, NEW v \in Volumes, Destroyed(v), NEW b \in Vbds, Plugged(b)
  PROVE  OwnerOf(b) # v
<1>1. Exists(b)  BY DEF Exists, Plugged
<1>2. Placed(b) /\ vbd[b].vdi \in Vdis
  BY <1>1, VbdRefers DEF Inv, DiskInv, IInv, DisksOK, VbdsPlaced
<1> QED BY <1>2 DEF Placed, Destroyed, OwnerOf

\* A lookup finds the disk of a volume unless it was destroyed: an unpublish that is
\* answered because of "not found" leaves nothing plugged.
LEMMA LookupOrdered ==
  ASSUME Orderly, Inv, NEW c \in Calls, LookupByTag(c) \/ LookupByLabel(c) \/ LookupByUUID(c)
  PROVE  OrdInv'
<1>1. UNCHANGED store /\ Drifting
  BY ReadDrifting DEF LookupByTag, LookupByLabel, LookupByUUID, store
<1>2. call[c].pc \in {"byTag", "byLabel", "byUUID"}
  BY DEF LookupByTag, LookupByLabel, LookupByUUID, At
<1>3. /\ call[c].vol \in Volumes /\ call[c].vol \notin Static \cap Local
      /\ call[c] \in CallRecord /\ call[c].op \in Ops /\ CallOK(call[c])
  BY <1>2, Alone DEF Orderly
<1> DEFINE Empty == \A b \in Vbds : Plugged(b) => OwnerOf(b) # call[c].vol
<1>4. ASSUME ~Empty
      PROVE  /\ call[c].vol \notin Static => ByLabel(call[c].vol) # {}
             /\ call[c].vol \in Static => ByUUID(call[c].vol) # {}
  BY <1>3, <1>4, FoundByOne, DestroyedIsUnplugged DEF Inv
<1> HIDE DEF Empty
<1>5. ASSUME Reject(c) PROVE OrdInv'  BY <1>1, <1>2, <1>5, RejectOrdered
<1>6. ASSUME NEW e \in Vdis, Live(e), Keep(c, e, "recover"), UNCHANGED CO PROVE OrdInv'
  BY <1>1, <1>2, <1>6, KeepOrdered
<1>7. CASE LookupByTag(c)
  <2>1. ASSUME NEW e \in Vdis, Live(e), Found(c, e) PROVE OrdInv'
    <3> DEFINE pc == AfterLookup(call[c].op, vdi[e].cluster)
    <3>1. pc \notin {"idle", "byUUID", "create", "disconnecting"}  BY DEF AfterLookup
    <3>2. \/ call[c].op = "validate" /\ Succeed(c)
          \/ Keep(c, e, pc) /\ UNCHANGED CO
      BY <2>1 DEF Found
    <3> HIDE DEF pc
    <3> QED BY <1>1, <1>2, <2>1, <3>1, <3>2, ValidatedOrdered, KeepOrdered
  <2>2. ASSUME NEW e \in Vdis, ByTag(call[c].vol) = {e} PROVE Live(e)
    BY <2>2 DEF ByTag
  <2>3. CASE Goto(c, "byLabel") /\ UNCHANGED CO  BY <1>1, <1>2, <2>3, GotoOrdered
  <2> QED BY <1>5, <1>7, <2>1, <2>2, <2>3 DEF LookupByTag
<1>8. CASE LookupByLabel(c)
  <2>1. ASSUME NEW e \in Vdis, ByLabel(call[c].vol) = {e} PROVE Live(e)
    BY <2>1 DEF ByLabel
  <2>2. CASE ByLabel(call[c].vol) = {} /\ Goto(c, "byUUID") /\ UNCHANGED CO
    <3> DEFINE k == [call[c] EXCEPT !.pc = "byUUID"]
    <3>1. /\ k.pc = "byUUID" /\ k.op = call[c].op /\ k.vol = call[c].vol /\ k.vm = call[c].vm
          /\ k.vdi = call[c].vdi
      BY <1>3 DEF CallRecord
    <3>2. call' = [call EXCEPT ![c] = k]  BY <2>2 DEF Goto
    <3> HIDE DEF k
    <3>3. Sees(call[c], vdi', vbd')
      BY <1>1, <1>2, <1>3, Alone, DriftSees DEF Drifting, CallOK
    <3>4. k.vol \notin Static => Empty  BY <1>4, <2>2, <3>1
    <3>5. Sees(k, vdi', vbd')
      BY <1>1, <1>2, <3>1, <3>3, <3>4 DEF Sees, Empty, Plugged, OwnerOf, store
    <3> QED BY <1>1, <1>2, <2>2, <3>1, <3>2, <3>5, DriftingStep
  <2> QED BY <1>5, <1>6, <1>8, <2>1, <2>2 DEF LookupByLabel
<1>9. CASE LookupByUUID(c)
  <2>1. ASSUME NEW e \in ByUUID(call[c].vol), Keep(c, e, "recover"), UNCHANGED CO
        PROVE  OrdInv'
    <3>1. e \in Vdis /\ Live(e)  BY DEF ByUUID
    <3> QED BY <1>6, <2>1, <3>1
  <2>2. CASE ByUUID(call[c].vol) = {} /\ NotFound(c)
    <3>1. Empty
      <4>1. call[c].vol \notin Static => Empty
        BY <1>3, <1>9 DEF LookupByUUID, At, CallOK, Sees, Empty, Plugged, OwnerOf
      <4> QED BY <1>4, <2>2, <4>1
    <3>2. CASE call[c].op = "unpublish" /\ Succeed(c)
      BY <1>1, <1>2, <3>1, <3>2, UnpublishedOrdered DEF Empty
    <3>3. CASE call[c].op = "delete" /\ Succeed(c)  BY <1>1, <1>2, <3>3, DeletedOrdered
    <3> QED BY <1>5, <2>2, <3>2, <3>3 DEF NotFound
  <2> QED BY <1>9, <2>1, <2>2 DEF LookupByUUID
<1> QED BY <1>7, <1>8, <1>9

\* Tags are written, or where the disk is to be moved.
LEMMA DiskWritesDrift ==
  ASSUME Inv, NEW c \in Calls,
         RecoverTags(c) \/ CopyTags(c) \/ AdoptVDI(c) \/ StartMigration(c)
  PROVE  Drifting /\ vbd' = vbd
<1>1. vbd' = vbd /\ \/ \E T : AddIdTags(call[c].vdi, T)
                    \/ vdi' = [vdi EXCEPT ![call[c].vdi].cluster = TRUE]
                    \/ vdi' = [vdi EXCEPT ![call[c].vdi].to = call[c].to]
                    \/ vdi' = vdi
  BY DEF RecoverTags, CopyTags, AdoptVDI, StartMigration
<1>2. Coherent(vdi, vbd) /\ vdi \in [Vdis -> VDIRecord]
  BY DEF Inv, DiskInv, IInv, Coherent
<1>3. ASSUME NEW d \in Vdis
      PROVE  vdi'[d].state = vdi[d].state /\ vdi'[d].owner = vdi[d].owner
  <2>1. CASE \E T : AddIdTags(call[c].vdi, T)  BY <1>2, <2>1 DEF AddIdTags, VDIRecord
  <2>2. CASE vdi' = [vdi EXCEPT ![call[c].vdi].cluster = TRUE]
    BY <1>2, <2>2 DEF VDIRecord
  <2>3. CASE vdi' = [vdi EXCEPT ![call[c].vdi].to = call[c].to]
    BY <1>2, <2>3 DEF VDIRecord
  <2> QED BY <1>1, <2>1, <2>2, <2>3
<1> QED BY <1>1, <1>2, <1>3, SameDrifting

\* These requests plug nothing, and the CO is told nothing of a VM.
LEMMA DiskWritesOrdered ==
  ASSUME Inv, NEW c \in Calls,
         RecoverTags(c) \/ CopyTags(c) \/ AdoptVDI(c) \/ StartMigration(c)
  PROVE  OrdInv'
<1>1. call[c].pc \in {"recover", "copyTags", "adopt", "migrate"} /\ call[c].pc # "idle"
  BY DEF RecoverTags, CopyTags, AdoptVDI, StartMigration, At
<1>2. Drifting  BY DiskWritesDrift
<1>3. AfterLookup(call[c].op, call[c].adopted)
        \notin {"idle", "byUUID", "create", "disconnecting"}
  BY DEF AfterLookup
<1>4. \/ Reject(c)
      \/ call[c].op = "validate" /\ Succeed(c)
      \/ UNCHANGED CO /\ \/ Goto(c, AfterLookup(call[c].op, call[c].adopted))
                         \/ Goto(c, "refetch") \/ Goto(c, "getVM") \/ Goto(c, "migrating")
  <2>1. CASE RecoverTags(c)  BY <2>1 DEF RecoverTags
  <2>2. CASE CopyTags(c)  BY <2>2 DEF CopyTags, CO
  <2>3. CASE AdoptVDI(c) \/ StartMigration(c)  BY <2>3 DEF AdoptVDI, StartMigration
  <2> QED BY <2>1, <2>2, <2>3
<1> QED BY <1>1, <1>2, <1>3, <1>4, RejectOrdered, ValidatedOrdered, GotoOrdered

\* A publish reads on.
LEMMA PublishReadsOrdered ==
  ASSUME Inv, NEW c \in Calls,
         GetVM(c) \/ FindLocalSRForHost(c) \/ RefetchVDI(c) \/ IsSRAttachedToHost(c)
  PROVE  OrdInv'
<1>1. /\ call[c].pc \in {"getVM", "findSR", "refetch", "checkSR"} /\ call[c].pc # "idle"
      /\ UNCHANGED store
  BY DEF GetVM, FindLocalSRForHost, RefetchVDI, IsSRAttachedToHost, At
<1>2. Drifting  BY <1>1, ReadDrifting
<1>3. call[c] \in CallRecord /\ Held(call[c])  BY HeldByCall DEF Inv, DiskInv
<1>4. ASSUME Reject(c) PROVE OrdInv'  BY <1>1, <1>2, <1>4, RejectOrdered
<1>5. CASE GetVM(c)
  <2>1. CASE ~Reject(c)
    <3> DEFINE k == [call[c] EXCEPT !.host = host[call[c].vm],
                       !.pc = IF call[c].vol \in Local THEN "findSR" ELSE "checkSR"]
    <3>1. call' = [call EXCEPT ![c] = k] /\ UNCHANGED CO  BY <1>5, <2>1 DEF GetVM
    <3>2. /\ k.pc \in {"findSR", "checkSR"} /\ k.op = call[c].op /\ k.vol = call[c].vol
          /\ k.vm = call[c].vm /\ k.vdi = call[c].vdi
      BY <1>3 DEF CallRecord
    <3> HIDE DEF k
    <3> QED BY <1>1, <1>2, <3>1, <3>2, SameDiskOrdered
  <2> QED BY <1>4, <2>1
<1>6. CASE FindLocalSRForHost(c)
  <2>1. CASE ~Reject(c)
    <3>1. PICK s \in SRs :
            /\ call' = [call EXCEPT ![c] = [call[c] EXCEPT !.to = s,
                          !.pc = IF s = call[c].sr THEN "checkSR" ELSE "migrate"]]
            /\ UNCHANGED CO
      BY <1>6, <2>1 DEF FindLocalSRForHost
    <3> DEFINE k == [call[c] EXCEPT !.to = s,
                       !.pc = IF s = call[c].sr THEN "checkSR" ELSE "migrate"]
    <3>2. call' = [call EXCEPT ![c] = k]  BY <3>1
    <3>3. /\ k.pc \in {"migrate", "checkSR"} /\ k.op = call[c].op /\ k.vol = call[c].vol
          /\ k.vm = call[c].vm /\ k.vdi = call[c].vdi
      BY <1>3 DEF CallRecord
    <3> HIDE DEF k
    <3> QED BY <1>1, <1>2, <3>1, <3>2, <3>3, SameDiskOrdered
  <2> QED BY <1>4, <2>1
<1>7. CASE RefetchVDI(c)
  <2>1. call[c].vdi \in Vdis  BY <1>3, <1>7 DEF RefetchVDI, At, Held, NeedsVdi, PC
  <2> QED BY <1>1, <1>4, <1>7, <2>1, KeepOrdered DEF RefetchVDI
<1>8. CASE IsSRAttachedToHost(c)
  BY <1>1, <1>2, <1>4, <1>8, GotoOrdered DEF IsSRAttachedToHost
<1> QED BY <1>5, <1>6, <1>7, <1>8

\* Every VBD of a volume is one of its live disk.
LEMMA OfTheDisk ==
  ASSUME Inv, NEW b \in Vbds, Exists(b), NEW d \in Vdis, Live(d), OwnerOf(b) = vdi[d].owner
  PROVE  b \in VbdsOf(d)
<1>1. Placed(b) /\ vbd[b].vdi \in Vdis
  BY VbdRefers DEF Inv, DiskInv, IInv, DisksOK, VbdsPlaced
<1> QED BY <1>1 DEF Placed, Inv, DiskInv, DisksOK, OneLive, OwnerOf, VbdsOf

\* What a call has taken is a VBD of its volume and its VM.
LEMMA CallDisk ==
  ASSUME Inv, NEW c \in Calls, call[c].pc \in NeedsVdi
  PROVE  /\ call[c].vdi \in Vdis /\ vdi[call[c].vdi].state # "unused"
         /\ vdi[call[c].vdi].owner = call[c].vol /\ call[c].vdi # None
BY NoneAssumption DEF Inv, DiskInv, IInv, CallsGood, Good

\* The VBD of a call is one of its volume and its VM.
LEMMA CallVbd ==
  ASSUME Inv, NEW c \in Calls, call[c].pc \in NeedsVbd
  PROVE  /\ call[c].vbd \in Vbds /\ vbd[call[c].vbd].plug # "unused"
         /\ vbd[call[c].vbd].vm = call[c].vm /\ OwnerOf(call[c].vbd) = call[c].vol
BY NoneAssumption DEF Inv, DiskInv, IInv, CallsGood, Good, OwnerOf

\* The handler goes on with a VBD.
LEMMA TakeOrdered ==
  ASSUME Inv, NEW c \in Calls, call[c].pc # "idle", UNCHANGED store, UNCHANGED CO,
         NEW b, NEW pc \in {"poll", "connect", "disconnect"},
         call' = [call EXCEPT ![c] = [call[c] EXCEPT !.pc = pc, !.vbd = b]]
  PROVE  OrdInv'
<1> DEFINE k == [call[c] EXCEPT !.pc = pc, !.vbd = b]
<1>1. call[c] \in CallRecord  BY Alone
<1>2. /\ k.pc = pc /\ k.op = call[c].op /\ k.vol = call[c].vol /\ k.vm = call[c].vm
      /\ k.vdi = call[c].vdi
  BY <1>1 DEF CallRecord
<1>3. call' = [call EXCEPT ![c] = k]  OBVIOUS
<1> HIDE DEF k
<1> QED BY <1>2, <1>3, ReadDrifting, SameDiskOrdered

\* A publish decides what to do about the VBDs of the disk.
LEMMA CheckVbdsOrdered ==
  ASSUME Orderly, Inv, NEW c \in Calls, CheckVbds(c)
  PROVE  OrdInv'
<1>1. /\ call[c].pc = "checkVbds" /\ call[c].pc # "idle" /\ UNCHANGED store /\ Drifting
  BY ReadDrifting DEF CheckVbds, At
<1>2. /\ call[c] \in CallRecord /\ call[c].op = "publish" /\ call[c].vdi \in Vdis
      /\ vdi[call[c].vdi].owner = call[c].vol
  BY <1>1, Alone, CallDisk DEF Located, Publishing, NeedsVdi, PC
<1>3. CASE Reject(c)  BY <1>1, <1>3, RejectOrdered
<1>4. CASE OwnVbds(call[c].vdi, call[c].vm) = {} /\ Goto(c, "create") /\ UNCHANGED CO
  <2> DEFINE k == [call[c] EXCEPT !.pc = "create"]
  <2>1. /\ k.pc = "create" /\ k.op = call[c].op /\ k.vol = call[c].vol /\ k.vm = call[c].vm
        /\ k.vdi = call[c].vdi
    BY <1>2 DEF CallRecord
  <2>2. call' = [call EXCEPT ![c] = k]  BY <1>4 DEF Goto
  <2> HIDE DEF k
  <2>3. ASSUME Live(call[c].vdi), NEW b \in Vbds, Exists(b), OwnerOf(b) = call[c].vol
        PROVE  vbd[b].vm # call[c].vm
    <3>1. b \in VbdsOf(call[c].vdi)  BY <1>2, <2>3, OfTheDisk
    <3> QED BY <1>4, <3>1 DEF OwnVbds
  <2>4. "publish" # "unpublish"  OBVIOUS
  <2>5. Sees(k, vdi', vbd')
    BY <1>1, <1>2, <2>1, <2>3, <2>4 DEF Sees, Live, Exists, OwnerOf, store
  <2> QED BY <1>1, <1>4, <2>1, <2>2, <2>5, DriftingStep
<1>5. ASSUME NEW b \in OwnVbds(call[c].vdi, call[c].vm), Attached(b), vbd[b].named, Succeed(c)
      PROVE  OrdInv'
  <2>1. b \in Vbds /\ vbd[b].vm = call[c].vm /\ OwnerOf(b) = call[c].vol
    BY <1>2 DEF OwnVbds, VbdsOf, OwnerOf
  <2> QED BY <1>1, <1>2, <1>5, <2>1, PublishedOrdered
<1>6. ASSUME NEW b, UNCHANGED CO,
             call' = [call EXCEPT ![c] = [call[c] EXCEPT
                        !.pc = IF Attached(b) THEN "poll" ELSE "connect", !.vbd = b]]
      PROVE  OrdInv'
  BY <1>1, <1>6, TakeOrdered
<1> QED BY <1>3, <1>4, <1>5, <1>6 DEF CheckVbds

\* A publish waits for its VBD.
LEMMA VbdReadsOrdered ==
  ASSUME Orderly, Inv, NEW c \in Calls,
         AwaitConnect(c) \/ GetConnectedVBD(c) \/ PollVBD(c) \/ PollTimeout(c)
  PROVE  OrdInv'
<1>1. /\ call[c].pc \in {"connecting", "getVbd", "poll"} /\ call[c].pc # "idle"
      /\ UNCHANGED store /\ Drifting
  BY ReadDrifting DEF AwaitConnect, GetConnectedVBD, PollVBD, PollTimeout, At
<1>2. /\ call[c].op = "publish" /\ call[c].vbd \in Vbds /\ vbd[call[c].vbd].vm = call[c].vm
      /\ OwnerOf(call[c].vbd) = call[c].vol
  BY <1>1, Alone, CallVbd DEF Located, Publishing, NeedsVbd
<1>3. VolumeOK(call[c].vol)  BY <1>1, Alone DEF Inv, OrdInv
<1>4. \/ Reject(c)
      \/ (Goto(c, "getVbd") \/ Goto(c, "panic")) /\ UNCHANGED CO
      \/ Exists(call[c].vbd) /\ vbd[call[c].vbd].named /\ Succeed(c)
  BY DEF AwaitConnect, GetConnectedVBD, PollVBD, PollTimeout, FullyAttached, Attached, Exists
<1>5. CASE Exists(call[c].vbd) /\ vbd[call[c].vbd].named /\ Succeed(c)
  <2>1. Attached(call[c].vbd)  BY <1>2, <1>3, <1>5 DEF VolumeOK, Wanted
  <2> QED BY <1>1, <1>2, <1>5, <2>1, PublishedOrdered
<1> QED BY <1>1, <1>4, <1>5, RejectOrdered, GotoOrdered

\* An unpublish finds the VBD of its VM if there is one that is plugged, also when the
\* disk was migrated since it was looked up.
LEMMA FindVBDOrdered ==
  ASSUME Orderly, Inv, NEW c \in Calls, FindVBD(c)
  PROVE  OrdInv'
<1>1. /\ call[c].pc = "findVbd" /\ call[c].pc # "idle" /\ UNCHANGED store /\ Drifting
  BY ReadDrifting DEF FindVBD, At
<1>2. /\ call[c].op = "unpublish" /\ call[c].vdi \in Vdis /\ call[c].vdi # None
      /\ vdi[call[c].vdi].owner = call[c].vol /\ CallOK(call[c])
  BY <1>1, Alone, CallDisk DEF Located, NeedsVdi, PC
<1>3. CASE Detachable(c) = {} /\ Succeed(c)
  <2>1. ASSUME NEW b \in Vbds, Plugged(b), OwnerOf(b) = call[c].vol
        PROVE  vbd[b].vm # call[c].vm
    <3>1. CASE Live(call[c].vdi)
      <4>1. b \in VbdsOf(call[c].vdi)
        BY <1>2, <2>1, <3>1, OfTheDisk DEF Exists, Plugged
      <4> QED BY <1>3, <4>1 DEF Detachable, OwnVbds
    <3>2. CASE ~Live(call[c].vdi)
      BY <1>1, <1>2, <2>1, <3>2 DEF CallOK, Sees, Live, Plugged, OwnerOf
    <3> QED BY <3>1, <3>2
  <2> QED BY <1>1, <1>2, <1>3, <2>1, UnpublishedOrdered
<1> QED BY <1>1, <1>3, TakeOrdered DEF FindVBD, NoVBD

\* Its VBD is the only one of the VM, and is off when the wait has ended.
LEMMA AwaitDisconnectOrdered ==
  ASSUME Orderly, Inv, NEW c \in Calls, AwaitDisconnect(c)
  PROVE  OrdInv'
<1>1. /\ call[c].pc = "disconnecting" /\ call[c].pc # "idle" /\ UNCHANGED store
  BY DEF AwaitDisconnect, At
<1>2. /\ call[c].op = "unpublish" /\ call[c].vbd \in Vbds
      /\ vbd[call[c].vbd].vm = call[c].vm /\ OwnerOf(call[c].vbd) = call[c].vol
      /\ CallOK(call[c])
  BY <1>1, Alone, CallVbd DEF Located, NeedsVbd
<1>3. vbd[call[c].vbd].plug = "off"
  BY <1>1, <1>2 DEF AwaitDisconnect, CallOK, Sees
<1>4. ASSUME NEW b \in Vbds, Plugged(b), OwnerOf(b) = call[c].vol
      PROVE  vbd[b].vm # call[c].vm
  <2>1. VolumeOK(call[c].vol)  BY <1>1, Alone DEF Inv, OrdInv
  <2>2. Exists(b) /\ Exists(call[c].vbd)  BY <1>3, <1>4 DEF Exists, Plugged
  <2> QED BY <1>2, <1>3, <1>4, <2>1, <2>2 DEF VolumeOK, OneVbd, Plugged
<1> QED BY <1>1, <1>2, <1>4, UnpublishedOrdered DEF AwaitDisconnect

\* What only reads and gives up, or only reads and goes on.
LEMMA WaitsOrdered ==
  ASSUME Inv, NEW c \in Calls,
         CheckUnused(c) \/ AnswerDeleted(c) \/ Interrupted(c) \/ TaskWaitFails(c)
  PROVE  OrdInv'
<1>1. call[c].pc # "idle" /\ UNCHANGED store
  BY DEF CheckUnused, AnswerDeleted, Interrupted, TaskWaitFails, At
<1>2. CASE AnswerDeleted(c)
  <2>1. call[c].op = "delete" /\ Succeed(c)
    BY <1>1, <1>2, Alone DEF AnswerDeleted, At, Located
  <2> QED BY <1>1, <2>1, ReadDrifting, DeletedOrdered
<1>3. CASE ~AnswerDeleted(c)
  <2>1. \/ Reject(c)
        \/ (Goto(c, "destroy") \/ Goto(c, "panic")) /\ UNCHANGED CO
    BY <1>3 DEF CheckUnused, Interrupted, TaskWaitFails
  <2> QED BY <1>1, <2>1, ReadDrifting, RejectOrdered, GotoOrdered
<1> QED BY <1>2, <1>3

\* The VBD of a call is plugged for a publish, or unplugged for an unpublish: what is
\* published of the volume is nothing, for the CO has business with this VM only.
LEMMA PlugWrite ==
  ASSUME Inv, NEW c \in Calls, call[c].pc \in NeedsVbd, NEW w \in Volumes, call[c].vol = w,
         NEW m \in VMs, call[c].vm = m, NEW b \in Vbds, b = call[c].vbd, Exists(b),
         vdi' = vdi, co' = co, NEW p, vbd' = [vbd EXCEPT ![b].plug = p],
         \/ p = "plugging" /\ vbd[b].plug = "off" /\ co[w][m] = "attaching"
         \/ p = "unplugging" /\ vbd[b].plug = "on" /\ co[w][m] = "detaching"
  PROVE  Lasts /\ (\A v \in Volumes \ {w} : Drift(v)) /\ VolumeOK(w)'
<1>1. vbd \in [Vbds -> VBDRecord] /\ Coherent(vdi, vbd)
  BY DEF Inv, DiskInv, IInv, Coherent
<1>2. \A x \in Vbds : /\ vbd'[x].vm = vbd[x].vm /\ vbd'[x].vdi = vbd[x].vdi
                      /\ vbd'[x].named = vbd[x].named /\ OwnerOf(x)' = OwnerOf(x)
                      /\ vbd'[x].plug = IF x = b THEN p ELSE vbd[x].plug
  BY <1>1 DEF VBDRecord, OwnerOf
<1>3. vbd[b].vm = m /\ OwnerOf(b) = w  BY CallVbd
<1>4. VolumeOK(w)  BY DEF Inv, OrdInv
<1>5. Lasts  BY <1>2 DEF Lasts, Extends, OwnerOf, Exists
<1>6. ASSUME NEW v \in Volumes \ {w} PROVE Drift(v)
  <2>1. \A x \in Vbds : OwnerOf(x)' = v => x # b  BY <1>2, <1>3
  <2> QED BY <1>2, <2>1 DEF Drift, Drifts, Live
<1>7. \A x \in Vbds : Exists(x)' <=> Exists(x)  BY <1>2 DEF Exists
<1>8. \A n \in VMs : co[w][n] # "in"  BY <1>4 DEF VolumeOK, Sole
<1>9. Sole(w)' /\ Given(w)'  BY <1>4, <1>8 DEF VolumeOK, Sole, Given
<1>10. OneVbd(w)'  BY <1>2, <1>4, <1>7 DEF VolumeOK, OneVbd
<1>11. ASSUME NEW x \in Vbds, Exists(x), OwnerOf(x) = w
       PROVE  /\ Plugged(x)' => co[w][vbd[x].vm] # "out"
              /\ vbd'[x].plug = "unplugging" => co[w][vbd[x].vm] = "detaching"
              /\ vbd[x].named => Attached(x)'
  <2>1. /\ Plugged(x) => co[w][vbd[x].vm] # "out"
        /\ vbd[x].plug = "unplugging" => co[w][vbd[x].vm] = "detaching"
        /\ vbd[x].named => Attached(x)
    BY <1>4, <1>11 DEF VolumeOK, Wanted
  <2> QED BY <1>2, <1>3, <2>1 DEF Plugged, Attached
<1>12. Wanted(w)'  BY <1>2, <1>7, <1>11 DEF Wanted
<1> QED BY <1>5, <1>6, <1>9, <1>10, <1>12 DEF VolumeOK

\* A publish plugs the VBD of its own VM.
LEMMA ConnectOrdered ==
  ASSUME Inv, NEW c \in Calls, ConnectVBD(c)
  PROVE  OrdInv'
<1>1. call[c].pc = "connect" /\ call[c].pc # "idle" /\ UNCHANGED <<vdi, host>>
  BY DEF ConnectVBD, At
<1>2. CASE Reject(c) /\ UNCHANGED vbd
  BY <1>1, <1>2, ReadDrifting, RejectOrdered DEF store
<1>3. CASE /\ vbd[call[c].vbd].plug = "off"
           /\ vbd' = [vbd EXCEPT ![call[c].vbd].plug = "plugging"]
           /\ Goto(c, "connecting") /\ UNCHANGED CO
  <2> DEFINE k == [call[c] EXCEPT !.pc = "connecting"]
  <2>1. /\ call[c].op = "publish" /\ CallOK(call[c]) /\ call[c] \in CallRecord
        /\ \A e \in Calls \ {c} : call[e].vol # call[c].vol
    BY <1>1, Alone DEF Located, Publishing
  <2>2. PICK w \in Volumes, m \in VMs, b \in Vbds :
          call[c].vol = w /\ call[c].vm = m /\ call[c].vbd = b
    BY <1>1, <2>1, Alone, CallVbd DEF Good, NeedsVbd
  <2>3. co[w][m] = "attaching" /\ w \notin deleted  BY <1>1, <2>1, <2>2 DEF CallOK, Asked
  <2>4. Lasts /\ (\A v \in Volumes \ {w} : Drift(v)) /\ VolumeOK(w)'
    BY <1>1, <1>3, <2>2, <2>3, PlugWrite DEF NeedsVbd, Exists, CO
  <2>5. k.pc = "connecting" /\ k.op = "publish" /\ k.vol = w /\ k.vm = m
    BY <2>1, <2>2 DEF CallRecord
  <2>6. call' = [call EXCEPT ![c] = k]  BY <1>3 DEF Goto
  <2> HIDE DEF k
  <2>7. Asked(k, co', deleted') /\ Sees(k, vdi', vbd')
    BY <1>3, <2>3, <2>5 DEF Asked, Sees, CO
  <2>8. co' = co /\ deleted' = deleted /\ \A e \in Calls \ {c} : call[e].vol # w
    BY <1>3, <2>1, <2>2 DEF CO
  <2> QED BY <2>4, <2>5, <2>6, <2>7, <2>8, OneOrdered
<1> QED BY <1>2, <1>3 DEF ConnectVBD

\* An unpublish unplugs the VBD of its own VM, or finds it unplugged.
LEMMA DisconnectOrdered ==
  ASSUME Orderly, Inv, NEW c \in Calls, DisconnectVBD(c)
  PROVE  OrdInv'
<1>1. call[c].pc = "disconnect" /\ call[c].pc # "idle" /\ UNCHANGED <<vdi, host>>
  BY DEF DisconnectVBD, At
<1>2. CASE Reject(c) /\ UNCHANGED vbd
  BY <1>1, <1>2, ReadDrifting, RejectOrdered DEF store
<1> DEFINE k == [call[c] EXCEPT !.pc = "disconnecting"]
<1>3. /\ call[c].op = "unpublish" /\ CallOK(call[c]) /\ call[c] \in CallRecord
      /\ \A e \in Calls \ {c} : call[e].vol # call[c].vol
  BY <1>1, Alone DEF Located
<1>4. PICK w \in Volumes, m \in VMs, b \in Vbds :
        call[c].vol = w /\ call[c].vm = m /\ call[c].vbd = b
  BY <1>1, <1>3, Alone, CallVbd DEF Good, NeedsVbd
<1>5. co[w][m] = "detaching" /\ w \notin deleted  BY <1>1, <1>3, <1>4 DEF CallOK, Asked
<1>6. /\ k.pc = "disconnecting" /\ k.op = "unpublish" /\ k.vol = w /\ k.vm = m
      /\ k.vdi = call[c].vdi /\ k.vbd = b
  BY <1>3, <1>4 DEF CallRecord
<1>7. Goto(c, "disconnecting") => call' = [call EXCEPT ![c] = k]  BY DEF Goto
<1> HIDE DEF k
<1>8. CASE vbd[b].plug = "off" /\ Goto(c, "disconnecting") /\ UNCHANGED <<vbd, CO>>
  <2>1. Sees(k, vdi', vbd')
    <3>1. vdi' = vdi /\ vbd' = vbd  BY <1>1, <1>8
    <3>2. Sees(call[c], vdi, vbd)  BY <1>3 DEF CallOK
    <3> QED BY <1>1, <1>3, <1>4, <1>6, <1>8, <3>1, <3>2 DEF Sees
  <2>2. Drifting  BY <1>1, <1>8, ReadDrifting DEF store
  <2> QED BY <1>1, <1>3, <1>4, <1>6, <1>7, <1>8, <2>1, <2>2, DriftingStep
<1>9. CASE /\ vbd[b].plug = "on" /\ vbd' = [vbd EXCEPT ![b].plug = "unplugging"]
           /\ Goto(c, "disconnecting") /\ UNCHANGED CO
  <2>1. Lasts /\ (\A v \in Volumes \ {w} : Drift(v)) /\ VolumeOK(w)'
    BY <1>1, <1>4, <1>5, <1>9, PlugWrite DEF NeedsVbd, Exists, CO
  <2>2. Asked(k, co', deleted')  BY <1>5, <1>6, <1>9 DEF Asked, CO
  <2>3. vbd \in [Vbds -> VBDRecord]  BY DEF Inv, DiskInv, IInv, Coherent
  <2>4. \A x \in Vbds : /\ vbd'[x].vdi = vbd[x].vdi
                        /\ vbd'[x].plug = IF x = b THEN "unplugging" ELSE vbd[x].plug
    BY <1>9, <2>3 DEF VBDRecord
  <2>5. Sees(k, vdi', vbd')
    <3>1. OwnerOf(b) = w  BY <1>1, <1>4, CallVbd DEF NeedsVbd
    <3>2. call[c].vdi # None /\ vdi[call[c].vdi].state # "live" =>
            \A x \in Vbds : ~(/\ vbd[x].plug \in {"plugging", "on", "unplugging"}
                              /\ vdi[vbd[x].vdi].owner = w)
      BY <1>1, <1>3, <1>4 DEF CallOK, Sees
    <3> QED BY <1>1, <1>6, <1>9, <2>4, <3>1, <3>2 DEF Sees, OwnerOf
  <2>6. co' = co /\ deleted' = deleted /\ \A e \in Calls \ {c} : call[e].vol # w
    BY <1>3, <1>4, <1>9 DEF CO
  <2> QED BY <1>6, <1>7, <1>9, <2>1, <2>2, <2>5, <2>6, OneOrdered
<1> QED BY <1>2, <1>4, <1>8, <1>9 DEF DisconnectVBD, Orderly

\* A publish that has seen no VBD of its VM creates one.
LEMMA CreateOrdered ==
  ASSUME Inv, NEW c \in Calls, CreateVBD(c)
  PROVE  OrdInv'
<1>1. call[c].pc = "create" /\ call[c].pc # "idle" /\ UNCHANGED <<vdi, host>>
  BY DEF CreateVBD, At
<1>2. CASE Reject(c) /\ UNCHANGED vbd
  BY <1>1, <1>2, ReadDrifting, RejectOrdered DEF store
<1>3. ASSUME Live(call[c].vdi), NEW b \in Vbds, CreateVBDOn(b, call[c].vdi, call[c].vm),
             call' = [call EXCEPT ![c] = [call[c] EXCEPT !.pc = "poll", !.vbd = b]],
             UNCHANGED CO
      PROVE  OrdInv'
  <2> DEFINE k == [call[c] EXCEPT !.pc = "poll", !.vbd = b]
  <2>1. /\ call[c].op = "publish" /\ CallOK(call[c]) /\ call[c] \in CallRecord
        /\ \A e \in Calls \ {c} : call[e].vol # call[c].vol
    BY <1>1, Alone DEF Located, Publishing
  <2>2. PICK w \in Volumes, m \in VMs, d \in Vdis :
          call[c].vol = w /\ call[c].vm = m /\ call[c].vdi = d /\ vdi[d].owner = w
    BY <1>1, <2>1, Alone, CallDisk DEF Good, NeedsVdi, PC
  <2>3. co[w][m] = "attaching" /\ w \notin deleted  BY <1>1, <2>1, <2>2 DEF CallOK, Asked
  <2>4. ASSUME NEW x \in Vbds, Exists(x), OwnerOf(x) = w PROVE vbd[x].vm # m
    BY <1>1, <1>3, <2>1, <2>2, <2>4 DEF CallOK, Sees, Live, Exists, OwnerOf
  <2>5. vbd \in [Vbds -> VBDRecord] /\ Coherent(vdi, vbd)
    BY DEF Inv, DiskInv, IInv, Coherent
  <2>6. vbd[b].plug = "unused" /\ vdi' = vdi /\ co' = co /\ deleted' = deleted
    BY <1>1, <1>3 DEF CreateVBDOn, CO
  <2>7. \A x \in Vbds \ {b} : vbd'[x] = vbd[x] /\ OwnerOf(x)' = OwnerOf(x)
    BY <1>3, <2>5, <2>6 DEF CreateVBDOn, OwnerOf
  <2>8. /\ vbd'[b].plug = "plugging" /\ vbd'[b].vm = m /\ ~vbd'[b].named /\ OwnerOf(b)' = w
    BY <1>3, <2>2, <2>5, <2>6 DEF CreateVBDOn, OwnerOf
  <2>9. Lasts  BY <2>6, <2>7 DEF Lasts, Extends, OwnerOf
  <2>10. ASSUME NEW v \in Volumes \ {w} PROVE Drift(v)
    BY <2>6, <2>7, <2>8 DEF Drift, Drifts, Live
  <2>11. VolumeOK(w)  BY DEF Inv, OrdInv
  <2>12. \A x \in Vbds : Exists(x)' /\ OwnerOf(x)' = w /\ x # b =>
           Exists(x) /\ OwnerOf(x) = w /\ vbd'[x] = vbd[x]
    BY <2>7 DEF Exists
  <2>13. Wanted(w)'
    <3> SUFFICES ASSUME NEW x \in Vbds, Exists(x)', OwnerOf(x)' = w
                 PROVE  /\ Plugged(x)' => co[w][vbd'[x].vm] # "out"
                        /\ vbd'[x].plug = "unplugging" => co[w][vbd'[x].vm] = "detaching"
                        /\ vbd'[x].named => Attached(x)'
      BY <2>6 DEF Wanted
    <3>1. CASE x = b  BY <2>3, <2>8, <3>1
    <3>2. CASE x # b  BY <2>11, <2>12, <3>2 DEF VolumeOK, Wanted, Plugged, Attached
    <3> QED BY <3>1, <3>2
  <2>14. OneVbd(w)'
    <3>1. \A x \in Vbds : Exists(x)' /\ OwnerOf(x)' = w /\ x # b => vbd'[x].vm # m
      BY <2>4, <2>12
    <3> QED BY <2>8, <2>11, <2>12, <3>1 DEF VolumeOK, OneVbd
  <2>15. Sole(w)' /\ Given(w)'
    <3>1. \A n \in VMs : co[w][n] # "in"  BY <2>3, <2>11 DEF VolumeOK, Sole
    <3> QED BY <2>6, <2>11, <3>1 DEF VolumeOK, Sole, Given
  <2>16. k.pc = "poll" /\ k.op = "publish" /\ k.vol = w /\ k.vm = m
    BY <2>1, <2>2 DEF CallRecord
  <2>17. call' = [call EXCEPT ![c] = k]  BY <1>3
  <2> HIDE DEF k
  <2>18. Asked(k, co', deleted') /\ Sees(k, vdi', vbd')
    BY <2>3, <2>6, <2>16 DEF Asked, Sees
  <2>19. \A e \in Calls \ {c} : call[e].vol # w  BY <2>1, <2>2
  <2> QED BY <2>6, <2>9, <2>10, <2>13, <2>14, <2>15, <2>16, <2>17, <2>18, <2>19, OneOrdered
          DEF VolumeOK
<1> QED BY <1>2, <1>3 DEF CreateVBD

\* A deletion is of a volume that the CO has unpublished everywhere: its disk is
\* plugged into no VM.
LEMMA DeleteOrdered ==
  ASSUME Inv, NEW c \in Calls, DeleteVDI(c)
  PROVE  OrdInv'
<1>1. call[c].pc = "destroy" /\ call[c].pc # "idle" /\ host' = host
  BY DEF DeleteVDI, At
<1>2. /\ call[c].op = "delete" /\ CallOK(call[c]) /\ call[c] \in CallRecord
      /\ \A e \in Calls \ {c} : call[e].vol # call[c].vol
  BY <1>1, Alone DEF Located
<1>3. PICK w \in Volumes, d \in Vdis :
        call[c].vol = w /\ call[c].vdi = d /\ vdi[d].owner = w
  BY <1>1, Alone, CallDisk DEF NeedsVdi, PC
<1>4. CASE Reject(c) /\ UNCHANGED <<vdi, vbd>>
  BY <1>1, <1>4, ReadDrifting, RejectOrdered DEF store
<1>5. CASE Succeed(c) /\ UNCHANGED <<vdi, vbd>>
  BY <1>1, <1>2, <1>5, ReadDrifting, DeletedOrdered DEF store
<1>6. CASE Live(d) /\ DestroyVDI(d) /\ Goto(c, "destroyed") /\ UNCHANGED CO
  <2>1. vdi \in [Vdis -> VDIRecord] /\ vbd \in [Vbds -> VBDRecord] /\ Coherent(vdi, vbd)
    BY DEF Inv, DiskInv, IInv, Coherent
  <2>2. co' = co /\ deleted' = deleted  BY <1>6 DEF CO
  <2>3. /\ \A x \in Vdis : vdi'[x].owner = vdi[x].owner
        /\ \A x \in Vdis \ {d} : vdi'[x].state = vdi[x].state
        /\ vdi'[d].state = "gone"
    BY <1>6, <2>1 DEF DestroyVDI, VDIRecord
  <2>4. \A b \in Vbds : /\ vbd'[b].vm = vbd[b].vm /\ vbd'[b].vdi = vbd[b].vdi
                        /\ vbd'[b].named = vbd[b].named
                        /\ vbd'[b].plug = IF b \in VbdsOf(d) THEN "gone" ELSE vbd[b].plug
    BY <1>6, <2>1 DEF DestroyVDI, VBDRecord
  <2>5. \A b \in Vbds : vbd[b].plug # "unused" => OwnerOf(b)' = OwnerOf(b)
    BY <2>1, <2>3, <2>4 DEF Coherent, OwnerOf
  <2>6. \A b \in VbdsOf(d) : OwnerOf(b) = w /\ vbd[b].plug # "unused"
    BY <1>3 DEF VbdsOf, OwnerOf, Exists
  <2>7. Lasts  BY <2>3, <2>4, <2>5 DEF Lasts, Extends, OwnerOf
  <2>8. ASSUME NEW v \in Volumes \ {w} PROVE Drift(v)
    BY <1>3, <2>3, <2>4, <2>5, <2>6 DEF Drift, Drifts, Live
  <2>9. VolumeOK(w)  BY DEF Inv, OrdInv
  <2>10. \A m \in VMs : co[w][m] = "out"  BY <1>1, <1>2, <1>3 DEF CallOK, Asked
  <2>11. ASSUME NEW b \in Vbds, Exists(b)', OwnerOf(b)' = w
         PROVE  /\ Exists(b) /\ OwnerOf(b) = w /\ ~Plugged(b) /\ vbd[b].vm \in VMs
                /\ vbd'[b].plug = vbd[b].plug /\ ~vbd[b].named
    <3>1. Exists(b) /\ OwnerOf(b) = w /\ vbd'[b].plug = vbd[b].plug
      BY <2>4, <2>5, <2>11 DEF Exists
    <3>2. vbd[b].vm \in VMs  BY <3>1 DEF Inv, DiskInv, DisksOK, VbdsPlaced, Placed
    <3>3. ~Plugged(b) /\ ~vbd[b].named
      BY <2>9, <2>10, <3>1, <3>2 DEF VolumeOK, Wanted, Plugged, Attached
    <3> QED BY <3>1, <3>2, <3>3
  <2>12. Sole(w)' /\ Given(w)'  BY <2>2, <2>10 DEF Sole, Given
  <2>13. Wanted(w)'  BY <2>4, <2>11 DEF Wanted, Plugged
  <2>14. OneVbd(w)'  BY <2>4, <2>9, <2>11 DEF VolumeOK, OneVbd
  <2> DEFINE k == [call[c] EXCEPT !.pc = "destroyed"]
  <2>15. k.pc = "destroyed" /\ k.op = "delete" /\ k.vol = w  BY <1>2, <1>3 DEF CallRecord
  <2>16. call' = [call EXCEPT ![c] = k]  BY <1>6 DEF Goto
  <2> HIDE DEF k
  <2>17. Asked(k, co', deleted') /\ Sees(k, vdi', vbd')
    BY <1>1, <1>2, <1>3, <2>2, <2>10, <2>15 DEF CallOK, Asked, Sees
  <2>18. \A e \in Calls \ {c} : call[e].vol # w  BY <1>2, <1>3
  <2> QED BY <2>2, <2>7, <2>8, <2>12, <2>13, <2>14, <2>15, <2>16, <2>17, <2>18, OneOrdered
          DEF VolumeOK
<1> QED BY <1>3, <1>4, <1>5, <1>6 DEF DeleteVDI

-----------------------------------------------------------------------------
(* The steps of XO, and of the process as a whole. *)

\* What XO does to a VBD on its own.
LEMMA PlugDrifts ==
  ASSUME "unplug" \notin Faults, Coherent(vdi, vbd), NEW b \in Vbds,
         PlugDone(b) \/ PlugFails(b) \/ DeviceNamed(b) \/ UnplugDone(b) \/ UnplugFails(b)
  PROVE  Drifting
<1>1. vbd \in [Vbds -> VBDRecord]  BY DEF Coherent
<1> SUFFICES /\ vdi' = vdi
             /\ \A x \in Vbds : /\ vbd'[x].vm = vbd[x].vm /\ vbd'[x].vdi = vbd[x].vdi
                                /\ vbd'[x].plug # "unused" <=> vbd[x].plug # "unused"
                                /\ Drifts(x)
  BY DEF Drifting, Lasts, Extends, Drift, Live, OwnerOf
<1>2. CASE PlugDone(b)
  <2>1. PICK n \in BOOLEAN : vbd' = [vbd EXCEPT ![b] = [vbd[b] EXCEPT !.plug = "on", !.named = n]]
    BY <1>2 DEF PlugDone
  <2> QED BY <1>1, <1>2, <2>1 DEF PlugDone, VBDRecord, Drifts
<1>3. CASE PlugFails(b)  BY <1>1, <1>3 DEF PlugFails, VBDRecord, Drifts
<1>4. CASE DeviceNamed(b)  BY <1>1, <1>4 DEF DeviceNamed, VBDRecord, Drifts
<1>5. CASE UnplugDone(b)  BY <1>1, <1>5 DEF UnplugDone, VBDRecord, Drifts
<1> QED BY <1>2, <1>3, <1>4, <1>5 DEF UnplugFails

\* Whatever XO and its administrator do on their own, every volume drifts.
LEMMA XODrifts ==
  ASSUME "unplug" \notin Faults, Inv, XONext
  PROVE  Drifting
<1>1. Coherent(vdi, vbd) /\ vdi \in [Vdis -> VDIRecord]
  BY DEF Inv, DiskInv, IInv, Coherent
<1>2. CASE \E m \in VMs, h \in Hosts : LiveMigrateVM(m, h)
  BY <1>1, <1>2, SameDrifting DEF LiveMigrateVM
<1>3. ASSUME NEW d \in Vdis, EraseTags(d) PROVE Drifting
  <2>1. vdi' = [vdi EXCEPT ![d] = [vdi[d] EXCEPT !.idTags = {}, !.cluster = FALSE]] /\ vbd' = vbd
    BY <1>3 DEF EraseTags
  <2>2. \A e \in Vdis : vdi'[e].state = vdi[e].state /\ vdi'[e].owner = vdi[e].owner
    BY <1>1, <2>1 DEF VDIRecord
  <2> QED BY <1>1, <2>1, <2>2, SameDrifting
<1> QED BY <1>1, <1>2, <1>3, PlugDrifts DEF XONext

\* A migration ends only when no VM uses the disk.
LEMMA MigrationDrifts ==
  ASSUME OneLocalSR, Inv, NEW d \in Vdis, NEW n \in Vdis, MigrationDone(d, n)
  PROVE  Drifting
<1>1. Coherent(vdi, vbd) /\ vbd \in [Vbds -> VBDRecord] /\ vdi \in [Vdis -> VDIRecord]
  BY DEF Inv, DiskInv, IInv, Coherent
<1>2. Lasts  BY <1>1, MigrationStep DEF Lasts
<1>3. \A b \in Vbds : vbd'[b].plug = vbd[b].plug /\ vbd'[b].named = vbd[b].named
  BY <1>1 DEF MigrationDone, VBDRecord
<1>4. /\ vdi[n].state = "unused" /\ Live(d)
      /\ \A e \in Vdis \ {d, n} : vdi'[e] = vdi[e]
  BY <1>1 DEF MigrationDone
<1>5. ASSUME NEW b \in Vbds, Plugged(b) PROVE OwnerOf(b) # vdi[d].owner
  <2> SUFFICES ASSUME OwnerOf(b) = vdi[d].owner PROVE FALSE
    OBVIOUS
  <2>1. b \in VbdsOf(d)  BY <1>4, <1>5, OfTheDisk DEF Exists, Plugged
  <2>2. ~Attached(b)  BY <2>1, PluggedIsNotMoved DEF Inv
  <2>3. vbd[b].plug # "plugging"  BY <2>1 DEF MigrationDone
  <2> QED BY <1>5, <2>2, <2>3 DEF Plugged, Attached
<1>6. ASSUME NEW v \in Volumes PROVE Drift(v)
  <2>1. ASSUME NEW e \in Vdis, vdi[e].state # "unused", vdi[e].owner = v
        PROVE  /\ Live(e)' => Live(e)
               /\ Live(e) /\ ~Live(e)' => \A b \in Vbds : Plugged(b) => OwnerOf(b) # v
    BY <1>4, <1>5, <2>1 DEF Live
  <2> QED BY <1>3, <2>1 DEF Drift, Drifts
<1> QED BY <1>2, <1>6 DEF Drifting

\* Every volume drifts, the CO is told nothing, and the calls stay, end, or go on
\* with a publish that relies on nothing new.
LEMMA AllDrift ==
  ASSUME Inv, Drifting, UNCHANGED CO, call' \in [Calls -> CallRecord],
         \A e \in Calls :
           \/ call'[e] = call[e] \/ call'[e] = Idle
           \/ /\ call'[e].op = call[e].op /\ call'[e].vol = call[e].vol
              /\ call'[e].vm = call[e].vm /\ call[e].op = "publish" /\ call[e].pc # "idle"
              /\ call'[e].pc = "copyTags"
  PROVE  OrdInv'
<1>1. co' = co /\ deleted' = deleted  BY DEF CO
<1>2. \A v \in Volumes : VolumeOK(v)'
  BY <1>1, DriftVolume DEF Drifting, Inv, OrdInv, DiskInv
<1>3. OneCallPerVolume'
  <2>1. \A e \in Calls : call'[e].vol \in {None, call[e].vol}  BY DEF Idle
  <2> QED BY <2>1 DEF Inv, OrdInv, OneCallPerVolume
<1>4. ASSUME NEW e \in Calls PROVE Asked(call'[e], co', deleted') /\ Sees(call'[e], vdi', vbd')
  <2>1. /\ Asked(call[e], co, deleted) /\ Sees(call[e], vdi, vbd) /\ Good(call[e], vdi, vbd)
    BY DEF Inv, OrdInv, CallOK, DiskInv, IInv, CallsGood
  <2>2. CASE call[e].pc = "idle" /\ call'[e] = call[e]
    BY <1>1, <2>1, <2>2 DEF Asked, Sees
  <2>3. CASE call[e].pc # "idle" /\ call'[e] = call[e]
    <3>1. Drift(call[e].vol)  BY <2>1, <2>3 DEF Drifting, Good
    <3> QED BY <1>1, <2>1, <2>3, <3>1, DriftSees DEF Drifting
  <2>4. CASE call'[e] = Idle
    <3>1. Asked(Idle, co', deleted') /\ Sees(Idle, vdi', vbd')  BY DEF Asked, Sees, Idle
    <3> QED BY <2>4, <3>1
  <2>5. CASE /\ call'[e].op = call[e].op /\ call'[e].vol = call[e].vol
             /\ call'[e].vm = call[e].vm /\ call[e].op = "publish" /\ call[e].pc # "idle"
             /\ call'[e].pc = "copyTags"
    BY <1>1, <2>1, <2>5 DEF Asked, Sees
  <2> QED BY <2>2, <2>3, <2>4, <2>5
<1> QED BY <1>2, <1>3, <1>4 DEF OrdInv, CallOK

\* A migration ends, and a publish may wait for it.
LEMMA FinishOrdered ==
  ASSUME OneLocalSR, Inv, NEW d \in Vdis, NEW n \in Vdis, FinishMigration(d, n)
  PROVE  OrdInv'
<1>1. Drifting /\ UNCHANGED CO  BY MigrationDrifts DEF FinishMigration
<1>2. call' \in [Calls -> CallRecord]
  BY FinishMigrationKeeps DEF Inv, DiskInv, IInv, CallsGood
<1>3. ASSUME NEW e \in Calls, Awaits(e, d)
      PROVE  /\ call'[e].op = call[e].op /\ call'[e].vol = call[e].vol
             /\ call'[e].vm = call[e].vm /\ call[e].op = "publish" /\ call[e].pc # "idle"
             /\ call'[e].pc = "copyTags"
  <2>1. call[e] \in CallRecord /\ call[e].op = "publish" /\ call[e].pc # "idle"
    BY <1>3, Alone DEF Awaits, At, Located, Publishing
  <2>2. call'[e] = [call[e] EXCEPT !.pc = "copyTags", !.vdi = n]
    BY <1>3 DEF FinishMigration
  <2> QED BY <2>1, <2>2 DEF CallRecord
<1>4. \A e \in Calls : ~Awaits(e, d) => call'[e] = call[e]  BY DEF FinishMigration
<1> QED BY <1>1, <1>2, <1>3, <1>4, AllDrift

\* A migration fails, and the publish that waits for it.
LEMMA FailOrdered ==
  ASSUME Inv, NEW d \in Vdis, FailMigration(d)
  PROVE  OrdInv'
<1>1. Coherent(vdi, vbd) /\ vdi \in [Vdis -> VDIRecord]
  BY DEF Inv, DiskInv, IInv, Coherent
<1>2. /\ vdi' = [vdi EXCEPT ![d].to = None] /\ vbd' = vbd /\ UNCHANGED CO
  BY DEF FailMigration, MigrationFails
<1>3. Drifting
  <2>1. \A e \in Vdis : vdi'[e].state = vdi[e].state /\ vdi'[e].owner = vdi[e].owner
    BY <1>1, <1>2 DEF VDIRecord
  <2> QED BY <1>1, <1>2, <2>1, SameDrifting
<1>4. call' \in [Calls -> CallRecord]
  BY FailMigrationKeeps DEF Inv, DiskInv, IInv, CallsGood
<1>5. \A e \in Calls : call'[e] = call[e] \/ call'[e] = Idle  BY DEF FailMigration
<1> QED BY <1>2, <1>3, <1>4, <1>5, AllDrift

\* All calls end, at whatever point they are.
LEMMA CrashOrdered ==
  ASSUME Inv, Crash
  PROVE  OrdInv'
<1>1. Drifting /\ UNCHANGED CO  BY ReadDrifting DEF Crash
<1>2. call' \in [Calls -> CallRecord]
  BY CrashKeeps DEF Inv, DiskInv, IInv, CallsGood
<1> QED BY <1>1, <1>2, AllDrift DEF Crash

-----------------------------------------------------------------------------
(* The inductive invariant, and what follows from it. *)

\* Nothing is plugged and nothing was asked for.
LEMMA InitInv == Init => Inv
<1> SUFFICES ASSUME Init PROVE Inv
  OBVIOUS
<1>1. \A v \in Volumes : VolumeOK(v)
  BY DEF Init, UnusedVBD, VolumeOK, Sole, Wanted, OneVbd, Given, Exists
<1>2. \A c \in Calls : call[c] = Idle  BY DEF Init
<1>3. OneCallPerVolume  BY <1>2 DEF OneCallPerVolume, Idle
<1>4. CallOK(Idle)  BY DEF CallOK, Asked, Sees, Idle
<1>5. OrdInv  BY <1>1, <1>2, <1>3, <1>4 DEF OrdInv
<1> QED BY <1>5, InitDiskInv DEF Inv

\* A handler keeps the invariant.
LEMMA HandleOrdered ==
  ASSUME Orderly, Inv, NEW c \in Calls,
         Handle(c) \/ PollTimeout(c) \/ Interrupted(c) \/ TaskWaitFails(c)
  PROVE  OrdInv'
BY LookupOrdered, DiskWritesOrdered, PublishReadsOrdered, CheckVbdsOrdered, VbdReadsOrdered,
   FindVBDOrdered, AwaitDisconnectOrdered, WaitsOrdered, ConnectOrdered, DisconnectOrdered,
   CreateOrdered, DeleteOrdered
DEF Handle

\* Every step keeps the invariant.
LEMMA NextInv ==
  ASSUME Orderly
  PROVE  Inv /\ [Next]_vars => Inv'
<1> SUFFICES ASSUME Inv, [Next]_vars PROVE Inv'
  OBVIOUS
<1>1. DiskInv'  BY NextDiskInv DEF Inv
<1> SUFFICES OrdInv'  BY <1>1 DEF Inv
<1>2. CASE UNCHANGED vars
  BY <1>2, ReadDrifting, AllDrift DEF vars, store, CO, Inv, DiskInv, IInv, CallsGood
<1>3. CASE XONext /\ UNCHANGED <<call, CO>>
  BY <1>3, XODrifts, AllDrift DEF Orderly, CO, Inv, DiskInv, IInv, CallsGood
<1>4. CASE \E c \in Calls, op \in Ops, v \in Volumes, m \in VMs \cup {None} :
             StartCall(c, op, v, m)
  BY <1>4, StartOrdered
<1>5. CASE \E d, n \in Vdis : FinishMigration(d, n)  BY <1>5, FinishOrdered DEF Orderly
<1> QED BY <1>2, <1>3, <1>4, <1>5, HandleOrdered, FailOrdered, CrashOrdered DEF Next

\* The invariant holds of every behaviour with an orderly CO.
THEOREM OrderedInvariance ==
  ASSUME Orderly
  PROVE  Spec => []Inv
BY InitInv, NextInv, PTL DEF Spec

\* Where a disk is plugged, the CO has business with that VM; so it is the only one.
LEMMA HeldByOne ==
  ASSUME Inv, NEW b \in Vbds, Plugged(b)
  PROVE  /\ OwnerOf(b) \in Volumes /\ vbd[b].vm \in VMs /\ Live(vbd[b].vdi)
         /\ co[OwnerOf(b)][vbd[b].vm] # "out"
         /\ Holders(OwnerOf(b)) = {vbd[b].vm}
<1>1. \A x \in Vbds : Plugged(x) => /\ OwnerOf(x) \in Volumes /\ vbd[x].vm \in VMs
                                    /\ Live(vbd[x].vdi)
                                    /\ co[OwnerOf(x)][vbd[x].vm] # "out"
  <2> SUFFICES ASSUME NEW x \in Vbds, Plugged(x)
               PROVE  /\ OwnerOf(x) \in Volumes /\ vbd[x].vm \in VMs /\ Live(vbd[x].vdi)
                      /\ co[OwnerOf(x)][vbd[x].vm] # "out"
    OBVIOUS
  <2>1. Exists(x)  BY DEF Exists, Plugged
  <2>2. OwnerOf(x) \in Volumes /\ vbd[x].vm \in VMs /\ Live(vbd[x].vdi)
    BY <2>1 DEF Inv, DiskInv, DisksOK, VbdsPlaced, Placed, OwnerOf
  <2> QED BY <2>1, <2>2 DEF Inv, OrdInv, VolumeOK, Wanted
<1>2. \A x \in Vbds : Plugged(x) /\ OwnerOf(x) = OwnerOf(b) => vbd[x].vm = vbd[b].vm
  BY <1>1 DEF Inv, OrdInv, VolumeOK, Sole
<1> QED BY <1>1, <1>2 DEF Holders, Plugged, OwnerOf

\* The disk of a volume is never plugged, nor about to be plugged, into two VMs, in
\* spite of calls cut short, crashes, retries and migrations.
THEOREM DisksAreAttachedOnce ==
  ASSUME Orderly
  PROVE  Spec => []AttachedOnce
<1>1. Inv => AttachedOnce
  <2> SUFFICES ASSUME Inv, NEW v \in Volumes PROVE Cardinality(Holders(v)) <= 1
    BY DEF AttachedOnce
  <2>1. CASE \E b \in Vbds : Plugged(b) /\ OwnerOf(b) = v
    <3>1. PICK b \in Vbds : Plugged(b) /\ OwnerOf(b) = v  BY <2>1
    <3>2. Holders(v) = {vbd[b].vm}  BY <3>1, HeldByOne
    <3>3. Cardinality({vbd[b].vm}) = 1  BY FS_Singleton
    <3> QED BY <3>2, <3>3
  <2>2. CASE ~\E b \in Vbds : Plugged(b) /\ OwnerOf(b) = v
    <3>1. Holders(v) = {}  BY <2>2 DEF Holders, Plugged, OwnerOf
    <3>2. Cardinality({}) = 0  BY FS_EmptySet
    <3> QED BY <3>1, <3>2
  <2> QED BY <2>1, <2>2
<1> QED BY <1>1, OrderedInvariance, PTL

\* When ControllerUnpublishVolume has answered OK, the disk is not in that VM and
\* nothing that is still going on will put it there; it stays so until the CO asks.
THEOREM UnpublishedDisksAreDetached ==
  ASSUME Orderly
  PROVE  Spec => []UnpublishedIsDetached
<1>1. Inv => UnpublishedIsDetached
  <2> SUFFICES ASSUME Inv, NEW v \in Volumes, NEW m \in VMs, m \in Holders(v)
               PROVE  co[v][m] # "out"
    BY DEF UnpublishedIsDetached
  <2>1. PICK b \in Vbds : Plugged(b) /\ OwnerOf(b) = v /\ vbd[b].vm = m
    BY DEF Holders, Plugged, OwnerOf
  <2> QED BY <2>1, HeldByOne
<1> QED BY <1>1, OrderedInvariance, PTL

\* When ControllerPublishVolume has answered OK, the disk is in that VM under a
\* device name, and stays there until the CO asks for it to be unpublished.
THEOREM PublishedDisksAreAttached ==
  ASSUME Orderly
  PROVE  Spec => []PublishedIsAttached
<1>1. Inv => PublishedIsAttached
  <2> SUFFICES ASSUME Inv, NEW v \in Volumes, NEW m \in VMs, co[v][m] = "in"
               PROVE  \E b \in Vbds : /\ vbd[b].plug = "on" /\ vbd[b].named /\ vbd[b].vm = m
                                      /\ Live(vbd[b].vdi) /\ vdi[vbd[b].vdi].owner = v
    BY DEF PublishedIsAttached
  <2>1. PICK b \in Vbds : /\ vbd[b].plug = "on" /\ vbd[b].named /\ vbd[b].vm = m
                          /\ OwnerOf(b) = v
    BY DEF Inv, OrdInv, VolumeOK, Given
  <2>2. Live(vbd[b].vdi)  BY <2>1, HeldByOne DEF Plugged
  <2> QED BY <2>1, <2>2 DEF OwnerOf
<1> QED BY <1>1, OrderedInvariance, PTL

\* Only a publish starts a migration.
LEMMA MigrationStarts ==
  ASSUME Inv, [Next]_vars, NEW d \in Vdis, vdi[d].to = None, vdi'[d].to # None
  PROVE  \E c \in Calls : At(c, "migrate") /\ call[c].vdi = d
<1>1. vdi \in [Vdis -> VDIRecord]  BY DEF Inv, DiskInv, IInv, Coherent
<1>2. ASSUME NEW e, NEW f, NEW t, \/ vdi' = [vdi EXCEPT ![e].cluster = t]
                                  \/ vdi' = [vdi EXCEPT ![e].idTags = t]
                                  \/ vdi' = [vdi EXCEPT ![e].state = t]
                                  \/ vdi' = [vdi EXCEPT ![e].to = None]
      PROVE  FALSE
  BY <1>1, <1>2 DEF VDIRecord
<1>3. ASSUME NEW e, NEW T, AddIdTags(e, T) PROVE FALSE
  BY <1>1, <1>3 DEF AddIdTags, VDIRecord
<1>4. ASSUME NEW e \in Vdis, NEW n \in Vdis, MigrationDone(e, n) PROVE FALSE
  <2>1. /\ vdi'[n].to = None /\ vdi'[e].to = None
        /\ \A x \in Vdis \ {e, n} : vdi'[x] = vdi[x]
    BY <1>1, <1>4 DEF MigrationDone, UnusedVDI, VDIRecord, Live
  <2> QED BY <2>1
<1>5. ASSUME NEW c \in Calls, Handle(c) \/ PollTimeout(c) \/ Interrupted(c) \/ TaskWaitFails(c)
      PROVE  At(c, "migrate") /\ call[c].vdi = d
  <2>1. \/ vdi' = vdi \/ RecoverTags(c) \/ CopyTags(c)
        \/ AdoptVDI(c) \/ StartMigration(c) \/ DeleteVDI(c)
    BY <1>5
    DEF Handle, LookupByTag, LookupByLabel, LookupByUUID, GetVM,
        FindLocalSRForHost, RefetchVDI, IsSRAttachedToHost, CheckVbds, ConnectVBD, AwaitConnect,
        GetConnectedVBD, CreateVBD, PollVBD, FindVBD, DisconnectVBD, AwaitDisconnect,
        CheckUnused, AnswerDeleted, PollTimeout, Interrupted, TaskWaitFails, store
  <2>2. CASE RecoverTags(c)  BY <1>3, <2>2 DEF RecoverTags
  <2>3. CASE CopyTags(c)  BY <1>3, <2>3 DEF CopyTags
  <2>4. CASE AdoptVDI(c)  BY <1>2, <2>4 DEF AdoptVDI
  <2>5. CASE DeleteVDI(c)  BY <1>2, <2>5 DEF DeleteVDI, DestroyVDI
  <2>6. CASE StartMigration(c)  BY <1>1, <2>6 DEF StartMigration, VDIRecord
  <2> QED BY <2>1, <2>2, <2>3, <2>4, <2>5, <2>6
<1>6. CASE XONext
  <2>1. ASSUME NEW e \in Vdis, EraseTags(e) PROVE FALSE
    BY <1>1, <2>1 DEF EraseTags, VDIRecord
  <2> QED BY <1>6, <2>1
          DEF XONext, PlugDone, PlugFails, DeviceNamed, UnplugDone, UnplugFails, LiveMigrateVM
<1> QED BY <1>2, <1>4, <1>5, <1>6
        DEF Next, StartCall, FinishMigration, FailMigration, MigrationFails, Crash, store, vars

\* A migration starts only while no VM but that of the call has the disk or is
\* about to get it, although the call looks for other VMs only afterwards.
THEOREM NothingMovesUnderAnother ==
  ASSUME Orderly
  PROVE  Spec => NotMovedUnderAnother
<1> DEFINE Movers(d) == {call[c].vm : c \in {e \in Calls : At(e, "migrate") /\ call[e].vdi = d}}
<1>1. ASSUME Inv, [Next]_vars, NEW d \in Vdis, vdi[d].to = None, vdi'[d].to # None
      PROVE  Holders(vdi[d].owner) \subseteq Movers(d)
  <2>1. PICK c \in Calls : At(c, "migrate") /\ call[c].vdi = d  BY <1>1, MigrationStarts
  <2>2. call[c].pc # "idle" /\ call[c].pc \in NeedsVdi /\ call[c].op = "publish"
    BY <1>1, <2>1 DEF At, NeedsVdi, PC, Inv, DiskInv, CallsLocated, Located, Publishing
  <2>3. /\ call[c].vol = vdi[d].owner /\ call[c].vol \in Volumes /\ call[c].vm \in VMs
        /\ co[call[c].vol][call[c].vm] # "out" /\ call[c].vm \in Movers(d)
    BY <1>1, <2>1, <2>2, Alone, CallDisk DEF CallOK, Asked, Good
  <2>4. ASSUME NEW b \in Vbds, Plugged(b), OwnerOf(b) = vdi[d].owner
        PROVE  vbd[b].vm = call[c].vm
    BY <1>1, <2>3, <2>4, HeldByOne DEF Inv, OrdInv, VolumeOK, Sole
  <2> HIDE DEF Movers
  <2> QED BY <2>3, <2>4 DEF Holders, Plugged, OwnerOf
<1>2. ASSUME Inv, [Next]_vars
      PROVE  [\A d \in Vdis : vdi[d].to = None /\ vdi'[d].to # None =>
                Holders(vdi[d].owner) \subseteq Movers(d)]_vars
  BY <1>1, <1>2
<1> QED BY <1>2, OrderedInvariance, PTL DEF Spec, NotMovedUnderAnother
=============================================================================
