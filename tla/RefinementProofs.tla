-------------------------- MODULE RefinementProofs --------------------------
(***************************************************************************)
(* The controller service keeps the promise of Volume: every step of       *)
(* Attachment is one question, step or answer of Volume, or none.          *)
(*                                                                         *)
(* An answer changes no VBD, so that what the invariant says of the state  *)
(* after it says that it was true when it was given.                       *)
(***************************************************************************)
EXTENDS OrderedProofs, AttachmentRefinement

\* Who holds which volume.
HolderMap == [v \in Volumes |-> Holders(v)]

\* A step of Volume, or none.
PromiseStep == Promise!Next \/ (HolderMap' = HolderMap /\ co' = co /\ deleted' = deleted)

\* The same disks are plugged into the same VMs.
SamePlugs ==
  \A b \in Vbds : /\ Plugged(b)' <=> Plugged(b)
                  /\ Plugged(b) => vbd'[b].vm = vbd[b].vm /\ OwnerOf(b)' = OwnerOf(b)

\* Then the same VMs hold the same volumes.
LEMMA SameHolders ==
  ASSUME SamePlugs PROVE HolderMap' = HolderMap
<1>1. \A v \in Volumes : Holders(v)' = Holders(v)
  BY DEF SamePlugs, Holders, Plugged, OwnerOf
<1> QED BY <1>1 DEF HolderMap

\* No VBD changes its VM or its volume: what is plugged is the same if no plug changes.
LEMMA LastingPlugs ==
  ASSUME Lasts, \A b \in Vbds : Plugged(b)' <=> Plugged(b)
  PROVE  SamePlugs
BY DEF SamePlugs, Lasts, Extends, Plugged, OwnerOf

\* The CO is told nothing.
LEMMA SilentStep ==
  ASSUME SamePlugs, UNCHANGED CO PROVE PromiseStep
BY SameHolders DEF PromiseStep, CO

\* An answer.
LEMMA AnswerStep ==
  ASSUME Orderly, Inv, Inv', NEW c \in Calls, call[c].pc # "idle", Succeed(c), SamePlugs
  PROVE  PromiseStep
<1>1. PICK w \in Volumes : call[c].vol = w  BY Alone
<1>2. CallOK(call[c]) /\ Good(call[c], vdi, vbd) /\ COTypeOK /\ call[c].op \in Ops
  BY Alone DEF Inv, DiskInv, IInv
<1>3. HolderMap' = HolderMap  BY SameHolders
<1>4. VolumeOK(w)'  BY DEF Inv, OrdInv
<1>5. CASE call[c].op = "publish"
  <2>1. PICK m \in VMs : call[c].vm = m  BY <1>2, <1>5 DEF Good
  <2>2. co[w][m] = "attaching"  BY <1>1, <1>2, <1>5, <2>1 DEF CallOK, Asked
  <2>3. Notes(w, m, "in") /\ deleted' = deleted
    BY <1>1, <1>5, <2>1 DEF Succeed, Noted, Orderly, Notes
  <2>4. co'[w][m] = "in"  BY <1>2, <2>3, NotesOne
  <2>5. PICK b \in Vbds : vbd'[b].plug = "on" /\ vbd'[b].vm = m /\ OwnerOf(b)' = w
    BY <1>4, <2>4 DEF VolumeOK, Given
  <2>6. Plugged(b) /\ vbd[b].vm = m /\ OwnerOf(b) = w  BY <2>5 DEF SamePlugs, Plugged
  <2>7. HolderMap[w] = {m}  BY <2>6, HeldByOne DEF HolderMap
  <2>8. Promise!Published(w, m)
    BY <1>3, <2>2, <2>3, <2>7 DEF Promise!Published, Promise!Tell, HolderMap, Notes
  <2> QED BY <2>8 DEF PromiseStep, Promise!Next
<1>6. CASE call[c].op = "unpublish"
  <2>1. PICK m \in VMs : call[c].vm = m  BY <1>2, <1>6 DEF Good
  <2>2. co[w][m] = "detaching"  BY <1>1, <1>2, <1>6, <2>1 DEF CallOK, Asked
  <2>3. Notes(w, m, "out") /\ deleted' = deleted
    BY <1>1, <1>6, <2>1 DEF Succeed, Noted, Orderly, Notes
  <2>4. co'[w][m] = "out"  BY <1>2, <2>3, NotesOne
  <2>5. ASSUME NEW b \in Vbds, Plugged(b), OwnerOf(b) = w PROVE vbd[b].vm # m
    <3>1. Plugged(b)' /\ OwnerOf(b)' = w /\ vbd'[b].vm = vbd[b].vm  BY <2>5 DEF SamePlugs
    <3>2. co'[w][vbd'[b].vm] # "out"
      BY <1>4, <3>1 DEF VolumeOK, Wanted, Plugged, Exists
    <3> QED BY <2>4, <3>1, <3>2
  <2>6. m \notin HolderMap[w]  BY <2>5 DEF HolderMap, Holders, Plugged, OwnerOf
  <2>7. Promise!Unpublished(w, m)
    BY <1>3, <2>2, <2>3, <2>6 DEF Promise!Unpublished, Promise!Tell, HolderMap, Notes
  <2> QED BY <2>7 DEF PromiseStep, Promise!Next
<1>7. CASE call[c].op = "delete"
  <2>1. \A m \in VMs : co[w][m] = "out"  BY <1>1, <1>2, <1>7 DEF CallOK, Asked
  <2>2. co' = co /\ deleted' = deleted \cup {w}  BY <1>1, <1>7 DEF Succeed
  <2>3. ASSUME NEW b \in Vbds, Plugged(b) PROVE OwnerOf(b) # w
    BY <2>1, <2>3, HeldByOne
  <2>4. HolderMap[w] = {}  BY <2>3 DEF HolderMap, Holders, Plugged, OwnerOf
  <2>5. Promise!Deleted(w)
    BY <1>3, <2>1, <2>2, <2>4 DEF Promise!Deleted, HolderMap
  <2> QED BY <2>5 DEF PromiseStep, Promise!Next
<1>8. CASE call[c].op = "validate"
  BY <1>3, <1>8 DEF Succeed, PromiseStep
<1> QED BY <1>2, <1>5, <1>6, <1>7, <1>8, VolumeAssumption

\* A question.
LEMMA QuestionStep ==
  ASSUME Orderly, Inv, NEW c \in Calls, NEW op \in Ops, NEW w \in Volumes,
         NEW m \in VMs \cup {None}, StartCall(c, op, w, m)
  PROVE  PromiseStep
<1>1. /\ UNCHANGED store /\ deleted' = deleted
      /\ COAllows(op, w, m) /\ (m = None <=> op \in {"delete", "validate"})
  BY DEF StartCall, store, Orderly
<1>2. HolderMap' = HolderMap
  BY <1>1 DEF HolderMap, Holders, store
<1>3. CASE m = None  BY <1>1, <1>2, <1>3 DEF StartCall, PromiseStep
<1>4. CASE m # None /\ op = "publish"
  <2>1. m \in VMs /\ w \notin deleted /\ co[w][m] # "detaching"
        /\ (\A n \in VMs \ {m} : co[w][n] = "out")
    BY <1>1, <1>4 DEF COAllows
  <2>2. co' = [co EXCEPT ![w][m] = "attaching"]
    BY <1>4 DEF StartCall, Noted, Orderly
  <2>3. Promise!AskPublish(w, m)
    BY <1>1, <1>2, <2>1, <2>2 DEF Promise!AskPublish, Promise!Tell, HolderMap
  <2> QED BY <2>1, <2>3 DEF PromiseStep, Promise!Next
<1>5. CASE m # None /\ op # "publish"
  <2>1. op = "unpublish"  BY <1>1, <1>5, VolumeAssumption
  <2>2. m \in VMs /\ w \notin deleted /\ co[w][m] # "out"
    BY <1>1, <1>5, <2>1 DEF COAllows
  <2>3. co' = [co EXCEPT ![w][m] = "detaching"]
    BY <1>5 DEF StartCall, Noted, Orderly
  <2>4. Promise!AskUnpublish(w, m)
    BY <1>1, <1>2, <2>2, <2>3 DEF Promise!AskUnpublish, Promise!Tell, HolderMap
  <2> QED BY <2>2, <2>4 DEF PromiseStep, Promise!Next
<1> QED BY <1>3, <1>4, <1>5

-----------------------------------------------------------------------------
(* What the driver and XO do. *)

\* One VBD gets plugged, of a volume that no VM has.
LEMMA TakeStep ==
  ASSUME Inv, UNCHANGED CO, NEW w \in Volumes, NEW m \in VMs, NEW b \in Vbds,
         co[w][m] = "attaching", Plugged(b)', vbd'[b].vm = m, OwnerOf(b)' = w,
         \A x \in Vbds : Plugged(x) => ~(OwnerOf(x) = w /\ vbd[x].vm = m),
         \A x \in Vbds \ {b} : /\ Plugged(x)' <=> Plugged(x)
                               /\ Plugged(x) => vbd'[x].vm = vbd[x].vm /\ OwnerOf(x)' = OwnerOf(x),
         ~Plugged(b)
  PROVE  PromiseStep
<1>1. \A x \in Vbds : Plugged(x) => OwnerOf(x) # w
  <2> SUFFICES ASSUME NEW x \in Vbds, Plugged(x), OwnerOf(x) = w PROVE vbd[x].vm = m
    OBVIOUS
  <2>1. co[w][vbd[x].vm] # "out" /\ vbd[x].vm \in VMs  BY HeldByOne
  <2> QED BY <2>1 DEF Inv, OrdInv, VolumeOK, Sole
<1>2. \A v \in Volumes : Holders(v) = {vbd[x].vm : x \in {y \in Vbds : Plugged(y) /\ OwnerOf(y) = v}}
  BY DEF Holders, Plugged, OwnerOf
<1>3. \A v \in Volumes :
        Holders(v)' = {vbd'[x].vm : x \in {y \in Vbds : Plugged(y)' /\ OwnerOf(y)' = v}}
  BY DEF Holders, Plugged, OwnerOf
<1>4. Holders(w) = {}  BY <1>1, <1>2
<1>5. Holders(w)' = {m}
  <2>1. \A y \in Vbds : Plugged(y)' /\ OwnerOf(y)' = w => y = b  BY <1>1
  <2>2. {y \in Vbds : Plugged(y)' /\ OwnerOf(y)' = w} = {b}  BY <2>1
  <2> QED BY <1>3, <2>2
<1>6. ASSUME NEW v \in Volumes \ {w} PROVE Holders(v)' = Holders(v)
  <2> DEFINE S == {y \in Vbds : Plugged(y) /\ OwnerOf(y) = v}
  <2>1. {y \in Vbds : Plugged(y)' /\ OwnerOf(y)' = v} = S  OBVIOUS
  <2>2. \A x \in S : vbd'[x].vm = vbd[x].vm  OBVIOUS
  <2>3. {vbd'[x].vm : x \in S} = {vbd[x].vm : x \in S}  BY <2>2
  <2> QED BY <1>2, <1>3, <2>1, <2>3
<1>7. HolderMap' = [HolderMap EXCEPT ![w] = {m}]
  BY <1>5, <1>6 DEF HolderMap
<1>8. HolderMap[w] = {}  BY <1>4 DEF HolderMap
<1>9. Promise!Take(w, m)  BY <1>7, <1>8 DEF Promise!Take, HolderMap, CO
<1> QED BY <1>9 DEF PromiseStep, Promise!Next

\* One VBD is plugged no more, which was not published.
LEMMA LetGoStep ==
  ASSUME Inv, UNCHANGED CO, NEW b \in Vbds, Plugged(b), vbd[b].plug # "on", ~Plugged(b)',
         \A x \in Vbds \ {b} : /\ Plugged(x)' <=> Plugged(x)
                               /\ Plugged(x) => vbd'[x].vm = vbd[x].vm /\ OwnerOf(x)' = OwnerOf(x)
  PROVE  PromiseStep
<1>1. PICK w \in Volumes, m \in VMs :
        OwnerOf(b) = w /\ vbd[b].vm = m /\ Holders(w) = {m}
  BY HeldByOne
<1>2. ASSUME NEW x \in Vbds, Exists(x), OwnerOf(x) = w, vbd[x].vm = m PROVE x = b
  BY <1>1, <1>2 DEF Inv, OrdInv, VolumeOK, OneVbd, Exists, Plugged
<1>3. ASSUME NEW x \in Vbds, Plugged(x), OwnerOf(x) = w PROVE x = b
  <2>1. Holders(w) = {vbd[x].vm}  BY <1>3, HeldByOne
  <2>2. vbd[x].vm = m  BY <1>1, <2>1
  <2> QED BY <1>2, <1>3, <2>2 DEF Exists, Plugged
<1>4. co[w][m] # "in"
  <2> SUFFICES ASSUME co[w][m] = "in" PROVE FALSE
    OBVIOUS
  <2>1. PICK x \in Vbds : vbd[x].plug = "on" /\ vbd[x].vm = m /\ OwnerOf(x) = w
    BY DEF Inv, OrdInv, VolumeOK, Given
  <2> QED BY <1>2, <2>1 DEF Exists
<1>5. \A v \in Volumes : Holders(v) = {vbd[x].vm : x \in {y \in Vbds : Plugged(y) /\ OwnerOf(y) = v}}
  BY DEF Holders, Plugged, OwnerOf
<1>6. \A v \in Volumes :
        Holders(v)' = {vbd'[x].vm : x \in {y \in Vbds : Plugged(y)' /\ OwnerOf(y)' = v}}
  BY DEF Holders, Plugged, OwnerOf
<1>7. Holders(w)' = {}
  <2>1. \A y \in Vbds : ~(Plugged(y)' /\ OwnerOf(y)' = w)  BY <1>3
  <2> QED BY <1>6, <2>1
<1>8. ASSUME NEW v \in Volumes \ {w} PROVE Holders(v)' = Holders(v)
  <2> DEFINE S == {y \in Vbds : Plugged(y) /\ OwnerOf(y) = v}
  <2>1. {y \in Vbds : Plugged(y)' /\ OwnerOf(y)' = v} = S  BY <1>1
  <2>2. \A x \in S : vbd'[x].vm = vbd[x].vm  BY <1>1
  <2>3. {vbd'[x].vm : x \in S} = {vbd[x].vm : x \in S}  BY <2>2
  <2> QED BY <1>5, <1>6, <2>1, <2>3
<1>9. HolderMap' = [HolderMap EXCEPT ![w] = {}]  BY <1>7, <1>8 DEF HolderMap
<1>10. m \in HolderMap[w]  BY <1>1 DEF HolderMap
<1>11. Promise!LetGo(w, m)  BY <1>4, <1>9, <1>10 DEF Promise!LetGo, HolderMap, CO
<1> QED BY <1>11 DEF PromiseStep, Promise!Next

\* A publish connects its VBD, or creates one.
LEMMA ConnectTakes ==
  ASSUME Inv, NEW c \in Calls, ConnectVBD(c)
  PROVE  PromiseStep
<1>1. call[c].pc = "connect" /\ call[c].pc # "idle" /\ vdi' = vdi
  BY DEF ConnectVBD, At
<1>2. CASE Reject(c) /\ UNCHANGED vbd
  BY <1>1, <1>2, SilentStep DEF SamePlugs, Plugged, OwnerOf, Reject, CO
<1>3. CASE /\ vbd[call[c].vbd].plug = "off"
           /\ vbd' = [vbd EXCEPT ![call[c].vbd].plug = "plugging"] /\ UNCHANGED CO
  <2>1. PICK w \in Volumes, m \in VMs, b \in Vbds :
          /\ call[c].vol = w /\ call[c].vm = m /\ call[c].vbd = b
          /\ vbd[b].vm = m /\ OwnerOf(b) = w /\ co[w][m] = "attaching"
    BY <1>1, Alone, CallVbd DEF Good, NeedsVbd, CallOK, Asked, Located, Publishing
  <2>2. vbd \in [Vbds -> VBDRecord]  BY DEF Inv, DiskInv, IInv, Coherent
  <2>3. \A x \in Vbds : /\ vbd'[x].vm = vbd[x].vm /\ OwnerOf(x)' = OwnerOf(x)
                        /\ vbd'[x].plug = IF x = b THEN "plugging" ELSE vbd[x].plug
    BY <1>1, <1>3, <2>1, <2>2 DEF VBDRecord, OwnerOf
  <2>4. \A x \in Vbds : Plugged(x) => ~(OwnerOf(x) = w /\ vbd[x].vm = m)
    BY <1>3, <2>1 DEF Inv, OrdInv, VolumeOK, OneVbd, Exists, Plugged
  <2>5. /\ Plugged(b)' /\ ~Plugged(b)
        /\ \A x \in Vbds \ {b} : Plugged(x)' <=> Plugged(x)
    BY <1>3, <2>1, <2>3 DEF Plugged
  <2> QED BY <1>3, <2>1, <2>3, <2>4, <2>5, TakeStep
<1> QED BY <1>2, <1>3 DEF ConnectVBD

\* A publish that has seen no VBD of its VM creates one.
LEMMA CreateTakes ==
  ASSUME Inv, NEW c \in Calls, CreateVBD(c)
  PROVE  PromiseStep
<1>1. call[c].pc = "create" /\ call[c].pc # "idle" /\ vdi' = vdi
  BY DEF CreateVBD, At
<1>2. CASE Reject(c) /\ UNCHANGED vbd
  BY <1>1, <1>2, SilentStep DEF SamePlugs, Plugged, OwnerOf, Reject, CO
<1>3. ASSUME Live(call[c].vdi), NEW b \in Vbds, CreateVBDOn(b, call[c].vdi, call[c].vm),
             UNCHANGED CO
      PROVE  PromiseStep
  <2>1. PICK w \in Volumes, m \in VMs :
          /\ call[c].vol = w /\ call[c].vm = m /\ vdi[call[c].vdi].owner = w
          /\ co[w][m] = "attaching" /\ CallOK(call[c])
    BY <1>1, Alone, CallDisk DEF Good, NeedsVdi, PC, CallOK, Asked, Located, Publishing
  <2>2. vbd \in [Vbds -> VBDRecord]  BY DEF Inv, DiskInv, IInv, Coherent
  <2>3. \A x \in Vbds \ {b} : vbd'[x] = vbd[x] /\ OwnerOf(x)' = OwnerOf(x)
    BY <1>1, <1>3, <2>2 DEF CreateVBDOn, OwnerOf
  <2>4. /\ vbd'[b].plug = "plugging" /\ vbd'[b].vm = m /\ OwnerOf(b)' = w
        /\ vbd[b].plug = "unused"
    BY <1>1, <1>3, <2>1, <2>2 DEF CreateVBDOn, OwnerOf
  <2>5. \A x \in Vbds : Plugged(x) => ~(OwnerOf(x) = w /\ vbd[x].vm = m)
    BY <1>1, <1>3, <2>1 DEF CallOK, Sees, Live, Plugged, OwnerOf
  <2>6. /\ Plugged(b)' /\ ~Plugged(b)
        /\ \A x \in Vbds \ {b} : Plugged(x)' <=> Plugged(x)
    BY <2>3, <2>4 DEF Plugged
  <2> QED BY <1>3, <2>1, <2>3, <2>4, <2>5, <2>6, TakeStep
<1> QED BY <1>2, <1>3 DEF CreateVBD

\* A handler that plugs nothing goes on, gives up, or answers.
LEMMA QuietStep ==
  ASSUME Orderly, Inv, Inv', NEW c \in Calls, call[c].pc # "idle", SamePlugs,
         Succeed(c) \/ UNCHANGED CO
  PROVE  PromiseStep
BY AnswerStep, SilentStep

\* The requests that only read, and what cuts a call short.
LEMMA ReadStep ==
  ASSUME Orderly, Inv, Inv', NEW c \in Calls,
         \/ LookupByTag(c) \/ LookupByLabel(c) \/ LookupByUUID(c)
         \/ GetVM(c) \/ FindLocalSRForHost(c) \/ RefetchVDI(c) \/ IsSRAttachedToHost(c)
         \/ CheckVbds(c) \/ AwaitConnect(c) \/ GetConnectedVBD(c) \/ PollVBD(c)
         \/ FindVBD(c) \/ AwaitDisconnect(c) \/ CheckUnused(c) \/ AnswerDeleted(c)
         \/ PollTimeout(c) \/ Interrupted(c) \/ TaskWaitFails(c)
  PROVE  PromiseStep
<1>1. call[c].pc # "idle" /\ UNCHANGED store
  BY DEF LookupByTag, LookupByLabel, LookupByUUID, GetVM, FindLocalSRForHost, RefetchVDI,
         IsSRAttachedToHost, CheckVbds, AwaitConnect, GetConnectedVBD, PollVBD, FindVBD,
         AwaitDisconnect, CheckUnused, AnswerDeleted, PollTimeout, Interrupted, TaskWaitFails,
         At, store
<1>2. SamePlugs  BY <1>1 DEF SamePlugs, Plugged, OwnerOf, store
<1>3. Succeed(c) \/ UNCHANGED CO
  <2>1. CASE LookupByTag(c) \/ LookupByLabel(c) \/ LookupByUUID(c)
    BY <2>1 DEF LookupByTag, LookupByLabel, LookupByUUID, Found, NotFound, Reject, CO
  <2>2. CASE GetVM(c) \/ FindLocalSRForHost(c) \/ RefetchVDI(c) \/ IsSRAttachedToHost(c)
    BY <2>2 DEF GetVM, FindLocalSRForHost, RefetchVDI, IsSRAttachedToHost, Reject, CO
  <2>3. CASE CheckVbds(c) \/ AwaitConnect(c) \/ GetConnectedVBD(c) \/ PollVBD(c)
    BY <2>3 DEF CheckVbds, AwaitConnect, GetConnectedVBD, PollVBD, Reject, CO
  <2>4. CASE FindVBD(c) \/ AwaitDisconnect(c) \/ CheckUnused(c) \/ AnswerDeleted(c)
    BY <2>4 DEF FindVBD, NoVBD, AwaitDisconnect, CheckUnused, AnswerDeleted, Reject, CO
  <2>5. CASE PollTimeout(c) \/ Interrupted(c) \/ TaskWaitFails(c)
    BY <2>5 DEF PollTimeout, Interrupted, TaskWaitFails, Reject, CO
  <2> QED BY <2>1, <2>2, <2>3, <2>4, <2>5
<1> QED BY <1>1, <1>2, <1>3, QuietStep

\* The requests that write on the disk.
LEMMA DiskWriteStep ==
  ASSUME Orderly, Inv, Inv', NEW c \in Calls,
         RecoverTags(c) \/ CopyTags(c) \/ AdoptVDI(c) \/ StartMigration(c)
  PROVE  PromiseStep
<1>1. call[c].pc # "idle"  BY DEF RecoverTags, CopyTags, AdoptVDI, StartMigration, At
<1>2. SamePlugs
  BY DiskWritesDrift, LastingPlugs DEF Drifting, Plugged
<1>3. Succeed(c) \/ UNCHANGED CO
  BY DEF RecoverTags, CopyTags, AdoptVDI, StartMigration, Reject, CO
<1> QED BY <1>1, <1>2, <1>3, QuietStep

\* A disk that is being unplugged is still in its VM.
LEMMA DisconnectStep ==
  ASSUME Orderly, Inv, Inv', NEW c \in Calls, DisconnectVBD(c)
  PROVE  PromiseStep
<1>1. call[c].pc = "disconnect" /\ call[c].pc # "idle" /\ vdi' = vdi
  BY DEF DisconnectVBD, At
<1>2. vbd \in [Vbds -> VBDRecord]  BY DEF Inv, DiskInv, IInv, Coherent
<1>3. CASE UNCHANGED vbd
  BY <1>1, <1>3, QuietStep DEF SamePlugs, Plugged, OwnerOf, DisconnectVBD, Reject, CO
<1>4. CASE /\ vbd[call[c].vbd].plug = "on"
           /\ vbd' = [vbd EXCEPT ![call[c].vbd].plug = "unplugging"] /\ UNCHANGED CO
  <2>1. \A x \in Vbds : /\ vbd'[x].vm = vbd[x].vm /\ OwnerOf(x)' = OwnerOf(x)
                        /\ Plugged(x)' <=> Plugged(x)
    BY <1>1, <1>2, <1>4 DEF VBDRecord, OwnerOf, Plugged
  <2> QED BY <1>4, <2>1, SilentStep DEF SamePlugs
<1> QED BY <1>3, <1>4 DEF DisconnectVBD

\* A deletion destroys no VBD that is plugged.
LEMMA DeleteStep ==
  ASSUME Orderly, Inv, Inv', NEW c \in Calls, DeleteVDI(c)
  PROVE  PromiseStep
<1>1. call[c].pc = "destroy" /\ call[c].pc # "idle"  BY DEF DeleteVDI, At
<1>2. Succeed(c) \/ UNCHANGED CO  BY DEF DeleteVDI, Reject, CO
<1>3. CASE UNCHANGED <<vdi, vbd>>
  BY <1>1, <1>2, <1>3, QuietStep DEF SamePlugs, Plugged, OwnerOf
<1>4. CASE DestroyVDI(call[c].vdi)
  <2>1. PICK w \in Volumes, d \in Vdis :
          /\ call[c].vol = w /\ call[c].vdi = d /\ vdi[d].owner = w
          /\ \A m \in VMs : co[w][m] = "out"
    BY <1>1, Alone, CallDisk DEF NeedsVdi, PC, CallOK, Asked, Located
  <2>2. vdi \in [Vdis -> VDIRecord] /\ vbd \in [Vbds -> VBDRecord] /\ Coherent(vdi, vbd)
    BY DEF Inv, DiskInv, IInv, Coherent
  <2>3. \A x \in Vdis : vdi'[x].owner = vdi[x].owner
    BY <1>4, <2>1, <2>2 DEF DestroyVDI, VDIRecord
  <2>4. \A b \in Vbds : /\ vbd'[b].vm = vbd[b].vm /\ vbd'[b].vdi = vbd[b].vdi
                        /\ vbd'[b].plug = IF b \in VbdsOf(d) THEN "gone" ELSE vbd[b].plug
    BY <1>4, <2>1, <2>2 DEF DestroyVDI, VBDRecord
  <2>5. ASSUME NEW b \in Vbds, Plugged(b) PROVE b \notin VbdsOf(d) /\ OwnerOf(b)' = OwnerOf(b)
    <3>1. OwnerOf(b) # w  BY <2>1, <2>5, HeldByOne
    <3>2. b \notin VbdsOf(d)  BY <2>1, <3>1 DEF VbdsOf, OwnerOf
    <3>3. vbd[b].vdi \in Vdis  BY <2>2, <2>5 DEF Coherent, Plugged
    <3> QED BY <2>3, <2>4, <3>2, <3>3 DEF OwnerOf
  <2>6. SamePlugs  BY <2>4, <2>5 DEF SamePlugs, Plugged
  <2> QED BY <1>1, <1>2, <2>6, QuietStep
<1> QED BY <1>3, <1>4 DEF DeleteVDI

\* A handler keeps the promise.
LEMMA HandleStep ==
  ASSUME Orderly, Inv, Inv', NEW c \in Calls,
         Handle(c) \/ PollTimeout(c) \/ Interrupted(c) \/ TaskWaitFails(c)
  PROVE  PromiseStep
BY ReadStep, DiskWriteStep, ConnectTakes, CreateTakes, DisconnectStep, DeleteStep DEF Handle

\* So does XO: a plug that ends has been taken before, an unplug lets go.
LEMMA XOTakesAndLetsGo ==
  ASSUME Orderly, Inv, XONext, UNCHANGED CO
  PROVE  PromiseStep
<1>1. vbd \in [Vbds -> VBDRecord]  BY DEF Inv, DiskInv, IInv, Coherent
<1>2. Lasts  BY XODrifts DEF Orderly, Drifting
<1>3. ASSUME NEW b \in Vbds, PlugFails(b) \/ UnplugDone(b) PROVE PromiseStep
  <2>1. /\ vdi' = vdi /\ vbd'[b].plug = "off" /\ vbd[b].plug \in {"plugging", "unplugging"}
        /\ \A x \in Vbds \ {b} : vbd'[x] = vbd[x]
    <3>1. CASE PlugFails(b)  BY <1>1, <3>1 DEF PlugFails, VBDRecord
    <3>2. CASE UnplugDone(b)  BY <1>1, <3>2 DEF UnplugDone, VBDRecord
    <3> QED BY <1>3, <3>1, <3>2
  <2>2. \A x \in Vbds \ {b} :
          /\ Plugged(x)' <=> Plugged(x)
          /\ Plugged(x) => vbd'[x].vm = vbd[x].vm /\ OwnerOf(x)' = OwnerOf(x)
    BY <2>1 DEF Plugged, OwnerOf
  <2>3. Plugged(b) /\ vbd[b].plug # "on" /\ ~Plugged(b)'  BY <2>1 DEF Plugged
  <2> QED BY <2>2, <2>3, LetGoStep
<1>4. CASE ~\E b \in Vbds : PlugFails(b) \/ UnplugDone(b)
  <2>1. ASSUME NEW x \in Vbds PROVE Plugged(x)' <=> Plugged(x)
    <3>1. CASE vbd' = vbd  BY <3>1 DEF Plugged
    <3>2. CASE \E b \in Vbds : PlugDone(b) \/ DeviceNamed(b)
      <4>1. PICK b \in Vbds : PlugDone(b) \/ DeviceNamed(b)  BY <3>2
      <4>2. CASE PlugDone(b)
        <5>1. PICK n \in BOOLEAN :
                vbd' = [vbd EXCEPT ![b] = [vbd[b] EXCEPT !.plug = "on", !.named = n]]
          BY <4>2 DEF PlugDone
        <5> QED BY <1>1, <4>2, <5>1 DEF PlugDone, VBDRecord, Plugged
      <4>3. CASE DeviceNamed(b)  BY <1>1, <4>3 DEF DeviceNamed, VBDRecord, Plugged
      <4> QED BY <4>1, <4>2, <4>3
    <3> QED BY <1>4, <3>1, <3>2 DEF XONext, UnplugFails, LiveMigrateVM, EraseTags, Orderly
  <2> QED BY <1>2, <2>1, LastingPlugs, SilentStep
<1> QED BY <1>3, <1>4

\* And so do the end of a migration and the end of the process.
LEMMA TaskStep ==
  ASSUME Orderly, Inv,
         \/ \E d, n \in Vdis : FinishMigration(d, n)
         \/ \E d \in Vdis : FailMigration(d)
         \/ Crash
  PROVE  PromiseStep
<1>1. CASE \E d, n \in Vdis : FinishMigration(d, n)
  <2>1. PICK d \in Vdis, n \in Vdis : MigrationDone(d, n) /\ UNCHANGED CO
    BY <1>1 DEF FinishMigration
  <2>2. Lasts  BY <2>1, MigrationDrifts DEF Orderly, Drifting
  <2>3. vbd \in [Vbds -> VBDRecord]  BY DEF Inv, DiskInv, IInv, Coherent
  <2>4. \A x \in Vbds : Plugged(x)' <=> Plugged(x)
    BY <2>1, <2>3 DEF MigrationDone, VBDRecord, Plugged
  <2> QED BY <2>1, <2>2, <2>4, LastingPlugs, SilentStep
<1>2. CASE \E d \in Vdis : FailMigration(d)
  <2>1. PICK d \in Vdis : vdi' = [vdi EXCEPT ![d].to = None] /\ vbd' = vbd /\ UNCHANGED CO
    BY <1>2 DEF FailMigration, MigrationFails
  <2>2. vdi \in [Vdis -> VDIRecord] /\ Coherent(vdi, vbd)
    BY DEF Inv, DiskInv, IInv, Coherent
  <2>3. \A x \in Vdis : vdi'[x].state = vdi[x].state /\ vdi'[x].owner = vdi[x].owner
    BY <2>1, <2>2 DEF VDIRecord
  <2>4. Lasts  BY <2>1, <2>2, <2>3, SameDrifting DEF Drifting
  <2> QED BY <2>1, <2>4, LastingPlugs, SilentStep DEF Plugged
<1>3. CASE Crash
  BY <1>3, SilentStep DEF Crash, store, SamePlugs, Plugged, OwnerOf
<1> QED BY <1>1, <1>2, <1>3

-----------------------------------------------------------------------------
(* The refinement. *)

\* At first no VM holds a volume.
LEMMA InitPromise == Init => Promise!Init
<1> SUFFICES ASSUME Init PROVE Promise!Init
  OBVIOUS
<1>1. \A v \in Volumes : Holders(v) = {}  BY DEF Init, UnusedVBD, Holders
<1> QED BY <1>1 DEF Init, Promise!Init

\* Every step is one of Volume, or none.
LEMMA NextPromise ==
  ASSUME Orderly, Inv, Inv', [Next]_vars
  PROVE  [Promise!Next]_(Promise!vars)
<1>1. PromiseStep
  <2>1. CASE UNCHANGED vars
    BY <2>1, SilentStep DEF vars, CO, SamePlugs, Plugged, OwnerOf
  <2>2. CASE XONext /\ UNCHANGED <<call, CO>>
    <3>1. UNCHANGED CO  BY <2>2 DEF CO
    <3> QED BY <2>2, <3>1, XOTakesAndLetsGo
  <2>3. CASE \E c \in Calls, op \in Ops, v \in Volumes, m \in VMs \cup {None} :
               StartCall(c, op, v, m)
    BY <2>3, QuestionStep
  <2> QED BY <2>1, <2>2, <2>3, HandleStep, TaskStep DEF Next
<1> QED BY <1>1 DEF PromiseStep, HolderMap, Promise!vars

\* The controller service implements Volume: every behaviour with an orderly CO is,
\* seen through who holds which volume, one of Volume, with all its calls cut short,
\* its crashes and its retries.
THEOREM PromiseIsKept ==
  ASSUME Orderly
  PROVE  Spec => KeepsPromise
BY InitPromise, NextPromise, NextInv, InitInv, PTL DEF Spec, KeepsPromise, Promise!Spec

-----------------------------------------------------------------------------
(* What follows from the promise holds of the service. *)

PromiseFacts == INSTANCE VolumeProofs WITH
  held <- [v \in Volumes |-> Holders(v)],
  told <- co,
  gone <- deleted

\* The disk of a volume is held by the VM it is published to and by no other, and by
\* none it is unpublished from: what VolumeProofs shows of any implementation.
THEOREM OneHolderAtATime ==
  ASSUME Orderly
  PROVE  Spec => []Promise!Exclusive
<1>1. Promise!Init <=> PromiseFacts!Init  BY DEF Promise!Init, PromiseFacts!Init
<1>2. [Promise!Next]_(Promise!vars) <=> [PromiseFacts!Next]_(PromiseFacts!vars)
  BY DEF Promise!Next, PromiseFacts!Next, Promise!vars, PromiseFacts!vars,
         Promise!AskPublish, PromiseFacts!AskPublish, Promise!AskUnpublish,
         PromiseFacts!AskUnpublish, Promise!Take, PromiseFacts!Take, Promise!LetGo,
         PromiseFacts!LetGo, Promise!Published, PromiseFacts!Published,
         Promise!Unpublished, PromiseFacts!Unpublished, Promise!Deleted,
         PromiseFacts!Deleted, Promise!Tell, PromiseFacts!Tell
<1>3. Promise!Exclusive <=> PromiseFacts!Exclusive
  BY DEF Promise!Exclusive, PromiseFacts!Exclusive
<1> QED BY <1>1, <1>2, <1>3, PromiseIsKept, PromiseFacts!OneHolder, PTL
        DEF KeepsPromise, Promise!Spec, PromiseFacts!Spec
=============================================================================
