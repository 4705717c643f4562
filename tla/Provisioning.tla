---------------------------- MODULE Provisioning ----------------------------
(***************************************************************************)
(* CreateVolume: where a new disk goes, and what the CO is told about it.  *)
(*                                                                         *)
(* A call chooses a pool by asking XO about one candidate after the other, *)
(* looks for a disk that an earlier call has made for the same PV name,    *)
(* and makes one if there is none.  XO is asked in between by every other  *)
(* call, and its administrator takes SRs in and out of maintenance; what a *)
(* call has read may be stale when it is used.  An action is one request   *)
(* to XO with the local code up to the next request.                       *)
(***************************************************************************)
EXTENDS Naturals, FiniteSets, SequencesExt

CONSTANTS
  None,          \* an absent value, and a topology without a pool segment
  BadId,         \* a string that is not a UUID, where a pool ID should be
  Names,         \* CSI volume names: PV names
  Requests,      \* the CreateVolume requests that the CO sends, see Request
  Calls,         \* goroutines that serve a call
  Vdis,          \* VDI UUIDs, each with the volume ID drawn with it
  Pools, SRs,
  PoolOf,        \* [SRs -> Pools]
  LocalSRs,      \* SRs with a connected PBD that are not shared
  DefaultSR,     \* [Pools -> SRs, or None]
  Tagged,        \* pools that carry driver.kubernetesPoolTag
  Faults         \* what the environment may do wrong in this instance

\* What CreateVolume reads of a request.  wellFormed: it has a name, a capacity
\* above 0, supported capabilities, no content source and a known storageType.
Request ==
  [name : Names, size : Nat, wellFormed : BOOLEAN, local : BOOLEAN,
   poolId : Pools \cup {None, BadId},
   preferred : Seq(Pools \cup {None, BadId}), requisite : Seq(Pools \cup {None, BadId})]

ASSUME ProvisioningAssumption ==
  /\ Requests \subseteq Request
  /\ PoolOf \in [SRs -> Pools] /\ LocalSRs \subseteq SRs
  /\ Tagged \subseteq Pools /\ IsFiniteSet(Tagged)
  /\ DefaultSR \in [Pools -> SRs \cup {None}]
  /\ \A p \in Pools : DefaultSR[p] # None => PoolOf[DefaultSR[p]] = p
  /\ None \notin Pools \cup SRs \cup Vdis \cup Names \cup Requests
  /\ BadId \notin Pools \cup {None}

VARIABLES
  disk,          \* [Vdis -> disk record]
  maint,         \* SRs in maintenance mode
  call,          \* [Calls -> call record]
  pv             \* [Names -> what the CO was told of the volume, or None]

vars == <<disk, maint, call, pv>>

-----------------------------------------------------------------------------
(* `for` is a ghost: the request that had the disk made. *)
DiskRecord ==
  [state : {"unused", "creating", "live"}, sr : SRs \cup {None},
   name : Names \cup {None}, size : Nat, for : Requests \cup {None}]

\* order holds the candidates left, pool and sr the chosen ones.  down is a ghost:
\* the pools that were not usable at some time since the call began, in XO (kept
\* by StartCreate and SetMaintenance) or for want of an answer of XO.
PC == {"idle", "tagged", "getPool", "getSR", "localSRs", "find", "create", "created"}

CallRecord ==
  [pc : PC, req : Requests \cup {None}, order : Seq(Pools), pool : Pools \cup {None},
   sr : SRs \cup {None}, vdi : Vdis \cup {None}, down : SUBSET Pools]

Volume == [id : Vdis, size : Nat, pool : Pools, sr : SRs]

UnusedDisk == [state |-> "unused", sr |-> None, name |-> None, size |-> 0, for |-> None]
Idle == [pc |-> "idle", req |-> None, order |-> <<>>, pool |-> None, sr |-> None,
         vdi |-> None, down |-> {}]

TypeOK ==
  /\ disk \in [Vdis -> DiskRecord]
  /\ maint \subseteq SRs
  /\ call \in [Calls -> CallRecord]
  /\ pv \in [Names -> Volume \cup {None}]

Init ==
  /\ disk = [d \in Vdis |-> UnusedDisk]
  /\ maint = {}
  /\ call = [c \in Calls |-> Idle]
  /\ pv = [n \in Names |-> None]

-----------------------------------------------------------------------------
(* The candidates of a request. *)

HasPool_Always(p) == TRUE            \* mutation: an empty segment is not skipped
HasPool(p) == p # None

\* s has a p before it has any q.
Before(s, p, q) == \E i \in DOMAIN s : s[i] = p /\ \A j \in 1..i : s[j] # q

\* The pools of the segments that have one, each once, by their first occurrence.
\* There is one such order; it is described by what it is, and not by the loop of
\* lo.Uniq, so that it can be reasoned about.
Uniq(s) ==
  LET pools == {p \in ToSet(s) : HasPool(p)} IN
  {order \in [1..Cardinality(pools) -> pools] :
     /\ ToSet(order) = pools
     /\ \A i, j \in DOMAIN order : i < j => Before(s, order[i], order[j])}

\* OrderedPoolIDs: the preferred pools in order, then the other requisite ones.
OrderedPoolIDs(r) == Uniq(r.preferred \o r.requisite)

\* ValidatePoolIDAgainstRequisite
InRequisite(r) == r.requisite = <<>> \/ r.poolId \in ToSet(r.requisite)

\* The errors that CreateVolume returns before its first request to XO.
Refused(r) ==
  \/ ~r.wellFormed
  \/ r.poolId = BadId
  \/ r.poolId # None /\ ~InRequisite(r)
  \/ r.poolId = None /\ BadId \in ToSet(r.preferred \o r.requisite)

Viable(p) == DefaultSR[p] # None /\ DefaultSR[p] \notin maint

-----------------------------------------------------------------------------
At(c, pc) == call[c].pc = pc
Goto(c, pc) == call' = [call EXCEPT ![c].pc = pc]
Reject(c) == call' = [call EXCEPT ![c] = Idle]

\* The handler answers with disk d, but with the pool and the SR it has chosen
\* itself, and with the capacity that was asked for.
Succeed(c, d) ==
  LET k == call[c] IN
  /\ pv' = [pv EXCEPT ![k.req.name] =
              [id |-> d, size |-> k.req.size, pool |-> k.pool, sr |-> k.sr]]
  /\ Reject(c)

\* The external-provisioner has one call in flight for a volume and calls until
\* it gets an answer, with the topology of the node chosen by then.
StartCreate(c, r) ==
  /\ At(c, "idle")
  /\ pv[r.name] = None /\ \A e \in Calls : ~At(e, "idle") => call[e].req.name # r.name
  /\ ~Refused(r)
  /\ \E order \in IF r.poolId # None THEN {<<r.poolId>>} ELSE OrderedPoolIDs(r) :
     call' = [call EXCEPT ![c] = [Idle EXCEPT !.req = r, !.order = order,
                !.pc = IF order = <<>> THEN "tagged" ELSE "getPool",
                !.down = {p \in Pools : ~Viable(p)}]]
  /\ UNCHANGED <<disk, maint, pv>>

\* TaggedPoolIDs, in whatever order XO lists them.
TaggedPoolIDs(c) ==
  /\ At(c, "tagged")
  /\ \E order \in SetToSeqs(Tagged) :
       IF order = <<>> THEN Reject(c)
       ELSE call' = [call EXCEPT ![c] = [@ EXCEPT !.pc = "getPool", !.order = order]]
  /\ UNCHANGED <<disk, maint, pv>>

\* SelectPoolAndStorage, two requests for each candidate.  One that is not
\* viable, or about which XO gives no answer, is passed over.
NextPool_SkipsOne(c, down) ==                  \* mutation: two at a time are passed over
  LET k == call[c] IN
  IF Len(k.order) <= 2 THEN Reject(c)
  ELSE call' = [call EXCEPT ![c] = [k EXCEPT !.pc = "getPool", !.down = down,
                                      !.order = Tail(Tail(k.order))]]
NextPool(c, down) ==
  LET k == call[c] IN
  IF Len(k.order) = 1 THEN Reject(c)
  ELSE call' = [call EXCEPT ![c] = [k EXCEPT !.pc = "getPool", !.down = down,
                                      !.order = Tail(k.order)]]
Unanswering(c) ==
  "api" \in Faults /\ NextPool(c, call[c].down \cup {Head(call[c].order)})

GetPool(c) ==
  LET k == call[c] IN
  /\ At(c, "getPool")
  /\ \/ DefaultSR[Head(k.order)] = None /\ NextPool(c, k.down)
     \/ DefaultSR[Head(k.order)] # None /\ Goto(c, "getSR")
     \/ Unanswering(c)
  /\ UNCHANGED <<disk, maint, pv>>

GetSR(c) ==
  LET k == call[c]
      p == Head(k.order) IN
  /\ At(c, "getSR")
  /\ \/ ~Viable(p) /\ NextPool(c, k.down)
     \/ Viable(p) /\ call' = [call EXCEPT ![c] =
          [@ EXCEPT !.pool = p, !.sr = DefaultSR[p],
             !.pc = IF k.req.local THEN "localSRs" ELSE "find"]]
     \/ Unanswering(c)
  /\ UNCHANGED <<disk, maint, pv>>

\* FindLocalSRsForPool: the first of its result, in whatever order XO lists them.
LocalSRsOf_AnyPool(p) == LocalSRs \ maint      \* mutation: no $pool in the filter
LocalSRsOf(p) == {s \in LocalSRs \ maint : PoolOf[s] = p}

FindLocalSRsForPool(c) ==
  LET srs == LocalSRsOf(call[c].pool) IN
  /\ At(c, "localSRs")
  /\ \/ srs = {} /\ Reject(c)
     \/ \E s \in srs : call' = [call EXCEPT ![c] = [@ EXCEPT !.pc = "find", !.sr = s]]
  /\ UNCHANGED <<disk, maint, pv>>

\* FindVDIByVolumeName, and the decision over its result.
ByName_OnChosenSR(c) ==                        \* mutation: looked for on one SR only
  {d \in Vdis : /\ disk[d].state = "live" /\ disk[d].name = call[c].req.name
                /\ disk[d].sr = call[c].sr}
ByName(c) == {d \in Vdis : disk[d].state = "live" /\ disk[d].name = call[c].req.name}

SameSize_Any(c, d) == TRUE                     \* mutation: the capacity is not compared
SameSize(c, d) == disk[d].size = call[c].req.size

FindVDIByVolumeName(c) ==
  /\ At(c, "find")
  /\ \/ ByName(c) = {} /\ Goto(c, "create") /\ UNCHANGED pv
     \/ \E d \in Vdis : ByName(c) = {d} /\ SameSize(c, d) /\ Succeed(c, d)
     \/ /\ ByName(c) # {} /\ \A d \in Vdis : ByName(c) = {d} => ~SameSize(c, d)
        /\ Reject(c) /\ UNCHANGED pv
  /\ UNCHANGED <<disk, maint>>

\* CreateNewVolume: XO accepts the request, and later the disk is there.
CreateVDI(c) ==
  LET k == call[c] IN
  /\ At(c, "create")
  /\ \E d \in Vdis :
       /\ disk[d].state = "unused"
       /\ disk' = [disk EXCEPT ![d] =
            [state |-> "creating", sr |-> k.sr, name |-> k.req.name, size |-> k.req.size,
             for |-> k.req]]
       /\ call' = [call EXCEPT ![c] = [@ EXCEPT !.pc = "created", !.vdi = d]]
  /\ UNCHANGED <<maint, pv>>

VDICreated(d) ==
  /\ disk[d].state = "creating"
  /\ disk' = [disk EXCEPT ![d].state = "live"]
  /\ UNCHANGED <<maint, call, pv>>

AnswerCreated(c) ==
  /\ At(c, "created") /\ disk[call[c].vdi].state = "live"
  /\ Succeed(c, call[c].vdi)
  /\ UNCHANGED <<disk, maint>>

\* A request or its answer is lost, the deadline of the call passes or the
\* process dies: the CO gets an error, and XO goes on with what it has accepted.
\* Without "abandon" no call ends, by its deadline or by a death of the process,
\* in the time between XO accepting a disk and having made it.
Interrupted(c) ==
  /\ "api" \in Faults /\ ~At(c, "idle")
  /\ At(c, "created") => disk[call[c].vdi].state = "live" \/ "abandon" \in Faults
  /\ Reject(c)
  /\ UNCHANGED <<disk, maint, pv>>

\* The administrator puts an SR into maintenance mode, or ends it.
SetMaintenance(s) ==
  /\ "maintenance" \in Faults
  /\ maint' = IF s \in maint THEN maint \ {s} ELSE maint \cup {s}
  /\ call' = [c \in Calls |->
       IF s \notin maint /\ call[c].pc \in {"tagged", "getPool", "getSR"}
       THEN [call[c] EXCEPT !.down = @ \cup {p \in Pools : DefaultSR[p] = s}]
       ELSE call[c]]
  /\ UNCHANGED <<disk, pv>>

Next ==
  \/ \E c \in Calls, r \in Requests : StartCreate(c, r)
  \/ \E c \in Calls : \/ TaggedPoolIDs(c) \/ GetPool(c) \/ GetSR(c) \/ FindLocalSRsForPool(c)
                      \/ FindVDIByVolumeName(c) \/ CreateVDI(c) \/ AnswerCreated(c)
                      \/ Interrupted(c)
  \/ \E d \in Vdis : VDICreated(d)
  \/ \E s \in SRs : SetMaintenance(s)

Spec == Init /\ [][Next]_vars

-----------------------------------------------------------------------------
(* Properties. *)

\* A PV name has one disk at most, however often the CO has to ask for it and
\* whichever pool each attempt chooses (controllerserver.go:405).
OneDiskPerName ==
  \A d, e \in Vdis :
    disk[d].state # "unused" /\ disk[e].state # "unused" /\ disk[d].name = disk[e].name => d = e

\* A request names pools, by its poolId or by its topology, and these are they.
Named(r) == (ToSet(r.preferred) \cup ToSet(r.requisite)) \ {None}
NamesPools(r) == r.poolId # None \/ Named(r) # {}
Allowed(r) ==
  IF r.poolId # None
  THEN {p \in {r.poolId} : r.requisite # <<>> => p \in ToSet(r.requisite)}
  ELSE Named(r)

\* A disk is made in a pool that its request names, where it names any, and on a
\* local SR if that was asked for, although the pool, its default SR and its local
\* SRs are read at different times (controllerserver.go:319-325, 392-402).
PlacedAsAsked ==
  \A d \in Vdis : disk[d].state # "unused" =>
    /\ NamesPools(disk[d].for) => PoolOf[disk[d].sr] \in Allowed(disk[d].for)
    /\ disk[d].for.local => disk[d].sr \in LocalSRs

\* A pool that was usable all the time, and about which XO gave every answer, is
\* not passed over: preferred pools come in their order and before the requisite
\* ones (topology/pool_selector.go:127-134, docs/topology.md:179-187).
PreferredFirst ==
  \A c \in Calls : LET k == call[c] IN
    k.pool # None /\ k.req.poolId = None =>
      LET preferred == k.req.preferred
          before == IF k.pool \in ToSet(preferred)
                    THEN {i \in DOMAIN preferred :
                            \A j \in DOMAIN preferred : preferred[j] = k.pool => i < j}
                    ELSE DOMAIN preferred
      IN \A i \in before : preferred[i] \in k.down \cup {None}

\* What the CO was told of a volume is true of exactly one disk: its ID, its
\* name and its capacity, whether this call or an earlier one has made it.
AnswersTruthful ==
  \A n \in Names : pv[n] # None =>
    /\ disk[pv[n].id].state = "live" /\ disk[pv[n].id].name = n
    /\ disk[pv[n].id].size = pv[n].size
    /\ \A d \in Vdis : disk[d].state # "unused" /\ disk[d].name = n => d = pv[n].id

\* The accessible topology that the CO was told, and will schedule by, is where
\* the disk is (docs/topology.md:12-15, controllerserver.go:321).
TopologyTruthful ==
  \A n \in Names : pv[n] # None => PoolOf[disk[pv[n].id].sr] = pv[n].pool
=============================================================================
