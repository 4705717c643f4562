-------------------------- MODULE ProvisioningProofs --------------------------
(***************************************************************************)
(* CreateVolume for any number of names, pools, SRs, disks and concurrent  *)
(* calls.  Whatever happens to the SRs and to the answers of XO: disks are *)
(* placed as their requests ask and preferred pools are not passed over.   *)
(* Where no call ends before XO has made the disk it asked for: a name has *)
(* one disk, and the answers are true of it.                               *)
(*                                                                         *)
(* Good says what is right of the locals of a call; it does not mention XO *)
(* and so no step of anyone else can spoil it.  Noticed relates the ghost  *)
(* of a call that chooses to the SRs as they are.  Waits says how calls,   *)
(* disks and answers fit together while no disk is abandoned.              *)
(***************************************************************************)
EXTENDS Provisioning, FunctionTheorems, FiniteSetTheorems, SequenceTheorems,
  TLAPS

Choosing == {"getPool", "getSR"}
Chosen == {"localSRs", "find", "create", "created"}
Placed == {"find", "create", "created"}

Segments(r) == r.preferred \o r.requisite
PoolsOf(r) == {p \in ToSet(Segments(r)) : HasPool(p)}

\* The candidates left come in the order of the segments, and those that are not
\* left were not usable.
Ranked(k) ==
  k.req.poolId = None /\ PoolsOf(k.req) # {} =>
    /\ PoolsOf(k.req) \subseteq k.down \cup ToSet(k.order)
    /\ \A i, j \in DOMAIN k.order : i < j => Before(Segments(k.req), k.order[i], k.order[j])

Good(k) ==
  /\ k \in CallRecord
  /\ k.pc # "idle" => k.req \in Requests
  /\ k.pc = "tagged" => k.req.poolId = None /\ PoolsOf(k.req) = {}
  /\ k.pc \in Choosing \cup Chosen =>
       /\ k.order # <<>> /\ Ranked(k)
       /\ NamesPools(k.req) => ToSet(k.order) \subseteq Allowed(k.req)
  /\ k.pc \in Chosen => k.sr \in SRs /\ k.pool = Head(k.order) /\ PoolOf[k.sr] = k.pool
  /\ k.pc \in Placed /\ k.req.local => k.sr \in LocalSRs
  /\ k.pc = "created" => k.vdi \in Vdis
  /\ k.pool # None => k.pc \in Chosen

CallsGood == call \in [Calls -> CallRecord] /\ \A c \in Calls : Good(call[c])

Inv == TypeOK /\ CallsGood /\ PlacedAsAsked

\* A call that chooses has missed no pool that is not usable now.
Looking == {"tagged"} \cup Choosing
Unusable == {p \in Pools : ~Viable(p)}
Noticed == \A c \in Calls : call[c].pc \in Looking => Unusable \subseteq call[c].down

ChoiceInv == Inv /\ Noticed

-----------------------------------------------------------------------------
(* What it adds that each call waits for the disk it has asked for. *)

\* The calls are about different names, none of which has been answered.
OneCallPerName ==
  \A c, e \in Calls : ~At(c, "idle") /\ ~At(e, "idle") /\ c # e =>
    call[c].req.name # call[e].req.name
Unanswered == \A c \in Calls : ~At(c, "idle") => pv[call[c].req.name] = None

\* A disk that XO is making has a call that waits for it, and knows it.
AwaitedByCall ==
  \A d \in Vdis : disk[d].state = "creating" =>
    \E c \in Calls : At(c, "created") /\ call[c].vdi = d
AwaitsOwnDisk ==
  \A c \in Calls : At(c, "created") =>
    LET d == disk[call[c].vdi] IN
    d.state # "unused" /\ d.name = call[c].req.name /\ d.size = call[c].req.size

\* A disk is asked for only where there is none.
NoneYet ==
  \A c \in Calls, d \in Vdis : At(c, "create") /\ disk[d].state # "unused" =>
    disk[d].name # call[c].req.name

Waits == OneCallPerName /\ Unanswered /\ AwaitedByCall /\ AwaitsOwnDisk /\ NoneYet

PatientInv == ChoiceInv /\ Waits /\ OneDiskPerName /\ AnswersTruthful
-----------------------------------------------------------------------------
(* The order of the candidates. *)

\* A sequence has finitely many members.
LEMMA MembersFinite ==
  ASSUME NEW S, NEW s \in Seq(S) PROVE IsFiniteSet(ToSet(s))
<1>1. Len(s) \in Nat /\ DOMAIN s = 1..Len(s) /\ s \in [1..Len(s) -> S]
  BY LenProperties
<1>2. IsFiniteSet(1..Len(s))  BY <1>1, FS_Interval
<1>3. s \in Surjection(1..Len(s), ToSet(s))  BY <1>1 DEF Surjection, ToSet
<1> QED BY <1>2, <1>3, FS_Surjection

\* What is left of an order after its head.
LEMMA TailProperties ==
  ASSUME NEW S, NEW s \in Seq(S), s # <<>>
  PROVE  /\ Tail(s) \in Seq(S) /\ Head(s) = s[1] /\ Head(s) \in ToSet(s)
         /\ ToSet(Tail(s)) \subseteq ToSet(s) /\ ToSet(s) \subseteq {Head(s)} \cup ToSet(Tail(s))
         /\ Len(s) # 1 => Tail(s) # <<>>
         /\ \A i \in DOMAIN Tail(s) : i + 1 \in DOMAIN s /\ Tail(s)[i] = s[i + 1]
<1>1. /\ Len(s) \in Nat \ {0} /\ DOMAIN s = 1..Len(s)
      /\ Tail(s) \in Seq(S) /\ Len(Tail(s)) = Len(s) - 1 /\ DOMAIN Tail(s) = 1..(Len(s) - 1)
  BY LenProperties, EmptySeq, HeadTailProperties
<1>2. \A i \in 1..(Len(s) - 1) : Tail(s)[i] = s[i + 1]  BY <1>1, HeadTailProperties
<1>3. Head(s) = s[1]  BY <1>1
<1>4. Head(s) \in ToSet(s)  BY <1>1, <1>3 DEF ToSet
<1>5. ToSet(Tail(s)) \subseteq ToSet(s)  BY <1>1, <1>2 DEF ToSet
<1>6. ASSUME NEW i \in 1..Len(s), i # 1 PROVE s[i] \in ToSet(Tail(s))
  <2>1. i - 1 \in 1..(Len(s) - 1) /\ (i - 1) + 1 = i  BY <1>1, <1>6
  <2> QED BY <1>1, <1>2, <2>1 DEF ToSet
<1>7. ToSet(s) \subseteq {Head(s)} \cup ToSet(Tail(s))  BY <1>1, <1>3, <1>6 DEF ToSet
<1>8. Len(s) # 1 => Tail(s) # <<>>
  <2>1. Len(<<>>) = 0  BY EmptySeq
  <2>2. ASSUME Tail(s) = <<>> PROVE Len(s) - 1 = 0  BY <1>1, <2>1, <2>2
  <2> QED BY <1>1, <2>2
<1> QED BY <1>1, <1>2, <1>3, <1>4, <1>5, <1>7, <1>8

\* A function from 1 to the size of a finite set is a sequence.
LEMMA OrderIsSeq ==
  ASSUME NEW S, IsFiniteSet(S), NEW f \in [1..Cardinality(S) -> S] PROVE f \in Seq(S)
<1>1. Cardinality(S) \in Nat  BY FS_CardinalityType
<1> QED BY <1>1, SeqDef

\* Of two pools only one can come first.
LEMMA BeforeAsymmetric ==
  ASSUME NEW s, DOMAIN s \subseteq Nat \ {0}, NEW p, NEW q, Before(s, p, q)
  PROVE  ~Before(s, q, p)
BY DEF Before

\* What the segments of a request hold, and where the preferred ones are.
LEMMA SegmentsOf ==
  ASSUME NEW r \in Requests
  PROVE  /\ Segments(r) \in Seq(Pools \cup {None, BadId})
         /\ ToSet(Segments(r)) = ToSet(r.preferred) \cup ToSet(r.requisite)
         /\ DOMAIN r.preferred \subseteq DOMAIN Segments(r)
         /\ \A i \in DOMAIN r.preferred : Segments(r)[i] = r.preferred[i]
<1> DEFINE P == Pools \cup {None, BadId}
           a == r.preferred
           b == r.requisite
           s == a \o b
<1>1. a \in Seq(P) /\ b \in Seq(P)  BY ProvisioningAssumption DEF Request
<1>2. /\ Len(a) \in Nat /\ Len(b) \in Nat /\ DOMAIN a = 1..Len(a) /\ DOMAIN b = 1..Len(b)
  BY <1>1, LenProperties
<1>3. /\ s \in Seq(P) /\ Len(s) = Len(a) + Len(b)
      /\ \A i \in 1..(Len(a) + Len(b)) : s[i] = IF i <= Len(a) THEN a[i] ELSE b[i - Len(a)]
  BY <1>1, ConcatProperties
<1>4. DOMAIN s = 1..(Len(a) + Len(b))  BY <1>3, LenProperties
<1> HIDE DEF a, b, s
<1>5. ToSet(s) \subseteq ToSet(a) \cup ToSet(b)
  <2> SUFFICES ASSUME NEW i \in 1..(Len(a) + Len(b)) PROVE s[i] \in ToSet(a) \cup ToSet(b)
    BY <1>4 DEF ToSet
  <2>1. CASE i <= Len(a)  BY <1>2, <1>3, <2>1 DEF ToSet
  <2>2. CASE ~(i <= Len(a))
    <3>1. i - Len(a) \in 1..Len(b)  BY <1>2, <2>2
    <3> QED BY <1>2, <1>3, <2>2, <3>1 DEF ToSet
  <2> QED BY <2>1, <2>2
<1>6. ToSet(a) \subseteq ToSet(s)  BY <1>2, <1>3, <1>4 DEF ToSet
<1>7. ToSet(b) \subseteq ToSet(s)
  <2> SUFFICES ASSUME NEW i \in 1..Len(b) PROVE b[i] \in ToSet(s)
    BY <1>2 DEF ToSet
  <2>1. /\ i + Len(a) \in 1..(Len(a) + Len(b)) /\ ~(i + Len(a) <= Len(a))
        /\ (i + Len(a)) - Len(a) = i
    BY <1>2
  <2>2. s[i + Len(a)] = b[i]  BY <1>3, <2>1
  <2> QED BY <1>4, <2>1, <2>2 DEF ToSet
<1>8. \A i \in DOMAIN a : i \in DOMAIN s /\ s[i] = a[i]  BY <1>2, <1>3, <1>4
<1>9. Segments(r) = s /\ a = r.preferred /\ b = r.requisite  BY DEF s, a, b, Segments
<1> QED BY <1>3, <1>5, <1>6, <1>7, <1>8, <1>9

\* Each order of the candidates is a sequence of the pools that the segments name,
\* all of them, first come first.
LEMMA OrderOfRequest ==
  ASSUME NEW r \in Requests, BadId \notin ToSet(Segments(r)), NEW order \in OrderedPoolIDs(r)
  PROVE  /\ order \in Seq(Pools) /\ ToSet(order) = PoolsOf(r)
         /\ \A i, j \in DOMAIN order : i < j => Before(Segments(r), order[i], order[j])
<1>1. /\ order \in [1..Cardinality(PoolsOf(r)) -> PoolsOf(r)] /\ ToSet(order) = PoolsOf(r)
      /\ \A i, j \in DOMAIN order : i < j => Before(Segments(r), order[i], order[j])
  BY DEF OrderedPoolIDs, Uniq, PoolsOf, Segments
<1>2. Segments(r) \in Seq(Pools \cup {None, BadId})  BY SegmentsOf
<1>3. IsFiniteSet(ToSet(Segments(r)))  BY <1>2, MembersFinite
<1>4. IsFiniteSet(PoolsOf(r))
  <2>1. PoolsOf(r) \in SUBSET ToSet(Segments(r))  BY DEF PoolsOf
  <2> QED BY <1>3, <2>1, FS_Subset
<1>5. order \in Seq(PoolsOf(r))  BY <1>1, <1>4, OrderIsSeq
<1>6. PoolsOf(r) \subseteq Pools
  <2>1. ToSet(Segments(r)) \subseteq Pools \cup {None, BadId}
    BY <1>2, LenProperties DEF ToSet
  <2> QED BY <2>1 DEF PoolsOf, HasPool
<1>7. order \in Seq(Pools)  BY <1>5, <1>6, SeqMonotonic
<1> QED BY <1>1, <1>7

\* Each order of the tagged pools is a sequence of pools.
LEMMA OrderOfTagged ==
  ASSUME NEW order \in SetToSeqs(Tagged)
  PROVE  order \in Seq(Pools)
<1>1. order \in [1..Cardinality(Tagged) -> Tagged]  BY DEF SetToSeqs
<1>2. order \in Seq(Tagged)  BY <1>1, OrderIsSeq, ProvisioningAssumption
<1>3. order \in Seq(Pools)  BY <1>2, SeqMonotonic, ProvisioningAssumption
<1> QED BY <1>3

-----------------------------------------------------------------------------
(* A call at work. *)

\* A slot without a call is good.
LEMMA IdleGood == Good(Idle)
<1>1. <<>> \in Seq(Pools)  BY EmptySeq
<1> QED BY <1>1 DEF Good, Idle, CallRecord, PC, Choosing, Chosen, Placed

\* The pools that a request without poolId leaves to choose from.
LEMMA AllowedByTopology ==
  ASSUME NEW r \in Requests, r.poolId = None
  PROVE  Allowed(r) = PoolsOf(r) /\ (NamesPools(r) <=> PoolsOf(r) # {})
<1>1. PoolsOf(r) = Named(r)  BY SegmentsOf DEF PoolsOf, HasPool, Named
<1> QED BY <1>1 DEF Allowed, NamesPools

\* A new call has the candidates of its request before it.
LEMMA StartGood ==
  ASSUME NEW r \in Requests, ~Refused(r), NEW down \in SUBSET Pools,
         NEW order \in IF r.poolId # None THEN {<<r.poolId>>} ELSE OrderedPoolIDs(r)
  PROVE  Good([Idle EXCEPT !.req = r, !.order = order,
                           !.pc = IF order = <<>> THEN "tagged" ELSE "getPool", !.down = down])
<1> DEFINE k == [Idle EXCEPT !.req = r, !.order = order,
                             !.pc = IF order = <<>> THEN "tagged" ELSE "getPool", !.down = down]
<1>1. /\ k.req = r /\ k.order = order /\ k.down = down /\ k.pool = None
      /\ k.pc = IF order = <<>> THEN "tagged" ELSE "getPool"
  BY DEF Idle
<1>2. order \in Seq(Pools) => k \in CallRecord  BY <1>1 DEF Idle, CallRecord, PC
<1>3. CASE r.poolId # None
  <2>1. r.poolId \in Pools
    BY <1>3, ProvisioningAssumption DEF Refused, Request
  <2>2. order = <<r.poolId>> /\ order \in Seq(Pools) /\ order # <<>>  BY <1>3, <2>1
  <2>3. ToSet(order) = {r.poolId}  BY <2>2 DEF ToSet
  <2>4. r.poolId \in Allowed(r)  BY <1>3 DEF Refused, InRequisite, Allowed
  <2> QED BY <1>1, <1>2, <1>3, <2>2, <2>3, <2>4 DEF Good, Ranked, Choosing, Chosen, Placed
<1>4. CASE r.poolId = None
  <2>1. BadId \notin ToSet(Segments(r))  BY <1>4 DEF Refused, Segments
  <2>2. /\ order \in Seq(Pools) /\ ToSet(order) = PoolsOf(r)
        /\ \A i, j \in DOMAIN order : i < j => Before(Segments(r), order[i], order[j])
    BY <1>4, <2>1, OrderOfRequest
  <2>3. CASE order = <<>>
    <3>1. ToSet(order) = {}  BY <2>3 DEF ToSet
    <3> QED BY <1>1, <1>2, <1>4, <2>2, <2>3, <3>1 DEF Good, Choosing, Chosen, Placed
  <2>4. CASE order # <<>>
    <3>1. Head(order) \in PoolsOf(r)  BY <2>2, <2>4, TailProperties
    <3>2. ToSet(order) \subseteq Allowed(r)  BY <1>4, <2>2, <3>1, AllowedByTopology
    <3>3. Ranked(k)  BY <1>1, <2>2 DEF Ranked
    <3> QED BY <1>1, <1>2, <2>2, <2>4, <3>2, <3>3 DEF Good, Choosing, Chosen, Placed
  <2> QED BY <2>3, <2>4
<1> QED BY <1>3, <1>4

\* The tagged pools are candidates where the topology names none.
LEMMA TaggedGood ==
  ASSUME NEW k, Good(k), k.pc = "tagged", NEW order \in SetToSeqs(Tagged), order # <<>>
  PROVE  Good([k EXCEPT !.pc = "getPool", !.order = order])
<1> DEFINE n == [k EXCEPT !.pc = "getPool", !.order = order]
<1>1. /\ k \in CallRecord /\ k.req \in Requests /\ k.req.poolId = None
      /\ PoolsOf(k.req) = {} /\ k.pool = None
  BY DEF Good, Chosen
<1>2. order \in Seq(Pools)  BY OrderOfTagged
<1>3. n \in CallRecord /\ n.req = k.req /\ n.order = order /\ n.pc = "getPool" /\ n.pool = None
  BY <1>1, <1>2 DEF CallRecord, PC
<1>4. ~NamesPools(k.req)  BY <1>1, AllowedByTopology
<1> HIDE DEF n
<1>5. Good(n)
  BY <1>1, <1>2, <1>3, <1>4 DEF Good, Ranked, Choosing, Chosen, Placed
<1> QED BY <1>5 DEF n

\* A candidate that is not usable is passed over.
LEMMA NextPoolGood ==
  ASSUME NEW k, Good(k), k.pc \in Choosing, Len(k.order) # 1,
         NEW down \in SUBSET Pools, k.down \subseteq down, Head(k.order) \in down
  PROVE  Good([k EXCEPT !.pc = "getPool", !.down = down, !.order = Tail(k.order)])
<1> DEFINE n == [k EXCEPT !.pc = "getPool", !.down = down, !.order = Tail(k.order)]
<1>1. /\ k \in CallRecord /\ k.req \in Requests /\ k.order \in Seq(Pools) /\ k.order # <<>>
      /\ NamesPools(k.req) => ToSet(k.order) \subseteq Allowed(k.req)
      /\ Ranked(k) /\ k.pool = None
  BY DEF Good, CallRecord, Choosing, Chosen
<1>2. /\ Tail(k.order) \in Seq(Pools) /\ Head(k.order) \in ToSet(k.order)
      /\ ToSet(Tail(k.order)) \subseteq ToSet(k.order)
      /\ ToSet(k.order) \subseteq {Head(k.order)} \cup ToSet(Tail(k.order))
      /\ Tail(k.order) # <<>>
      /\ \A i \in DOMAIN Tail(k.order) :
           i + 1 \in DOMAIN k.order /\ Tail(k.order)[i] = k.order[i + 1]
  BY <1>1, TailProperties
<1>3. k.down \cup {Head(k.order)} \subseteq down  OBVIOUS
<1>4. n \in CallRecord  BY <1>1, <1>2 DEF CallRecord, PC
<1>5. /\ n.req = k.req /\ n.order = Tail(k.order) /\ n.pc = "getPool" /\ n.pool = None
      /\ n.down = down
  BY <1>1 DEF CallRecord
<1>6. DOMAIN Tail(k.order) \subseteq Nat  BY <1>2, LenProperties
<1> HIDE DEF n
<1>7. Ranked(n)
  <2> SUFFICES ASSUME k.req.poolId = None, PoolsOf(k.req) # {}
               PROVE  /\ PoolsOf(k.req) \subseteq n.down \cup ToSet(n.order)
                      /\ \A i, j \in DOMAIN n.order : i < j =>
                           Before(Segments(k.req), n.order[i], n.order[j])
    BY <1>5 DEF Ranked
  <2>1. PoolsOf(k.req) \subseteq n.down \cup ToSet(n.order)
    BY <1>1, <1>2, <1>3, <1>5 DEF Ranked
  <2>2. ASSUME NEW i \in DOMAIN n.order, NEW j \in DOMAIN n.order, i < j
        PROVE  Before(Segments(k.req), n.order[i], n.order[j])
    <3>1. /\ i + 1 \in DOMAIN k.order /\ j + 1 \in DOMAIN k.order /\ i + 1 < j + 1
          /\ n.order[i] = k.order[i + 1] /\ n.order[j] = k.order[j + 1]
      BY <1>2, <1>5, <1>6, <2>2
    <3> QED BY <1>1, <3>1 DEF Ranked
  <2> QED BY <2>1, <2>2
<1>8. Good(n)  BY <1>1, <1>2, <1>4, <1>5, <1>7 DEF Good, Choosing, Chosen, Placed
<1> QED BY <1>8 DEF n

\* The first usable candidate is chosen, with its default SR.
LEMMA ChooseGood ==
  ASSUME NEW k, Good(k), k.pc = "getSR", Viable(Head(k.order))
  PROVE  Good([k EXCEPT !.pool = Head(k.order), !.sr = DefaultSR[Head(k.order)],
                        !.pc = IF k.req.local THEN "localSRs" ELSE "find"])
<1> DEFINE n == [k EXCEPT !.pool = Head(k.order), !.sr = DefaultSR[Head(k.order)],
                          !.pc = IF k.req.local THEN "localSRs" ELSE "find"]
<1>1. /\ k \in CallRecord /\ k.req \in Requests /\ k.order \in Seq(Pools) /\ k.order # <<>>
      /\ Ranked(k)
      /\ NamesPools(k.req) => ToSet(k.order) \subseteq Allowed(k.req)
  BY DEF Good, CallRecord, Choosing, Chosen
<1>2. Head(k.order) \in Pools  BY <1>1, HeadTailProperties
<1>3. /\ DefaultSR[Head(k.order)] \in SRs
      /\ PoolOf[DefaultSR[Head(k.order)]] = Head(k.order)
  BY <1>2, ProvisioningAssumption DEF Viable
<1>4. n \in CallRecord  BY <1>1, <1>2, <1>3 DEF CallRecord, PC
<1>5. /\ n.req = k.req /\ n.order = k.order /\ n.down = k.down /\ n.pool = Head(k.order)
      /\ n.sr = DefaultSR[Head(k.order)] /\ n.pc = IF k.req.local THEN "localSRs" ELSE "find"
  BY <1>1 DEF CallRecord
<1> HIDE DEF n
<1>6. Ranked(n)  BY <1>1, <1>5 DEF Ranked
<1>7. Good(n)  BY <1>1, <1>3, <1>4, <1>5, <1>6 DEF Good, Choosing, Chosen, Placed
<1> QED BY <1>7 DEF n

\* A request for local storage gets a local SR of the chosen pool.
LEMMA LocalGood ==
  ASSUME NEW k, Good(k), k.pc = "localSRs", NEW s \in LocalSRsOf(k.pool)
  PROVE  Good([k EXCEPT !.pc = "find", !.sr = s])
<1> DEFINE n == [k EXCEPT !.pc = "find", !.sr = s]
<1>1. k \in CallRecord /\ s \in LocalSRs /\ s \in SRs /\ PoolOf[s] = k.pool
  BY ProvisioningAssumption DEF Good, LocalSRsOf
<1>2. n \in CallRecord  BY <1>1 DEF CallRecord, PC
<1>3. /\ n.req = k.req /\ n.order = k.order /\ n.down = k.down /\ n.pool = k.pool
      /\ n.sr = s /\ n.pc = "find"
  BY <1>1 DEF CallRecord
<1> HIDE DEF n
<1>4. Ranked(n) <=> Ranked(k)  BY <1>3 DEF Ranked
<1>5. Good(n)  BY <1>1, <1>2, <1>3, <1>4 DEF Good, Choosing, Chosen, Placed
<1> QED BY <1>5 DEF n

\* A call goes on to its next request where it needs no more than it has.
LEMMA GotoGood ==
  ASSUME NEW k, Good(k), NEW pc,
         <<k.pc, pc>> \in {<<"getPool", "getSR">>, <<"find", "create">>}
  PROVE  Good([k EXCEPT !.pc = pc])
<1> DEFINE n == [k EXCEPT !.pc = pc]
<1>1. k \in CallRecord /\ n \in CallRecord  BY DEF Good, CallRecord, PC
<1>2. /\ n.req = k.req /\ n.order = k.order /\ n.down = k.down /\ n.pool = k.pool
      /\ n.sr = k.sr /\ n.pc = pc
  BY <1>1 DEF CallRecord
<1> HIDE DEF n
<1>3. Ranked(n) <=> Ranked(k)  BY <1>2 DEF Ranked
<1>4. Good(n)  BY <1>1, <1>2, <1>3 DEF Good, Choosing, Chosen, Placed
<1> QED BY <1>4 DEF n

\* The call waits for the disk it has asked for.
LEMMA CreatedGood ==
  ASSUME NEW k, Good(k), k.pc = "create", NEW d \in Vdis
  PROVE  Good([k EXCEPT !.pc = "created", !.vdi = d])
<1> DEFINE n == [k EXCEPT !.pc = "created", !.vdi = d]
<1>1. k \in CallRecord /\ n \in CallRecord  BY DEF Good, CallRecord, PC
<1>2. /\ n.req = k.req /\ n.order = k.order /\ n.down = k.down /\ n.pool = k.pool
      /\ n.sr = k.sr /\ n.pc = "created" /\ n.vdi = d
  BY <1>1 DEF CallRecord
<1> HIDE DEF n
<1>3. Ranked(n) <=> Ranked(k)  BY <1>2 DEF Ranked
<1>4. Good(n)  BY <1>1, <1>2, <1>3 DEF Good, Choosing, Chosen, Placed
<1> QED BY <1>4 DEF n

\* More pools may be seen unusable.
LEMMA DownGood ==
  ASSUME NEW k, Good(k), NEW P \in SUBSET Pools
  PROVE  Good([k EXCEPT !.down = @ \cup P])
<1> DEFINE n == [k EXCEPT !.down = @ \cup P]
<1>1. k \in CallRecord /\ n \in CallRecord  BY DEF Good, CallRecord
<1>2. /\ n.req = k.req /\ n.order = k.order /\ k.down \subseteq n.down /\ n.pool = k.pool
      /\ n.sr = k.sr /\ n.pc = k.pc /\ n.vdi = k.vdi
  BY <1>1 DEF CallRecord
<1> HIDE DEF n
<1>3. Ranked(k) => Ranked(n)  BY <1>2 DEF Ranked
<1>4. Good(n)  BY <1>1, <1>2, <1>3 DEF Good
<1> QED BY <1>4 DEF n

-----------------------------------------------------------------------------
(* The steps, whatever goes wrong. *)

\* One call steps to a good record, the others stay.
LEMMA OneCall ==
  ASSUME CallsGood, NEW c \in Calls, NEW k, Good(k), call' = [call EXCEPT ![c] = k]
  PROVE  CallsGood'
BY DEF CallsGood, Good

\* The handler returns an error.
LEMMA RejectStep ==
  ASSUME CallsGood, NEW c \in Calls, Reject(c) PROVE CallsGood'
BY IdleGood, OneCall DEF Reject

\* The handler answers OK, with a disk and what it has chosen itself.
LEMMA SucceedStep ==
  ASSUME TypeOK, CallsGood, NEW c \in Calls, call[c].pc \in Placed, NEW d \in Vdis, Succeed(c, d)
  PROVE  CallsGood' /\ pv' \in [Names -> Volume \cup {None}]
<1>1. CallsGood'  BY RejectStep DEF Succeed
<1>2. /\ call[c] \in CallRecord /\ call[c].req \in Requests /\ call[c].sr \in SRs
      /\ PoolOf[call[c].sr] = call[c].pool
  BY DEF CallsGood, Good, Placed, Chosen
<1>3. call[c].pool \in Pools /\ call[c].req.size \in Nat
  BY <1>2, ProvisioningAssumption DEF Request
<1>4. [id |-> d, size |-> call[c].req.size, pool |-> call[c].pool, sr |-> call[c].sr] \in Volume
  BY <1>2, <1>3 DEF Volume
<1> QED BY <1>1, <1>4 DEF Succeed, TypeOK

\* A candidate is passed over.
LEMMA NextPoolStep ==
  ASSUME CallsGood, NEW c \in Calls, call[c].pc \in Choosing, NEW down \in SUBSET Pools,
         call[c].down \subseteq down, Head(call[c].order) \in down, NextPool(c, down)
  PROVE  CallsGood'
<1> DEFINE k == call[c]
<1>1. Good(k)  BY DEF CallsGood
<1>2. CASE Len(k.order) = 1  BY <1>2, RejectStep DEF NextPool
<1>3. CASE Len(k.order) # 1
  <2> DEFINE n == [k EXCEPT !.pc = "getPool", !.down = down, !.order = Tail(k.order)]
  <2>1. Good(n)  BY <1>1, <1>3, NextPoolGood
  <2>2. call' = [call EXCEPT ![c] = n]  BY <1>3 DEF NextPool
  <2> QED BY <2>1, <2>2, OneCall
<1> QED BY <1>2, <1>3

\* One that is known to be unusable is, and so is one about which XO is silent.
LEMMA PassOverStep ==
  ASSUME ChoiceInv, NEW c \in Calls, call[c].pc \in Choosing,
         \/ NextPool(c, call[c].down) /\ ~Viable(Head(call[c].order))
         \/ Unanswering(c)
  PROVE  CallsGood'
<1> DEFINE k == call[c]
           p == Head(k.order)
<1>1. CallsGood /\ k \in CallRecord /\ k.order \in Seq(Pools) /\ k.order # <<>>
  BY DEF ChoiceInv, Inv, CallsGood, Good, CallRecord
<1>2. p \in Pools /\ k.down \in SUBSET Pools
  BY <1>1, HeadTailProperties DEF CallRecord
<1>3. CASE NextPool(c, k.down) /\ ~Viable(p)
  <2>1. p \in k.down  BY <1>2, <1>3 DEF ChoiceInv, Noticed, Looking, Unusable
  <2> QED BY <1>1, <1>2, <1>3, <2>1, NextPoolStep
<1>4. CASE Unanswering(c)
  <2> DEFINE down == k.down \cup {p}
  <2>1. NextPool(c, down)  BY <1>4 DEF Unanswering
  <2>2. down \in SUBSET Pools /\ k.down \subseteq down /\ p \in down  BY <1>2
  <2> HIDE DEF down
  <2> QED BY <1>1, <2>1, <2>2, NextPoolStep
<1> QED BY <1>3, <1>4

\* A step that leaves the disks and the answers alone.
LEMMA QuietStep ==
  ASSUME Inv, CallsGood', UNCHANGED <<disk, pv>>, maint' \subseteq SRs PROVE Inv'
BY DEF Inv, TypeOK, CallsGood, PlacedAsAsked

\* So does every step that only reads.
LEMMA ReadStep ==
  ASSUME Inv, CallsGood', UNCHANGED <<disk, maint, pv>> PROVE Inv'
BY QuietStep DEF Inv, TypeOK

\* The CO asks for a volume.
LEMMA StartInv ==
  ASSUME Inv, NEW c \in Calls, NEW r \in Requests, StartCreate(c, r) PROVE Inv'
<1> DEFINE down == {p \in Pools : ~Viable(p)}
<1>1. PICK order \in IF r.poolId # None THEN {<<r.poolId>>} ELSE OrderedPoolIDs(r) :
        call' = [call EXCEPT ![c] = [Idle EXCEPT !.req = r, !.order = order,
                   !.pc = IF order = <<>> THEN "tagged" ELSE "getPool", !.down = down]]
  BY DEF StartCreate
<1>2. ~Refused(r) /\ down \in SUBSET Pools  BY DEF StartCreate
<1> HIDE DEF down
<1>3. Good([Idle EXCEPT !.req = r, !.order = order,
              !.pc = IF order = <<>> THEN "tagged" ELSE "getPool", !.down = down])
  BY <1>1, <1>2, StartGood
<1>4. CallsGood'  BY <1>1, <1>3, OneCall DEF Inv
<1> QED BY <1>4, ReadStep DEF StartCreate

\* A call without topology takes the tagged pools.
LEMMA TaggedInv ==
  ASSUME Inv, NEW c \in Calls, TaggedPoolIDs(c) PROVE Inv'
<1>1. PICK order \in SetToSeqs(Tagged) :
        IF order = <<>> THEN Reject(c)
        ELSE call' = [call EXCEPT ![c] = [call[c] EXCEPT !.pc = "getPool", !.order = order]]
  BY DEF TaggedPoolIDs
<1>2. CASE order = <<>>  BY <1>1, <1>2, RejectStep, ReadStep DEF Inv, TaggedPoolIDs
<1>3. CASE order # <<>>
  <2>1. Good(call[c]) /\ call[c].pc = "tagged"  BY DEF Inv, CallsGood, TaggedPoolIDs, At
  <2>2. Good([call[c] EXCEPT !.pc = "getPool", !.order = order])  BY <1>3, <2>1, TaggedGood
  <2>3. CallsGood'  BY <1>1, <1>3, <2>2, OneCall DEF Inv
  <2> QED BY <2>3, ReadStep DEF TaggedPoolIDs
<1> QED BY <1>2, <1>3

\* A call reads a pool, or passes it over.
LEMMA GetPoolInv ==
  ASSUME ChoiceInv, NEW c \in Calls, GetPool(c) PROVE Inv'
<1>1. Inv /\ Good(call[c]) /\ call[c].pc = "getPool" /\ CallsGood
  BY DEF ChoiceInv, Inv, CallsGood, GetPool, At
<1>2. CASE \/ NextPool(c, call[c].down) /\ DefaultSR[Head(call[c].order)] = None
           \/ Unanswering(c)
  <2>1. CallsGood'  BY <1>1, <1>2, PassOverStep DEF Choosing, Viable
  <2> QED BY <1>1, <2>1, ReadStep DEF GetPool
<1>3. CASE Goto(c, "getSR")
  <2>1. Good([call[c] EXCEPT !.pc = "getSR"])  BY <1>1, GotoGood
  <2>2. CallsGood'  BY <1>1, <1>3, <2>1, OneCall DEF Goto
  <2> QED BY <1>1, <2>2, ReadStep DEF GetPool
<1> QED BY <1>2, <1>3 DEF GetPool

\* A call reads the default SR of a pool, or passes the pool over.
LEMMA GetSRInv ==
  ASSUME ChoiceInv, NEW c \in Calls, GetSR(c) PROVE Inv'
<1> DEFINE k == call[c]
           p == Head(k.order)
           n == [k EXCEPT !.pool = p, !.sr = DefaultSR[p],
                          !.pc = IF k.req.local THEN "localSRs" ELSE "find"]
<1>1. Inv /\ Good(k) /\ k.pc = "getSR" /\ CallsGood
  BY DEF ChoiceInv, Inv, CallsGood, GetSR, At
<1>2. CASE \/ NextPool(c, k.down) /\ ~Viable(p)
           \/ Unanswering(c)
  BY <1>1, <1>2, PassOverStep, ReadStep DEF GetSR, Choosing
<1>3. CASE Viable(p) /\ call' = [call EXCEPT ![c] = n]
  <2>1. Good(n)  BY <1>1, <1>3, ChooseGood
  <2>2. CallsGood'  BY <1>1, <1>3, <2>1, OneCall
  <2> QED BY <1>1, <2>2, ReadStep DEF GetSR
<1> QED BY <1>2, <1>3 DEF GetSR

\* A call takes a local SR of its pool.
LEMMA LocalInv ==
  ASSUME Inv, NEW c \in Calls, FindLocalSRsForPool(c) PROVE Inv'
<1>1. Good(call[c]) /\ call[c].pc = "localSRs" /\ CallsGood
  BY DEF Inv, CallsGood, FindLocalSRsForPool, At
<1>2. CASE Reject(c)  BY <1>1, <1>2, RejectStep, ReadStep DEF FindLocalSRsForPool
<1>3. ASSUME NEW s \in LocalSRsOf(call[c].pool),
             call' = [call EXCEPT ![c] = [call[c] EXCEPT !.pc = "find", !.sr = s]]
      PROVE  Inv'
  <2>1. Good([call[c] EXCEPT !.pc = "find", !.sr = s])  BY <1>1, LocalGood
  <2>2. CallsGood'  BY <1>1, <1>3, <2>1, OneCall
  <2> QED BY <2>2, ReadStep DEF FindLocalSRsForPool
<1> QED BY <1>2, <1>3 DEF FindLocalSRsForPool

\* A call answers with a disk that is there.
LEMMA AnswerInv ==
  ASSUME Inv, NEW c \in Calls, call[c].pc \in Placed, NEW d \in Vdis, Succeed(c, d),
         UNCHANGED <<disk, maint>>
  PROVE  Inv'
<1>1. CallsGood' /\ pv' \in [Names -> Volume \cup {None}]  BY SucceedStep DEF Inv
<1> QED BY <1>1 DEF Inv, TypeOK, CallsGood, PlacedAsAsked

\* A call looks for a disk of that name.
LEMMA FindInv ==
  ASSUME Inv, NEW c \in Calls, FindVDIByVolumeName(c) PROVE Inv'
<1>1. Good(call[c]) /\ call[c].pc = "find" /\ CallsGood
  BY DEF Inv, CallsGood, FindVDIByVolumeName, At
<1>2. CASE Goto(c, "create") /\ UNCHANGED pv
  <2>1. Good([call[c] EXCEPT !.pc = "create"])  BY <1>1, GotoGood
  <2>2. CallsGood'  BY <1>1, <1>2, <2>1, OneCall DEF Goto
  <2> QED BY <1>2, <2>2, ReadStep DEF FindVDIByVolumeName
<1>3. ASSUME NEW d \in Vdis, Succeed(c, d) PROVE Inv'
  BY <1>1, <1>3, AnswerInv DEF FindVDIByVolumeName, Placed
<1>4. CASE Reject(c) /\ UNCHANGED pv
  BY <1>1, <1>4, RejectStep, ReadStep DEF FindVDIByVolumeName
<1> QED BY <1>2, <1>3, <1>4 DEF FindVDIByVolumeName

\* A new disk is made where the call has chosen.
LEMMA CreateInv ==
  ASSUME Inv, NEW c \in Calls, CreateVDI(c) PROVE Inv'
<1> DEFINE k == call[c]
           D == [state |-> "creating", sr |-> k.sr, name |-> k.req.name, size |-> k.req.size,
                 for |-> k.req]
<1>1. Good(k) /\ k.pc = "create" /\ CallsGood  BY DEF Inv, CallsGood, CreateVDI, At
<1>2. PICK d \in Vdis :
        /\ disk' = [disk EXCEPT ![d] = D]
        /\ call' = [call EXCEPT ![c] = [k EXCEPT !.pc = "created", !.vdi = d]]
  BY DEF CreateVDI
<1>3. CallsGood'  BY <1>1, <1>2, CreatedGood, OneCall
<1>4. /\ k \in CallRecord /\ k.req \in Requests /\ k.sr \in SRs /\ k.order \in Seq(Pools)
      /\ PoolOf[k.sr] = Head(k.order) /\ k.order # <<>>
      /\ NamesPools(k.req) => ToSet(k.order) \subseteq Allowed(k.req)
      /\ k.req.local => k.sr \in LocalSRs
  BY <1>1 DEF Good, CallRecord, Chosen, Placed
<1>5. k.req.name \in Names /\ k.req.size \in Nat  BY <1>4, ProvisioningAssumption DEF Request
<1>6. D \in DiskRecord  BY <1>4, <1>5 DEF DiskRecord
<1>7. NamesPools(k.req) => PoolOf[k.sr] \in Allowed(k.req)
  <2>1. Head(k.order) \in ToSet(k.order)  BY <1>4, TailProperties
  <2> QED BY <1>4, <2>1
<1>8. TypeOK'  BY <1>2, <1>3, <1>6 DEF Inv, TypeOK, CallsGood, CreateVDI
<1>9. PlacedAsAsked'
  <2> SUFFICES ASSUME NEW e \in Vdis, disk'[e].state # "unused"
               PROVE  /\ NamesPools(disk'[e].for) =>
                           PoolOf[disk'[e].sr] \in Allowed(disk'[e].for)
                      /\ disk'[e].for.local => disk'[e].sr \in LocalSRs
    BY DEF PlacedAsAsked
  <2>1. CASE e = d
    <3>1. disk'[e] = D  BY <1>2, <2>1 DEF Inv, TypeOK
    <3>2. disk'[e].sr = k.sr /\ disk'[e].for = k.req  BY <3>1
    <3> QED BY <1>4, <1>7, <3>2
  <2>2. CASE e # d
    <3>1. disk'[e] = disk[e]  BY <1>2, <2>2 DEF Inv, TypeOK
    <3> QED BY <3>1 DEF Inv, PlacedAsAsked
  <2> QED BY <2>1, <2>2
<1> QED BY <1>3, <1>8, <1>9 DEF Inv

\* XO has made a disk.
LEMMA VDICreatedInv ==
  ASSUME Inv, NEW d \in Vdis, VDICreated(d) PROVE Inv'
<1>1. disk' \in [Vdis -> DiskRecord]  BY DEF VDICreated, Inv, TypeOK, DiskRecord
<1>2. \A e \in Vdis : /\ disk'[e].sr = disk[e].sr /\ disk'[e].for = disk[e].for
                      /\ disk'[e].state # "unused" <=> disk[e].state # "unused"
  BY DEF VDICreated, Inv, TypeOK, DiskRecord
<1>3. CallsGood' /\ TypeOK'  BY <1>1 DEF VDICreated, Inv, TypeOK, CallsGood
<1>4. PlacedAsAsked'  BY <1>2 DEF Inv, PlacedAsAsked
<1> QED BY <1>3, <1>4 DEF Inv

\* A call answers with the disk it has made.
LEMMA AnswerCreatedInv ==
  ASSUME Inv, NEW c \in Calls, AnswerCreated(c) PROVE Inv'
<1>1. call[c].pc \in Placed /\ call[c].vdi \in Vdis
  BY DEF Inv, CallsGood, Good, AnswerCreated, At, Placed
<1> QED BY <1>1, AnswerInv DEF AnswerCreated

\* A call is cut short.
LEMMA InterruptedInv ==
  ASSUME Inv, NEW c \in Calls, Interrupted(c) PROVE Inv'
BY RejectStep, ReadStep DEF Inv, Interrupted

\* An SR goes into maintenance, or comes back.
LEMMA MaintenanceInv ==
  ASSUME Inv, NEW s \in SRs, SetMaintenance(s) PROVE Inv'
<1> DEFINE P == {p \in Pools : DefaultSR[p] = s}
           n(c) == IF s \notin maint /\ call[c].pc \in {"tagged", "getPool", "getSR"}
                   THEN [call[c] EXCEPT !.down = @ \cup P] ELSE call[c]
<1>1. call' = [c \in Calls |-> n(c)]  BY DEF SetMaintenance
<1>2. ASSUME NEW c \in Calls PROVE Good(n(c))
  <2>1. Good(call[c])  BY DEF Inv, CallsGood
  <2> QED BY <2>1, DownGood
<1> HIDE DEF n
<1>3. CallsGood'  BY <1>1, <1>2 DEF CallsGood, Good
<1>4. maint' \subseteq SRs  BY DEF SetMaintenance, Inv, TypeOK
<1> QED BY <1>3, <1>4, QuietStep DEF SetMaintenance

-----------------------------------------------------------------------------
(* What a call that chooses knows of the SRs. *)

\* One call steps, and XO stays as it is: what the call goes on to choose by is no
\* less than it has noticed.
LEMMA NoticedStep ==
  ASSUME ChoiceInv, NEW c \in Calls, NEW k, call' = [call EXCEPT ![c] = k], UNCHANGED maint,
         k.pc \in Looking => call[c].pc \in Looking /\ call[c].down \subseteq k.down
  PROVE  Noticed'
<1>1. /\ call'[c] = k /\ Unusable' = Unusable
      /\ \A e \in Calls : e # c => call'[e] = call[e]
  BY DEF ChoiceInv, Inv, CallsGood, Unusable, Viable
<1>2. k.pc \in Looking => Unusable \subseteq k.down  BY DEF ChoiceInv, Noticed
<1> QED BY <1>1, <1>2 DEF ChoiceInv, Noticed

\* A call that ends chooses no more.
LEMMA NoticedReject ==
  ASSUME ChoiceInv, NEW c \in Calls, Reject(c), UNCHANGED maint PROVE Noticed'
<1>1. Idle.pc \notin Looking  BY DEF Idle, Looking, Choosing
<1> QED BY <1>1, NoticedStep DEF Reject

\* A candidate that is passed over leaves what was noticed.
LEMMA NoticedNextPool ==
  ASSUME ChoiceInv, NEW c \in Calls, call[c].pc \in Looking, NEW down,
         call[c].down \subseteq down, NextPool(c, down), UNCHANGED maint
  PROVE  Noticed'
<1> DEFINE k == call[c]
           n == [k EXCEPT !.pc = "getPool", !.down = down, !.order = Tail(k.order)]
<1>1. n.down = down  BY DEF ChoiceInv, Inv, CallsGood, CallRecord
<1>2. CASE Len(k.order) = 1  BY <1>2, NoticedReject DEF NextPool
<1>3. CASE Len(k.order) # 1
  <2>1. call' = [call EXCEPT ![c] = n]  BY <1>3 DEF NextPool
  <2> QED BY <1>1, <2>1, NoticedStep
<1> QED BY <1>2, <1>3

\* A call begins with what is unusable by then.
LEMMA NoticedStart ==
  ASSUME ChoiceInv, NEW c \in Calls, NEW r \in Requests, StartCreate(c, r) PROVE Noticed'
<1>1. PICK order \in IF r.poolId # None THEN {<<r.poolId>>} ELSE OrderedPoolIDs(r) :
        call' = [call EXCEPT ![c] = [Idle EXCEPT !.req = r, !.order = order,
                   !.pc = IF order = <<>> THEN "tagged" ELSE "getPool", !.down = Unusable]]
  BY DEF StartCreate, Unusable
<1>2. UNCHANGED maint  BY DEF StartCreate
<1>3. /\ call'[c].down = Unusable /\ Unusable' = Unusable
      /\ \A e \in Calls : e # c => call'[e] = call[e]
  BY <1>1, <1>2 DEF ChoiceInv, Inv, CallsGood, Unusable, Viable, Idle
<1> QED BY <1>3 DEF ChoiceInv, Noticed

\* A pool that becomes unusable is noticed by everyone who chooses.
LEMMA NoticedMaintenance ==
  ASSUME ChoiceInv, NEW s \in SRs, SetMaintenance(s) PROVE Noticed'
<1> DEFINE P == {p \in Pools : DefaultSR[p] = s}
<1>1. maint' = IF s \in maint THEN maint \ {s} ELSE maint \cup {s}  BY DEF SetMaintenance
<1>2. \A c \in Calls :
        call'[c] = IF s \notin maint /\ call[c].pc \in {"tagged", "getPool", "getSR"}
                   THEN [call[c] EXCEPT !.down = @ \cup P] ELSE call[c]
  BY DEF SetMaintenance
<1> SUFFICES ASSUME NEW c \in Calls, call'[c].pc \in Looking
             PROVE  Unusable' \subseteq call'[c].down
  BY DEF Noticed
<1>3. call[c] \in CallRecord  BY DEF ChoiceInv, Inv, CallsGood
<1>4. CASE s \in maint
  <2>1. Unusable' \subseteq Unusable  BY <1>1, <1>4 DEF Unusable, Viable
  <2> QED BY <1>2, <1>4, <2>1 DEF ChoiceInv, Noticed
<1>5. CASE s \notin maint
  <2>1. Unusable' \subseteq Unusable \cup P  BY <1>1, <1>5 DEF Unusable, Viable
  <2>2. call[c].pc \in Looking  BY <1>2, <1>3 DEF CallRecord
  <2>3. call'[c].down = call[c].down \cup P
    BY <1>2, <1>3, <1>5, <2>2 DEF CallRecord, Looking, Choosing
  <2> QED BY <2>1, <2>2, <2>3 DEF ChoiceInv, Noticed
<1> QED BY <1>4, <1>5

\* The steps of a call that chooses.
LEMMA NoticedChoosing ==
  ASSUME ChoiceInv, NEW c \in Calls, TaggedPoolIDs(c) \/ GetPool(c) \/ GetSR(c) PROVE Noticed'
<1> DEFINE k == call[c]
<1>1. /\ k \in CallRecord /\ k.pc \in Looking /\ UNCHANGED maint
  BY DEF TaggedPoolIDs, GetPool, GetSR, At, Looking, Choosing, ChoiceInv, Inv, CallsGood
<1>2. CASE NextPool(c, k.down)  BY <1>1, <1>2, NoticedNextPool
<1>3. CASE Unanswering(c)
  BY <1>1, <1>3, NoticedNextPool DEF Unanswering
<1>4. CASE TaggedPoolIDs(c)
  <2>1. PICK order \in SetToSeqs(Tagged) :
          IF order = <<>> THEN Reject(c)
          ELSE call' = [call EXCEPT ![c] = [k EXCEPT !.pc = "getPool", !.order = order]]
    BY <1>4 DEF TaggedPoolIDs
  <2>2. CASE order = <<>>  BY <1>1, <2>1, <2>2, NoticedReject
  <2>3. CASE order # <<>>
    <3> DEFINE n == [k EXCEPT !.pc = "getPool", !.order = order]
    <3>1. n.down = k.down  BY <1>1 DEF CallRecord
    <3> QED BY <1>1, <2>1, <2>3, <3>1, NoticedStep
  <2> QED BY <2>2, <2>3
<1>5. CASE Goto(c, "getSR")
  <2> DEFINE n == [k EXCEPT !.pc = "getSR"]
  <2>1. n.down = k.down  BY <1>1 DEF CallRecord
  <2>2. call' = [call EXCEPT ![c] = n]  BY <1>5 DEF Goto
  <2> QED BY <1>1, <2>1, <2>2, NoticedStep
<1>6. CASE GetSR(c)
  <2> DEFINE p == Head(k.order)
             n == [k EXCEPT !.pool = p, !.sr = DefaultSR[p],
                            !.pc = IF k.req.local THEN "localSRs" ELSE "find"]
  <2>1. CASE call' = [call EXCEPT ![c] = n]
    <3>1. n.down = k.down  BY <1>1 DEF CallRecord
    <3> QED BY <1>1, <2>1, <3>1, NoticedStep
  <2> QED BY <1>2, <1>3, <1>6, <2>1 DEF GetSR
<1> QED BY <1>2, <1>3, <1>4, <1>5, <1>6 DEF GetPool

\* Nothing else makes a call choose, or an SR unusable.
LEMMA NoticedLater ==
  ASSUME ChoiceInv, NEW c \in Calls,
         \/ FindLocalSRsForPool(c) \/ FindVDIByVolumeName(c) \/ CreateVDI(c)
         \/ AnswerCreated(c) \/ Interrupted(c)
  PROVE  Noticed'
<1> DEFINE k == call[c]
<1>1. k \in CallRecord /\ UNCHANGED maint
  BY DEF FindLocalSRsForPool, FindVDIByVolumeName, CreateVDI, AnswerCreated, Interrupted,
    ChoiceInv, Inv, CallsGood
<1>2. CASE Reject(c)  BY <1>1, <1>2, NoticedReject
<1>3. ASSUME NEW n, call' = [call EXCEPT ![c] = n], n.pc \in Placed PROVE Noticed'
  <2>1. n.pc \notin Looking  BY <1>3 DEF Placed, Looking, Choosing
  <2> QED BY <1>1, <1>3, <2>1, NoticedStep
<1>4. CASE FindLocalSRsForPool(c)
  <2>1. ASSUME NEW s, call' = [call EXCEPT ![c] = [k EXCEPT !.pc = "find", !.sr = s]]
        PROVE  Noticed'
    <3> DEFINE n == [k EXCEPT !.pc = "find", !.sr = s]
    <3>1. n.pc \in Placed  BY <1>1 DEF CallRecord, Placed
    <3> QED BY <1>3, <2>1, <3>1
  <2> QED BY <1>2, <1>4, <2>1 DEF FindLocalSRsForPool
<1>5. CASE FindVDIByVolumeName(c)
  <2>1. CASE Goto(c, "create")
    <3> DEFINE n == [k EXCEPT !.pc = "create"]
    <3>1. n.pc \in Placed  BY <1>1 DEF CallRecord, Placed
    <3>2. call' = [call EXCEPT ![c] = n]  BY <2>1 DEF Goto
    <3> QED BY <1>3, <3>1, <3>2
  <2> QED BY <1>2, <1>5, <2>1 DEF FindVDIByVolumeName, Succeed
<1>6. CASE CreateVDI(c)
  <2>1. PICK d \in Vdis : call' = [call EXCEPT ![c] = [k EXCEPT !.pc = "created", !.vdi = d]]
    BY <1>6 DEF CreateVDI
  <2> DEFINE n == [k EXCEPT !.pc = "created", !.vdi = d]
  <2>2. n.pc \in Placed  BY <1>1 DEF CallRecord, Placed
  <2> QED BY <1>3, <2>1, <2>2
<1> QED BY <1>2, <1>4, <1>5, <1>6 DEF AnswerCreated, Succeed, Interrupted

-----------------------------------------------------------------------------
(* The invariant of every system, and what follows from it. *)

\* Nothing is made and nobody calls.
LEMMA InitInv == Init => ChoiceInv
<1> SUFFICES ASSUME Init PROVE ChoiceInv  OBVIOUS
<1>1. CallsGood  BY IdleGood DEF Init, CallsGood, Good
<1>2. TypeOK  BY <1>1 DEF Init, TypeOK, CallsGood, UnusedDisk, DiskRecord
<1>3. PlacedAsAsked  BY DEF Init, PlacedAsAsked, UnusedDisk
<1>4. Noticed  BY DEF Init, Noticed, Idle, Looking, Choosing
<1> QED BY <1>1, <1>2, <1>3, <1>4 DEF ChoiceInv, Inv

\* Every step keeps the invariant.
LEMMA NextInv == ChoiceInv /\ [Next]_vars => ChoiceInv'
<1> SUFFICES ASSUME ChoiceInv, [Next]_vars PROVE ChoiceInv'  OBVIOUS
<1>1. Inv  BY DEF ChoiceInv
<1>2. CASE UNCHANGED vars
  <2>1. Inv'  BY <1>1, <1>2 DEF Inv, TypeOK, CallsGood, PlacedAsAsked, vars
  <2>2. Noticed'  BY <1>2 DEF ChoiceInv, Noticed, Unusable, Viable, vars
  <2> QED BY <2>1, <2>2 DEF ChoiceInv
<1>3. CASE Next
  <2>1. Inv'
    BY <1>1, <1>3, StartInv, TaggedInv, GetPoolInv, GetSRInv, LocalInv, FindInv, CreateInv,
       VDICreatedInv, AnswerCreatedInv, InterruptedInv, MaintenanceInv DEF Next
  <2>2. ASSUME NEW d \in Vdis, VDICreated(d) PROVE Noticed'
    BY <2>2 DEF VDICreated, ChoiceInv, Noticed, Unusable, Viable
  <2>3. Noticed'
    BY <1>3, <2>2, NoticedStart, NoticedChoosing, NoticedLater, NoticedMaintenance DEF Next
  <2> QED BY <2>1, <2>3 DEF ChoiceInv
<1> QED BY <1>2, <1>3

\* The inductive invariant.
THEOREM Invariance == Spec => []ChoiceInv
BY InitInv, NextInv, PTL DEF Spec

\* Every variable stays in its type.
THEOREM TypeCorrect == Spec => []TypeOK
<1>1. ChoiceInv => TypeOK  BY DEF ChoiceInv, Inv
<1> QED BY <1>1, Invariance, PTL

\* However the pool, its default SR and its local SRs change between the requests
\* that read them, a disk is made in a pool that its request names, where it names
\* any, and on local storage if that was asked for (controllerserver.go:353-403).
THEOREM DisksArePlacedAsAsked == Spec => []PlacedAsAsked
<1>1. ChoiceInv => PlacedAsAsked  BY DEF ChoiceInv, Inv
<1> QED BY <1>1, Invariance, PTL

\* No preferred pool is passed over that was usable all the time and about which XO
\* gave every answer (topology/pool_selector.go:127-134).
THEOREM PreferredPoolsComeFirst == Spec => []PreferredFirst
<1>1. ChoiceInv => PreferredFirst
  <2> SUFFICES ASSUME Inv, NEW c \in Calls, call[c].pool # None, call[c].req.poolId = None,
                      NEW i \in DOMAIN call[c].req.preferred,
                      \A j \in DOMAIN call[c].req.preferred :
                        call[c].req.preferred[j] = call[c].pool => i < j
               PROVE  call[c].req.preferred[i] \in call[c].down \cup {None}
    BY DEF ChoiceInv, PreferredFirst, ToSet
  <2> DEFINE k == call[c]
             s == Segments(k.req)
             p == k.req.preferred[i]
  <2>1. /\ k \in CallRecord /\ k.req \in Requests /\ k.order # <<>> /\ Ranked(k)
        /\ k.pool = Head(k.order) /\ k.order \in Seq(Pools)
    BY DEF Inv, CallsGood, Good, CallRecord, Chosen
  <2>2. /\ s \in Seq(Pools \cup {None, BadId}) /\ i \in DOMAIN s /\ s[i] = p
        /\ DOMAIN s = 1..Len(s) /\ Len(s) \in Nat
        /\ k.req.preferred \in Seq(Pools \cup {None, BadId})
    BY <2>1, SegmentsOf, LenProperties, ProvisioningAssumption DEF Request
  <2>3. ASSUME p # None, p \notin k.down PROVE FALSE
    <3>1. p \in PoolsOf(k.req)  BY <2>2, <2>3 DEF PoolsOf, ToSet, HasPool
    <3>2. p \in ToSet(k.order)  BY <2>1, <2>3, <3>1 DEF Ranked
    <3>3. PICK j \in DOMAIN k.order : k.order[j] = p  BY <3>2 DEF ToSet
    <3>4. \A e \in 1..i : s[e] # k.pool
      <4>1. DOMAIN k.req.preferred = 1..Len(k.req.preferred) /\ Len(k.req.preferred) \in Nat
        BY <2>2, LenProperties
      <4>2. \A e \in DOMAIN k.req.preferred : s[e] = k.req.preferred[e]  BY <2>1, SegmentsOf
      <4> QED BY <4>1, <4>2
    <3>5. Before(s, p, k.pool)  BY <2>2, <3>4 DEF Before
    <3>6. i \in 1..i  BY <2>2
    <3>7. k.order[1] = k.pool /\ 1 \in DOMAIN k.order /\ DOMAIN k.order \subseteq Nat \ {0}
      BY <2>1, TailProperties, LenProperties, EmptySeq
    <3>8. 1 < j  BY <2>2, <3>3, <3>4, <3>6, <3>7
    <3>9. Before(s, k.pool, p)  BY <2>1, <3>1, <3>3, <3>7, <3>8 DEF Ranked
    <3> QED BY <2>2, <3>5, <3>9, BeforeAsymmetric
  <2> QED BY <2>3
<1> QED BY <1>1, Invariance, PTL

-----------------------------------------------------------------------------
(* The steps, where no disk is abandoned. *)

\* A call goes on, with the request it has, to a step before its disk is asked for.
LEMMA MovesPatient ==
  ASSUME PatientInv, NEW c \in Calls, NEW k, call' = [call EXCEPT ![c] = k],
         k.req = call[c].req, call[c].pc \notin {"idle", "created"},
         k.pc \notin {"create", "created"}, UNCHANGED <<disk, pv>>
  PROVE  Waits' /\ OneDiskPerName' /\ AnswersTruthful'
<1>1. call \in [Calls -> CallRecord]  BY DEF PatientInv, ChoiceInv, Inv, CallsGood
<1>2. call'[c] = k /\ \A e \in Calls : e # c => call'[e] = call[e]  BY <1>1
<1>3. \A e \in Calls : /\ call'[e].req = call[e].req
                       /\ call'[e].pc # "idle" => call[e].pc # "idle"
                       /\ call'[e].pc \in {"create", "created"} => call'[e] = call[e]
                       /\ call[e].pc = "created" => call'[e] = call[e]
  BY <1>2
<1>4. OneCallPerName'  BY <1>3 DEF PatientInv, Waits, OneCallPerName, At
<1>5. Unanswered'  BY <1>3 DEF PatientInv, Waits, Unanswered, At
<1>6. AwaitedByCall'  BY <1>3 DEF PatientInv, Waits, AwaitedByCall, At
<1>7. AwaitsOwnDisk'  BY <1>3 DEF PatientInv, Waits, AwaitsOwnDisk, At
<1>8. NoneYet'  BY <1>3 DEF PatientInv, Waits, NoneYet, At
<1>9. OneDiskPerName' /\ AnswersTruthful'
  BY DEF PatientInv, OneDiskPerName, AnswersTruthful
<1> QED BY <1>4, <1>5, <1>6, <1>7, <1>8, <1>9 DEF Waits

\* A call ends with an error, and no disk is left that XO is still making for it.
LEMMA RejectPatient ==
  ASSUME PatientInv, NEW c \in Calls, Reject(c), UNCHANGED <<disk, pv>>,
         At(c, "created") => disk[call[c].vdi].state = "live"
  PROVE  Waits' /\ OneDiskPerName' /\ AnswersTruthful'
<1>1. call \in [Calls -> CallRecord]  BY DEF PatientInv, ChoiceInv, Inv, CallsGood
<1>2. call'[c].pc = "idle" /\ \A e \in Calls : e # c => call'[e] = call[e]
  BY <1>1 DEF Reject, Idle
<1>3. \A e \in Calls : call'[e].pc # "idle" => call'[e] = call[e]  BY <1>2
<1>4. OneCallPerName'  BY <1>3 DEF PatientInv, Waits, OneCallPerName, At
<1>5. Unanswered'  BY <1>3 DEF PatientInv, Waits, Unanswered, At
<1>6. AwaitedByCall'
  <2> SUFFICES ASSUME NEW d \in Vdis, disk[d].state = "creating"
               PROVE  \E e \in Calls : call'[e].pc = "created" /\ call'[e].vdi = d
    BY DEF AwaitedByCall, At
  <2>1. PICK e \in Calls : call[e].pc = "created" /\ call[e].vdi = d
    BY DEF PatientInv, Waits, AwaitedByCall, At
  <2>2. e # c  BY <2>1 DEF At
  <2> QED BY <1>2, <2>1, <2>2
<1>7. AwaitsOwnDisk'  BY <1>3 DEF PatientInv, Waits, AwaitsOwnDisk, At
<1>8. NoneYet'  BY <1>3 DEF PatientInv, Waits, NoneYet, At
<1>9. OneDiskPerName' /\ AnswersTruthful'
  BY DEF PatientInv, OneDiskPerName, AnswersTruthful
<1> QED BY <1>4, <1>5, <1>6, <1>7, <1>8, <1>9 DEF Waits

\* A call ends with an answer that is true.
LEMMA SucceedPatient ==
  ASSUME PatientInv, NEW c \in Calls, ~At(c, "idle"), NEW d \in Vdis, Succeed(c, d),
         UNCHANGED disk, At(c, "created") => call[c].vdi = d,
         disk[d].state = "live", disk[d].name = call[c].req.name,
         disk[d].size = call[c].req.size
  PROVE  Waits' /\ OneDiskPerName' /\ AnswersTruthful'
<1> DEFINE n == call[c].req.name
           a == [id |-> d, size |-> call[c].req.size, pool |-> call[c].pool, sr |-> call[c].sr]
<1>1. call \in [Calls -> CallRecord] /\ pv \in [Names -> Volume \cup {None}]
  BY DEF PatientInv, ChoiceInv, Inv, CallsGood, TypeOK
<1>2. call'[c].pc = "idle" /\ \A e \in Calls : e # c => call'[e] = call[e]
  BY <1>1 DEF Succeed, Reject, Idle
<1>3. \A e \in Calls : call'[e].pc # "idle" => e # c /\ call'[e] = call[e]  BY <1>2
<1>4. \A m \in Names : pv'[m] = IF m = n THEN a ELSE pv[m]  BY <1>1 DEF Succeed
<1>5. OneCallPerName'  BY <1>3 DEF PatientInv, Waits, OneCallPerName, At
<1>6. Unanswered'
  <2> SUFFICES ASSUME NEW e \in Calls, call'[e].pc # "idle"
               PROVE  pv'[call'[e].req.name] = None
    BY DEF Unanswered, At
  <2>1. e # c /\ call'[e] = call[e] /\ call[e].pc # "idle"  BY <1>3
  <2>2. call[e].req.name # n /\ pv[call[e].req.name] = None
    BY <2>1 DEF PatientInv, Waits, OneCallPerName, Unanswered, At
  <2>3. call[e].req.name \in Names
    BY <2>1, ProvisioningAssumption DEF PatientInv, ChoiceInv, Inv, CallsGood, Good, Request
  <2> QED BY <1>4, <2>1, <2>2, <2>3
<1>7. AwaitedByCall'
  <2> SUFFICES ASSUME NEW f \in Vdis, disk[f].state = "creating"
               PROVE  \E e \in Calls : call'[e].pc = "created" /\ call'[e].vdi = f
    BY DEF AwaitedByCall, At
  <2>1. PICK e \in Calls : call[e].pc = "created" /\ call[e].vdi = f
    BY DEF PatientInv, Waits, AwaitedByCall, At
  <2>2. e # c  BY <2>1 DEF At
  <2> QED BY <1>2, <2>1, <2>2
<1>8. AwaitsOwnDisk'  BY <1>3 DEF PatientInv, Waits, AwaitsOwnDisk, At
<1>9. NoneYet'  BY <1>3 DEF PatientInv, Waits, NoneYet, At
<1>10. OneDiskPerName'  BY DEF PatientInv, OneDiskPerName
<1>11. AnswersTruthful'
  <2> SUFFICES ASSUME NEW m \in Names, pv'[m] # None
               PROVE  /\ disk[pv'[m].id].state = "live" /\ disk[pv'[m].id].name = m
                      /\ disk[pv'[m].id].size = pv'[m].size
                      /\ \A f \in Vdis : disk[f].state # "unused" /\ disk[f].name = m =>
                           f = pv'[m].id
    BY DEF AnswersTruthful
  <2>1. CASE m = n
    <3>1. pv'[m].id = d /\ pv'[m].size = call[c].req.size  BY <1>4, <2>1
    <3> QED BY <2>1, <3>1 DEF PatientInv, OneDiskPerName
  <2>2. CASE m # n  BY <1>4, <2>2 DEF PatientInv, AnswersTruthful
  <2> QED BY <2>1, <2>2
<1> QED BY <1>5, <1>6, <1>7, <1>8, <1>9, <1>10, <1>11 DEF Waits

\* The provisioner calls for a name that has neither an answer nor a call.
LEMMA StartPatient ==
  ASSUME PatientInv, NEW c \in Calls, NEW r \in Requests, StartCreate(c, r)
  PROVE  Waits' /\ OneDiskPerName' /\ AnswersTruthful'
<1>1. call \in [Calls -> CallRecord]  BY DEF PatientInv, ChoiceInv, Inv, CallsGood
<1>2. PICK order \in IF r.poolId # None THEN {<<r.poolId>>} ELSE OrderedPoolIDs(r) :
        call' = [call EXCEPT ![c] = [Idle EXCEPT !.req = r, !.order = order,
                   !.pc = IF order = <<>> THEN "tagged" ELSE "getPool",
                   !.down = {p \in Pools : ~Viable(p)}]]
  BY DEF StartCreate
<1>3. /\ call'[c].req = r /\ call'[c].pc \in {"tagged", "getPool"}
      /\ \A e \in Calls : e # c => call'[e] = call[e]
  BY <1>1, <1>2 DEF Idle
<1>4. \A e \in Calls : call'[e].pc \in {"create", "created"} => e # c /\ call'[e] = call[e]
  BY <1>3
<1>5. /\ call[c].pc = "idle" /\ pv[r.name] = None
      /\ \A e \in Calls : call[e].pc # "idle" => call[e].req.name # r.name
      /\ UNCHANGED <<disk, pv>>
  BY DEF StartCreate, At
<1>6. OneCallPerName'  BY <1>3, <1>5 DEF PatientInv, Waits, OneCallPerName, At
<1>7. Unanswered'  BY <1>3, <1>5 DEF PatientInv, Waits, Unanswered, At
<1>8. AwaitedByCall'
  <2> SUFFICES ASSUME NEW f \in Vdis, disk[f].state = "creating"
               PROVE  \E e \in Calls : call'[e].pc = "created" /\ call'[e].vdi = f
    BY <1>5 DEF AwaitedByCall, At
  <2>1. PICK e \in Calls : call[e].pc = "created" /\ call[e].vdi = f
    BY DEF PatientInv, Waits, AwaitedByCall, At
  <2> QED BY <1>3, <1>5, <2>1
<1>9. AwaitsOwnDisk'  BY <1>4, <1>5 DEF PatientInv, Waits, AwaitsOwnDisk, At
<1>10. NoneYet'  BY <1>4, <1>5 DEF PatientInv, Waits, NoneYet, At
<1>11. OneDiskPerName' /\ AnswersTruthful'
  BY <1>5 DEF PatientInv, OneDiskPerName, AnswersTruthful
<1> QED BY <1>6, <1>7, <1>8, <1>9, <1>10, <1>11 DEF Waits

\* An SR goes into maintenance mode or comes back.
LEMMA MaintenancePatient ==
  ASSUME PatientInv, NEW s \in SRs, SetMaintenance(s)
  PROVE  Waits' /\ OneDiskPerName' /\ AnswersTruthful'
<1>1. \A c \in Calls : /\ call'[c].pc = call[c].pc /\ call'[c].req = call[c].req
                       /\ call'[c].vdi = call[c].vdi
  <2>1. call \in [Calls -> CallRecord]  BY DEF PatientInv, ChoiceInv, Inv, CallsGood
  <2> QED BY <2>1 DEF SetMaintenance, CallRecord
<1>2. UNCHANGED <<disk, pv>>  BY DEF SetMaintenance
<1>3. OneCallPerName'  BY <1>1 DEF PatientInv, Waits, OneCallPerName, At
<1>4. Unanswered'  BY <1>1, <1>2 DEF PatientInv, Waits, Unanswered, At
<1>5. AwaitedByCall'  BY <1>1, <1>2 DEF PatientInv, Waits, AwaitedByCall, At
<1>6. AwaitsOwnDisk'  BY <1>1, <1>2 DEF PatientInv, Waits, AwaitsOwnDisk, At
<1>7. NoneYet'  BY <1>1, <1>2 DEF PatientInv, Waits, NoneYet, At
<1>8. OneDiskPerName' /\ AnswersTruthful'
  BY <1>2 DEF PatientInv, OneDiskPerName, AnswersTruthful
<1> QED BY <1>3, <1>4, <1>5, <1>6, <1>7, <1>8 DEF Waits

\* XO lists no disk of the name, and is not making one either: its call would be
\* another call for this name.
LEMMA FindPatient ==
  ASSUME PatientInv, NEW c \in Calls, FindVDIByVolumeName(c)
  PROVE  Waits' /\ OneDiskPerName' /\ AnswersTruthful'
<1>1. At(c, "find") /\ ~At(c, "idle") /\ ~At(c, "created") /\ UNCHANGED disk
  BY DEF FindVDIByVolumeName, At
<1>2. CASE ByName(c) = {} /\ Goto(c, "create") /\ UNCHANGED pv
  <2>1. call \in [Calls -> CallRecord]  BY DEF PatientInv, ChoiceInv, Inv, CallsGood
  <2>2. /\ call'[c].pc = "create" /\ call'[c].req = call[c].req
        /\ \A e \in Calls : e # c => call'[e] = call[e]
    BY <1>2, <2>1 DEF Goto, CallRecord
  <2>3. OneCallPerName'  BY <1>1, <2>2 DEF PatientInv, Waits, OneCallPerName, At
  <2>4. Unanswered'  BY <1>1, <1>2, <2>2 DEF PatientInv, Waits, Unanswered, At
  <2>5. AwaitedByCall'
    <3> SUFFICES ASSUME NEW f \in Vdis, disk[f].state = "creating"
                 PROVE  \E e \in Calls : call'[e].pc = "created" /\ call'[e].vdi = f
      BY <1>1 DEF AwaitedByCall, At
    <3>1. PICK e \in Calls : call[e].pc = "created" /\ call[e].vdi = f
      BY DEF PatientInv, Waits, AwaitedByCall, At
    <3> QED BY <1>1, <2>2, <3>1 DEF At
  <2>6. AwaitsOwnDisk'
    <3>1. \A e \in Calls : call'[e].pc = "created" => call'[e] = call[e]  BY <2>2
    <3> QED BY <1>1, <3>1 DEF PatientInv, Waits, AwaitsOwnDisk, At
  <2>7. ASSUME NEW f \in Vdis, disk[f].state # "unused", disk[f].name = call[c].req.name
        PROVE  FALSE
    <3>1. disk[f].state # "live"  BY <1>2, <2>7 DEF ByName
    <3>2. disk[f].state = "creating"
      BY <2>7, <3>1 DEF PatientInv, ChoiceInv, Inv, TypeOK, DiskRecord
    <3>3. PICK e \in Calls : call[e].pc = "created" /\ call[e].vdi = f
      BY <3>2 DEF PatientInv, Waits, AwaitedByCall, At
    <3>4. disk[f].name = call[e].req.name
      BY <3>3 DEF PatientInv, Waits, AwaitsOwnDisk, At
    <3>5. e # c /\ ~At(e, "idle")  BY <1>1, <3>3 DEF At
    <3> QED BY <1>1, <2>7, <3>4, <3>5 DEF PatientInv, Waits, OneCallPerName
  <2>8. NoneYet'
    <3> SUFFICES ASSUME NEW e \in Calls, NEW f \in Vdis, call'[e].pc = "create",
                        disk[f].state # "unused"
                 PROVE  disk[f].name # call'[e].req.name
      BY <1>1 DEF NoneYet, At
    <3>1. CASE e = c  BY <2>2, <2>7, <3>1
    <3>2. CASE e # c  BY <2>2, <3>2 DEF PatientInv, Waits, NoneYet, At
    <3> QED BY <3>1, <3>2
  <2>9. OneDiskPerName' /\ AnswersTruthful'
    BY <1>1, <1>2 DEF PatientInv, OneDiskPerName, AnswersTruthful
  <2> QED BY <2>3, <2>4, <2>5, <2>6, <2>8, <2>9 DEF Waits
<1>3. ASSUME NEW d \in Vdis, ByName(c) = {d}, SameSize(c, d), Succeed(c, d)
      PROVE  Waits' /\ OneDiskPerName' /\ AnswersTruthful'
  <2>1. /\ disk[d].state = "live" /\ disk[d].name = call[c].req.name
        /\ disk[d].size = call[c].req.size
    BY <1>3 DEF ByName, SameSize
  <2> QED BY <1>1, <1>3, <2>1, SucceedPatient
<1>4. CASE Reject(c) /\ UNCHANGED pv  BY <1>1, <1>4, RejectPatient
<1> QED BY <1>2, <1>3, <1>4 DEF FindVDIByVolumeName

\* The disk that is made is the first of its name.
LEMMA CreatePatient ==
  ASSUME PatientInv, NEW c \in Calls, CreateVDI(c)
  PROVE  Waits' /\ OneDiskPerName' /\ AnswersTruthful'
<1> DEFINE r == call[c].req
<1>1. PICK d \in Vdis :
        /\ disk[d].state = "unused"
        /\ disk' = [disk EXCEPT ![d] = [state |-> "creating", sr |-> call[c].sr,
                      name |-> r.name, size |-> r.size, for |-> r]]
        /\ call' = [call EXCEPT ![c] = [call[c] EXCEPT !.pc = "created", !.vdi = d]]
  BY DEF CreateVDI
<1>2. /\ call \in [Calls -> CallRecord] /\ disk \in [Vdis -> DiskRecord]
  BY DEF PatientInv, ChoiceInv, Inv, CallsGood, TypeOK
<1>3. /\ call'[c].pc = "created" /\ call'[c].req = r /\ call'[c].vdi = d
      /\ \A e \in Calls : e # c => call'[e] = call[e]
  BY <1>1, <1>2 DEF CallRecord
<1>4. /\ disk'[d].state = "creating" /\ disk'[d].name = r.name /\ disk'[d].size = r.size
      /\ \A f \in Vdis : f # d => disk'[f] = disk[f]
  BY <1>1, <1>2
<1>5. At(c, "create") /\ ~At(c, "idle") /\ UNCHANGED pv  BY DEF CreateVDI, At
<1>6. OneCallPerName'  BY <1>3, <1>5 DEF PatientInv, Waits, OneCallPerName, At
<1>7. Unanswered'  BY <1>3, <1>5 DEF PatientInv, Waits, Unanswered, At
<1>8. AwaitedByCall'
  <2> SUFFICES ASSUME NEW f \in Vdis, disk'[f].state = "creating"
               PROVE  \E e \in Calls : call'[e].pc = "created" /\ call'[e].vdi = f
    BY DEF AwaitedByCall, At
  <2>1. CASE f = d  BY <1>3, <2>1
  <2>2. CASE f # d
    <3>1. PICK e \in Calls : call[e].pc = "created" /\ call[e].vdi = f
      BY <1>4, <2>2 DEF PatientInv, Waits, AwaitedByCall, At
    <3> QED BY <1>3, <1>5, <3>1 DEF At
  <2> QED BY <2>1, <2>2
<1>9. AwaitsOwnDisk'
  <2> SUFFICES ASSUME NEW e \in Calls, call'[e].pc = "created"
               PROVE  /\ disk'[call'[e].vdi].state # "unused"
                      /\ disk'[call'[e].vdi].name = call'[e].req.name
                      /\ disk'[call'[e].vdi].size = call'[e].req.size
    BY DEF AwaitsOwnDisk, At
  <2>1. CASE e = c  BY <1>3, <1>4, <2>1
  <2>2. CASE e # c
    <3>1. call'[e] = call[e] /\ call[e].pc = "created"  BY <1>3, <2>2
    <3>2. /\ disk[call[e].vdi].state # "unused" /\ disk[call[e].vdi].name = call[e].req.name
          /\ disk[call[e].vdi].size = call[e].req.size
      BY <3>1 DEF PatientInv, Waits, AwaitsOwnDisk, At
    <3>3. call[e].vdi \in Vdis  BY <3>1 DEF PatientInv, ChoiceInv, Inv, CallsGood, Good
    <3> QED BY <1>1, <1>4, <3>1, <3>2, <3>3
  <2> QED BY <2>1, <2>2
<1>10. NoneYet'
  <2> SUFFICES ASSUME NEW e \in Calls, NEW f \in Vdis, call'[e].pc = "create",
                      disk'[f].state # "unused"
               PROVE  disk'[f].name # call'[e].req.name
    BY DEF NoneYet, At
  <2>1. e # c /\ call'[e] = call[e] /\ call[e].pc = "create"  BY <1>3
  <2>2. CASE f = d
    BY <1>4, <1>5, <2>1, <2>2 DEF PatientInv, Waits, OneCallPerName, At
  <2>3. CASE f # d  BY <1>4, <2>1, <2>3 DEF PatientInv, Waits, NoneYet, At
  <2> QED BY <2>2, <2>3
<1>11. \A f \in Vdis : disk[f].state # "unused" => disk[f].name # r.name
  BY <1>5 DEF PatientInv, Waits, NoneYet
<1>12. OneDiskPerName'  BY <1>4, <1>11 DEF PatientInv, OneDiskPerName
<1>13. AnswersTruthful'
  <2> SUFFICES ASSUME NEW n \in Names, pv[n] # None
               PROVE  /\ disk'[pv[n].id].state = "live" /\ disk'[pv[n].id].name = n
                      /\ disk'[pv[n].id].size = pv[n].size
                      /\ \A f \in Vdis : disk'[f].state # "unused" /\ disk'[f].name = n =>
                           f = pv[n].id
    BY <1>5 DEF AnswersTruthful
  <2>1. r.name # n  BY <1>5 DEF PatientInv, Waits, Unanswered
  <2>2. pv[n].id \in Vdis  BY DEF PatientInv, ChoiceInv, Inv, TypeOK, Volume
  <2>3. /\ disk[pv[n].id].state = "live" /\ disk[pv[n].id].name = n
        /\ disk[pv[n].id].size = pv[n].size
        /\ \A f \in Vdis : disk[f].state # "unused" /\ disk[f].name = n => f = pv[n].id
    BY DEF PatientInv, AnswersTruthful
  <2> QED BY <1>1, <1>4, <2>1, <2>2, <2>3
<1> QED BY <1>6, <1>7, <1>8, <1>9, <1>10, <1>12, <1>13 DEF Waits

\* The disk is there.
LEMMA VDICreatedPatient ==
  ASSUME PatientInv, NEW d \in Vdis, VDICreated(d)
  PROVE  Waits' /\ OneDiskPerName' /\ AnswersTruthful'
<1>1. disk[d].state = "creating" /\ UNCHANGED <<call, pv>>  BY DEF VDICreated
<1>2. \A f \in Vdis : /\ disk'[f].name = disk[f].name /\ disk'[f].size = disk[f].size
                      /\ disk'[f].state # "unused" <=> disk[f].state # "unused"
                      /\ disk'[f].state = "creating" => disk[f].state = "creating"
                      /\ disk[f].state = "live" => disk'[f].state = "live"
  BY DEF VDICreated, PatientInv, ChoiceInv, Inv, TypeOK, DiskRecord
<1>3. OneCallPerName' /\ Unanswered'
  BY <1>1 DEF PatientInv, Waits, OneCallPerName, Unanswered, At
<1>4. AwaitedByCall'  BY <1>1, <1>2 DEF PatientInv, Waits, AwaitedByCall, At
<1>5. AwaitsOwnDisk'
  <2>1. \A c \in Calls : call[c].pc = "created" => call[c].vdi \in Vdis
    BY DEF PatientInv, ChoiceInv, Inv, CallsGood, Good
  <2> QED BY <1>1, <1>2, <2>1 DEF PatientInv, Waits, AwaitsOwnDisk, At
<1>6. NoneYet'  BY <1>1, <1>2 DEF PatientInv, Waits, NoneYet, At
<1>7. OneDiskPerName'  BY <1>2 DEF PatientInv, OneDiskPerName
<1>8. AnswersTruthful'
  <2>1. \A n \in Names : pv[n] # None => pv[n].id \in Vdis
    BY DEF PatientInv, ChoiceInv, Inv, TypeOK, Volume
  <2> QED BY <1>1, <1>2, <2>1 DEF PatientInv, AnswersTruthful
<1> QED BY <1>3, <1>4, <1>5, <1>6, <1>7, <1>8 DEF Waits

\* A call answers with the disk that it has waited for.
LEMMA AnswerCreatedPatient ==
  ASSUME PatientInv, NEW c \in Calls, AnswerCreated(c)
  PROVE  Waits' /\ OneDiskPerName' /\ AnswersTruthful'
<1>1. At(c, "created") /\ ~At(c, "idle") /\ disk[call[c].vdi].state = "live"
  BY DEF AnswerCreated, At
<1>2. call[c].vdi \in Vdis  BY <1>1 DEF PatientInv, ChoiceInv, Inv, CallsGood, Good, At
<1>3. disk[call[c].vdi].name = call[c].req.name /\ disk[call[c].vdi].size = call[c].req.size
  BY <1>1 DEF PatientInv, Waits, AwaitsOwnDisk
<1> QED BY <1>1, <1>2, <1>3, SucceedPatient DEF AnswerCreated

\* The steps of a call that chooses.
LEMMA ChoosingPatient ==
  ASSUME PatientInv, NEW c \in Calls,
         TaggedPoolIDs(c) \/ GetPool(c) \/ GetSR(c) \/ FindLocalSRsForPool(c)
  PROVE  Waits' /\ OneDiskPerName' /\ AnswersTruthful'
<1> DEFINE k == call[c]
<1>1. k.pc \notin {"idle", "created"} /\ UNCHANGED <<disk, pv>> /\ k \in CallRecord
  BY DEF TaggedPoolIDs, GetPool, GetSR, FindLocalSRsForPool, At, PatientInv, ChoiceInv,
    Inv, CallsGood
<1>2. CASE Reject(c)  BY <1>1, <1>2, RejectPatient DEF At
<1>3. ASSUME NEW n, call' = [call EXCEPT ![c] = n], n.req = k.req,
             n.pc \notin {"create", "created"}
      PROVE  Waits' /\ OneDiskPerName' /\ AnswersTruthful'
  BY <1>1, <1>3, MovesPatient
<1>4. ASSUME NEW down, NextPool(c, down) PROVE Waits' /\ OneDiskPerName' /\ AnswersTruthful'
  <2>1. CASE Len(k.order) = 1  BY <1>2, <1>4, <2>1 DEF NextPool
  <2>2. CASE Len(k.order) # 1
    <3> DEFINE n == [k EXCEPT !.pc = "getPool", !.down = down, !.order = Tail(k.order)]
    <3>1. call' = [call EXCEPT ![c] = n]  BY <1>4, <2>2 DEF NextPool
    <3>2. n.req = k.req /\ n.pc = "getPool"  BY <1>1 DEF CallRecord
    <3> QED BY <1>3, <3>1, <3>2
  <2> QED BY <2>1, <2>2
<1>5. CASE TaggedPoolIDs(c)
  <2>1. PICK order \in SetToSeqs(Tagged) :
          IF order = <<>> THEN Reject(c)
          ELSE call' = [call EXCEPT ![c] = [k EXCEPT !.pc = "getPool", !.order = order]]
    BY <1>5 DEF TaggedPoolIDs
  <2>2. CASE order = <<>>  BY <1>2, <2>1, <2>2
  <2>3. CASE order # <<>>
    <3> DEFINE n == [k EXCEPT !.pc = "getPool", !.order = order]
    <3>1. n.req = k.req /\ n.pc = "getPool"  BY <1>1 DEF CallRecord
    <3> QED BY <1>3, <2>1, <2>3, <3>1
  <2> QED BY <2>2, <2>3
<1>6. CASE GetPool(c)
  <2>1. CASE Goto(c, "getSR")
    <3> DEFINE n == [k EXCEPT !.pc = "getSR"]
    <3>1. n.req = k.req /\ n.pc = "getSR"  BY <1>1 DEF CallRecord
    <3>2. call' = [call EXCEPT ![c] = n]  BY <2>1 DEF Goto
    <3> QED BY <1>3, <3>1, <3>2
  <2> QED BY <1>4, <1>6, <2>1 DEF GetPool, Unanswering
<1>7. CASE GetSR(c)
  <2> DEFINE p == Head(k.order)
             n == [k EXCEPT !.pool = p, !.sr = DefaultSR[p],
                            !.pc = IF k.req.local THEN "localSRs" ELSE "find"]
  <2>1. CASE call' = [call EXCEPT ![c] = n]
    <3>1. n.req = k.req /\ n.pc \in {"localSRs", "find"}  BY <1>1 DEF CallRecord
    <3> QED BY <1>3, <2>1, <3>1
  <2> QED BY <1>4, <1>7, <2>1 DEF GetSR, Unanswering
<1>8. CASE FindLocalSRsForPool(c)
  <2>1. ASSUME NEW s, call' = [call EXCEPT ![c] = [k EXCEPT !.pc = "find", !.sr = s]]
        PROVE  Waits' /\ OneDiskPerName' /\ AnswersTruthful'
    <3> DEFINE n == [k EXCEPT !.pc = "find", !.sr = s]
    <3>1. n.req = k.req /\ n.pc = "find"  BY <1>1 DEF CallRecord
    <3> QED BY <1>3, <2>1, <3>1
  <2> QED BY <1>2, <1>8, <2>1 DEF FindLocalSRsForPool
<1> QED BY <1>5, <1>6, <1>7, <1>8

\* There are no disks and no calls.
LEMMA InitPatient == Init => PatientInv
<1> SUFFICES ASSUME Init PROVE PatientInv  OBVIOUS
<1>1. \A c \in Calls : call[c].pc = "idle"  BY DEF Init, Idle
<1>2. \A d \in Vdis : disk[d].state = "unused"  BY DEF Init, UnusedDisk
<1>3. \A n \in Names : pv[n] = None  BY DEF Init
<1>4. Waits
  BY <1>1, <1>2
  DEF Waits, OneCallPerName, Unanswered, AwaitedByCall, AwaitsOwnDisk, NoneYet, At
<1>5. OneDiskPerName /\ AnswersTruthful  BY <1>2, <1>3 DEF OneDiskPerName, AnswersTruthful
<1> QED BY <1>4, <1>5, InitInv DEF PatientInv

\* Every step of a system with a patient CO keeps the second invariant.
LEMMA NextPatient ==
  ASSUME "abandon" \notin Faults
  PROVE  PatientInv /\ [Next]_vars => PatientInv'
<1> SUFFICES ASSUME PatientInv, [Next]_vars PROVE Waits' /\ OneDiskPerName' /\ AnswersTruthful'
  BY NextInv DEF PatientInv
<1>1. CASE UNCHANGED vars
  BY <1>1 DEF PatientInv, Waits, OneCallPerName, Unanswered, AwaitedByCall, AwaitsOwnDisk,
    NoneYet, OneDiskPerName, AnswersTruthful, At, vars
<1>2. ASSUME NEW c \in Calls, Interrupted(c)
      PROVE  Waits' /\ OneDiskPerName' /\ AnswersTruthful'
  BY <1>2, RejectPatient DEF Interrupted
<1>3. CASE Next
  BY <1>2, <1>3, StartPatient, ChoosingPatient, FindPatient, CreatePatient,
     VDICreatedPatient, AnswerCreatedPatient, MaintenancePatient DEF Next
<1> QED BY <1>1, <1>3

\* The inductive invariant of a CO that waits.
THEOREM PatientInvariance == ASSUME "abandon" \notin Faults PROVE Spec => []PatientInv
BY InitPatient, NextPatient, PTL DEF Spec

\* Answers may be lost and calls repeated with another topology, any number of
\* calls may run: as long as the CO does not give up on a disk that XO is still
\* making, a PV name has one disk (controllerserver.go:405).
THEOREM OneDisk == ASSUME "abandon" \notin Faults PROVE Spec => []OneDiskPerName
<1>1. PatientInv => OneDiskPerName  BY DEF PatientInv
<1> QED BY <1>1, PatientInvariance, PTL

\* Then the ID, the name and the capacity that the CO was told are true of exactly
\* one disk (controllerserver.go:405-449).
THEOREM AnswersAreTrue == ASSUME "abandon" \notin Faults PROVE Spec => []AnswersTruthful
<1>1. PatientInv => AnswersTruthful  BY DEF PatientInv
<1> QED BY <1>1, PatientInvariance, PTL

=============================================================================
