------------------------------ MODULE NodeProofs ------------------------------
(***************************************************************************)
(* The node service for any number of volumes, pods, devices and calls,    *)
(* with errors, crashes, time-outs, restarts of the kubelet and reboots:   *)
(* what is mounted is plugged in, what is published is the pod's volume,   *)
(* and what is released is mounted nowhere, until a call that the kubelet  *)
(* has given up on goes against what it has asked for since.               *)
(*                                                                         *)
(* Until then each path has mounts of its own disk alone, and every call   *)
(* that has not been turned works towards what the kubelet wants (Current).*)
(* So two such calls for a path never work against each other, whether or  *)
(* not the kubelet waits for either.                                       *)
(***************************************************************************)
EXTENDS NodePlugin, FiniteSetTheorems, SequenceTheorems, TLAPS

VolumeAt(p) == IF p \in Volumes THEN p ELSE VolumeOf[p]
DiskAt(p) == [dev |-> device[VolumeAt(p)], vol |-> VolumeAt(p)]

-----------------------------------------------------------------------------
(* What always holds. *)

\* A device name is that of one disk.
OneName == \A v, w \in Volumes : device[v] = device[w] /\ device[v] # None => v = w

\* A call is for the path that its operation works on, and as far as it can be.
Made(k) ==
  /\ k.op \in {"stage", "unstage"} => k.vol \in Volumes /\ k.path = k.vol
  /\ k.op \in {"publish", "unpublish"} => k.path \in Targets /\ k.vol = VolumeOf[k.path]
  /\ k.pc \in {"isStaged", "checkSR", "stat", "format"} => k.op = "stage"
  /\ k.pc = "refs" => k.op = "unstage"
  /\ k.pc \in {"isMounted", "bind"} => k.op = "publish"
  /\ k.pc = "unmount" => k.op \in {"unstage", "unpublish"}
  /\ k.pc = "answer" => k.op # None
  /\ k.pc = "idle" => k.op = None

-----------------------------------------------------------------------------
(* What holds until a call is overtaken. *)

\* A path has mounts of its own disk, which is plugged in; a volume is staged once.
Owned ==
  \A p \in Paths : \A i \in DOMAIN mounts[p] :
    device[VolumeAt(p)] # None /\ mounts[p][i] = DiskAt(p)
Once == \A v \in Volumes : Len(mounts[v]) <= 1

\* What the kubelet believes is so; a pod's volume is staged.
Believed ==
  /\ \A v \in Volumes : /\ staged[v] = "yes" => mounts[v] # <<>>
                        /\ staged[v] = "no" => mounts[v] = <<>>
  /\ \A t \in Targets : /\ pub[t] = "yes" => mounts[t] # <<>>
                        /\ pub[t] = "no" => mounts[t] = <<>>
                        /\ pub[t] # "no" => /\ staged[VolumeOf[t]] \in {"staging", "yes"}
                                            /\ mounts[VolumeOf[t]] # <<>>

\* The kubelet wants what the call works towards, whether it waits for it or not.
Current(k) ==
  /\ k.op = "stage" => /\ staged[k.vol] \in {"staging", "yes"}
                       /\ k.device = device[k.vol] /\ k.device # None
  /\ k.op = "unstage" => staged[k.vol] \in {"unstaging", "no"}
  /\ k.op = "publish" => pub[k.path] \in {"publishing", "yes"}
  /\ k.op = "unpublish" => pub[k.path] \in {"unpublishing", "no"}
  /\ k.pc = "answer" => (mounts[k.path] = <<>> <=> k.op \in {"unstage", "unpublish"})

CallsCurrent == \A c \in Calls : call[c].caller # "turned" => Current(call[c])

Fits == Owned /\ Once /\ Believed /\ CallsCurrent

NodeInv == TypeOK /\ OneName /\ (\A c \in Calls : Made(call[c])) /\ (~overtaken => Fits)

-----------------------------------------------------------------------------
(* Steps that only change calls. *)

\* A call that is not there is well-formed.
LEMMA IdleMade == Idle \in CallRecord /\ Made(Idle) /\ Current(Idle)
BY NodeAssumption DEF Idle, CallRecord, PC, Caller, Ops, Made, Current

\* Nothing but calls changes, and they stay what they have to be.
LEMMA CallsStep ==
  ASSUME NodeInv, call' \in [Calls -> CallRecord], \A c \in Calls : Made(call'[c]),
         UNCHANGED <<device, mounts, staged, pub, overtaken>>,
         ~overtaken => \A c \in Calls : call'[c].caller # "turned" => Current(call'[c])
  PROVE  NodeInv'
<1>1. TypeOK' /\ OneName'  BY DEF NodeInv, TypeOK, OneName
<1>2. \A c \in Calls : Made(call[c])'  BY DEF Made
<1>3. ASSUME ~overtaken PROVE Fits'
  <2>1. Owned' /\ Once' /\ Believed'
    BY <1>3 DEF NodeInv, Fits, Owned, Once, Believed, DiskAt, VolumeAt
  <2>2. CallsCurrent'  BY <1>3 DEF CallsCurrent, Current
  <2> QED BY <2>1, <2>2 DEF Fits
<1> QED BY <1>1, <1>2, <1>3 DEF NodeInv

\* So when one call steps.
LEMMA OneStep ==
  ASSUME NodeInv, NEW c \in Calls, NEW k \in CallRecord, call' = [call EXCEPT ![c] = k],
         Made(k), ~overtaken /\ k.caller # "turned" => Current(k),
         UNCHANGED <<device, mounts, staged, pub, overtaken>>
  PROVE  NodeInv'
<1>1. call \in [Calls -> CallRecord]  BY DEF NodeInv, TypeOK
<1>2. call' \in [Calls -> CallRecord] /\ \A e \in Calls : call'[e] = IF e = c THEN k ELSE call[e]
  BY <1>1
<1>3. \A e \in Calls : Made(call'[e])  BY <1>2 DEF NodeInv
<1>4. ~overtaken => \A e \in Calls : call'[e].caller # "turned" => Current(call'[e])
  BY <1>2 DEF NodeInv, Fits, CallsCurrent
<1> QED BY <1>2, <1>3, <1>4, CallsStep

\* A handler goes on to a step before its answer.
LEMMA GotoStep ==
  ASSUME NodeInv, NEW c \in Calls, NEW pc \in PC \ {"idle", "answer"}, Goto(c, pc),
         Made([call[c] EXCEPT !.pc = pc]),
         UNCHANGED <<device, mounts, staged, pub, overtaken>>
  PROVE  NodeInv'
<1> DEFINE k == [call[c] EXCEPT !.pc = pc]
<1>1. call[c] \in CallRecord /\ k \in CallRecord  BY DEF NodeInv, TypeOK, CallRecord
<1>2. /\ k.op = call[c].op /\ k.pc = pc /\ k.vol = call[c].vol /\ k.path = call[c].path
      /\ k.device = call[c].device /\ k.caller = call[c].caller
  BY <1>1 DEF CallRecord
<1>3. call' = [call EXCEPT ![c] = k] /\ Made(k)  BY DEF Goto
<1> HIDE DEF k
<1>4. ~overtaken /\ k.caller # "turned" => Current(k)
  BY <1>2 DEF NodeInv, Fits, CallsCurrent, Current
<1> QED BY <1>1, <1>3, <1>4, OneStep

\* A handler returns an error, or is gone.
LEMMA RejectStep ==
  ASSUME NodeInv, NEW c \in Calls, Reject(c), UNCHANGED <<device, mounts, overtaken>>
  PROVE  NodeInv'
BY IdleMade, OneStep DEF Reject, kubelet

\* The end of the process leaves the mounts, and no call.
LEMMA CrashInv == ASSUME NodeInv, Crash PROVE NodeInv'
<1>1. call' = [c \in Calls |-> Idle]  BY DEF Crash
<1>2. call' \in [Calls -> CallRecord] /\ \A c \in Calls : call'[c] = Idle  BY <1>1, IdleMade
<1> QED BY <1>2, IdleMade, CallsStep DEF Crash, kubelet

\* Nobody waits for a call any more, which goes on as before.
LEMMA LeftGood ==
  ASSUME NodeInv, NEW c \in Calls, Heard(c)
  PROVE  LET k == [call[c] EXCEPT !.caller = "left"] IN
         k \in CallRecord /\ Made(k) /\ (~overtaken => Current(k))
<1> DEFINE k == [call[c] EXCEPT !.caller = "left"]
<1>1. call[c] \in CallRecord /\ k \in CallRecord  BY DEF NodeInv, TypeOK, CallRecord, Caller
<1>2. /\ k.op = call[c].op /\ k.pc = call[c].pc /\ k.vol = call[c].vol
      /\ k.path = call[c].path /\ k.device = call[c].device
  BY <1>1 DEF CallRecord
<1> HIDE DEF k
<1>3. Made(k)  BY <1>2 DEF NodeInv, Made
<1>4. ~overtaken => Current(call[c])  BY DEF NodeInv, Fits, CallsCurrent, Heard
<1>5. ~overtaken => Current(k)  BY <1>2, <1>4 DEF Current
<1> QED BY <1>1, <1>3, <1>5 DEF k

\* The kubelet gives up on a call that goes on.
LEMMA GiveUpInv == ASSUME NodeInv, NEW c \in Calls, GiveUp(c) PROVE NodeInv'
<1> DEFINE k == [call[c] EXCEPT !.caller = "left"]
<1>1. k \in CallRecord /\ Made(k) /\ (~overtaken => Current(k))  BY LeftGood DEF GiveUp
<1>2. call' = [call EXCEPT ![c] = k]  BY DEF GiveUp
<1> HIDE DEF k
<1> QED BY <1>1, <1>2, OneStep DEF GiveUp, kubelet

\* The kubelet starts again and forgets its calls.
LEMMA RestartKubeletInv == ASSUME NodeInv, RestartKubelet PROVE NodeInv'
<1> DEFINE k(c) == IF At(c, "idle") \/ ~Heard(c) THEN call[c]
                   ELSE [call[c] EXCEPT !.caller = "left"]
<1>1. call' = [c \in Calls |-> k(c)]  BY DEF RestartKubelet
<1>2. ASSUME NEW c \in Calls
      PROVE  /\ k(c) \in CallRecord /\ Made(k(c))
             /\ ~overtaken /\ k(c).caller # "turned" => Current(k(c))
  <2>1. /\ call[c] \in CallRecord /\ Made(call[c])
        /\ ~overtaken /\ call[c].caller # "turned" => Current(call[c])
    BY DEF NodeInv, TypeOK, Fits, CallsCurrent
  <2> QED BY <2>1, LeftGood
<1> HIDE DEF k
<1>3. call' \in [Calls -> CallRecord] /\ \A c \in Calls : call'[c] = k(c)  BY <1>1, <1>2
<1> QED BY <1>2, <1>3, CallsStep DEF RestartKubelet, kubelet

-----------------------------------------------------------------------------
(* Answers. *)

\* What the kubelet is told is so: what it waits for is mounted, or is not.
LEMMA SucceedStep ==
  ASSUME NodeInv, NEW c \in Calls, call[c].op # None, Succeed(c),
         UNCHANGED <<device, mounts, overtaken>>,
         ~overtaken /\ Heard(c) =>
           (mounts[call[c].path] = <<>> <=> call[c].op \in {"unstage", "unpublish"})
  PROVE  NodeInv'
<1> DEFINE k == call[c]
           p == call[c].path
<1>1. /\ k \in CallRecord /\ Made(k) /\ call \in [Calls -> CallRecord]
      /\ staged \in [Volumes -> {"no", "staging", "yes", "unstaging"}]
      /\ pub \in [Targets -> {"no", "publishing", "yes", "unpublishing"}]
  BY DEF NodeInv, TypeOK
<1>2. CASE ~Heard(c)
  <2>1. Reject(c)  BY <1>2 DEF Succeed, Knows, Reject
  <2> QED BY <2>1, RejectStep
<1>3. CASE Heard(c) /\ k.op \in {"stage", "unstage"}
  <2> DEFINE new == IF k.op = "stage" THEN "yes" ELSE "no"
  <2>1. k.vol = p /\ p \in Volumes  BY <1>1, <1>3 DEF Made
  <2>2. staged' = [staged EXCEPT ![p] = new] /\ UNCHANGED pub
    BY <1>3, <2>1 DEF Succeed, Knows
  <2>3. \A v \in Volumes : staged'[v] = IF v = p THEN new ELSE staged[v]
    BY <1>1, <2>2
  <2>4. call' = [call EXCEPT ![c] = Idle]  BY DEF Succeed
  <2>5. call' \in [Calls -> CallRecord] /\ \A e \in Calls : call'[e] = IF e = c THEN Idle ELSE call[e]
    BY <1>1, <2>4, IdleMade
  <2>6. TypeOK' /\ OneName'  BY <1>1, <2>2, <2>5 DEF NodeInv, TypeOK, OneName
  <2>7. \A e \in Calls : Made(call[e])'  BY <2>5, IdleMade DEF NodeInv, Made
  <2>8. ASSUME ~overtaken PROVE Fits'
    <3>1. Current(k) /\ Believed /\ CallsCurrent
      BY <1>3, <2>8 DEF NodeInv, Fits, CallsCurrent, Heard
    <3>2. Owned' /\ Once'  BY <2>8 DEF NodeInv, Fits, Owned, Once, DiskAt, VolumeAt
    <3>3. mounts[p] = <<>> <=> new = "no"  BY <1>3, <2>8
    <3>4. staged[p] \in IF new = "yes" THEN {"staging", "yes"} ELSE {"unstaging", "no"}
      BY <1>3, <2>1, <3>1 DEF Current
    <3>5. Believed'
      <4>1. \A v \in Volumes : /\ staged'[v] = "yes" => mounts[v] # <<>>
                               /\ staged'[v] = "no" => mounts[v] = <<>>
        BY <2>3, <3>1, <3>3 DEF Believed
      <4>2. ASSUME NEW t \in Targets
            PROVE  /\ pub[t] = "yes" => mounts[t] # <<>>
                   /\ pub[t] = "no" => mounts[t] = <<>>
                   /\ pub[t] # "no" => /\ staged'[VolumeOf[t]] \in {"staging", "yes"}
                                       /\ mounts[VolumeOf[t]] # <<>>
        <5>1. VolumeOf[t] \in Volumes  BY NodeAssumption
        <5> QED BY <2>3, <3>1, <3>4, <5>1 DEF Believed
      <4> QED BY <2>2, <4>1, <4>2 DEF Believed
    <3>6. ASSUME NEW e \in Calls, call'[e].caller # "turned" PROVE Current(call[e])'
      <4>1. CASE e = c
        <5>1. call'[e].op = None /\ call'[e].pc = "idle"  BY <2>5, <4>1 DEF Idle
        <5> QED BY <5>1, NodeAssumption DEF Current, Ops
      <4>2. CASE e # c
        <5>1. call'[e] = call[e] /\ Current(call[e]) /\ Made(call[e])
          BY <2>5, <3>1, <3>6, <4>2 DEF CallsCurrent, NodeInv
        <5> QED BY <2>2, <2>3, <3>4, <5>1 DEF Current, Made
      <4> QED BY <4>1, <4>2
    <3> QED BY <3>2, <3>5, <3>6 DEF Fits, CallsCurrent
  <2> QED BY <2>6, <2>7, <2>8 DEF NodeInv
<1>4. CASE Heard(c) /\ k.op \in {"publish", "unpublish"}
  <2> DEFINE new == IF k.op = "publish" THEN "yes" ELSE "no"
  <2>1. p \in Targets /\ p \notin Volumes  BY <1>1, <1>4, NodeAssumption DEF Made
  <2>2. pub' = [pub EXCEPT ![p] = new] /\ UNCHANGED staged
    BY <1>4, <2>1 DEF Succeed, Knows
  <2>3. \A t \in Targets : pub'[t] = IF t = p THEN new ELSE pub[t]
    BY <1>1, <2>2
  <2>4. call' = [call EXCEPT ![c] = Idle]  BY DEF Succeed
  <2>5. call' \in [Calls -> CallRecord] /\ \A e \in Calls : call'[e] = IF e = c THEN Idle ELSE call[e]
    BY <1>1, <2>4, IdleMade
  <2>6. TypeOK' /\ OneName'  BY <1>1, <2>2, <2>5 DEF NodeInv, TypeOK, OneName
  <2>7. \A e \in Calls : Made(call[e])'  BY <2>5, IdleMade DEF NodeInv, Made
  <2>8. ASSUME ~overtaken PROVE Fits'
    <3>1. Current(k) /\ Believed /\ CallsCurrent
      BY <1>4, <2>8 DEF NodeInv, Fits, CallsCurrent, Heard
    <3>2. Owned' /\ Once'  BY <2>8 DEF NodeInv, Fits, Owned, Once, DiskAt, VolumeAt
    <3>3. mounts[p] = <<>> <=> new = "no"  BY <1>4, <2>8
    <3>4. pub[p] \in IF new = "yes" THEN {"publishing", "yes"} ELSE {"unpublishing", "no"}
      BY <1>4, <2>1, <3>1 DEF Current
    <3>5. Believed'
      <4>1. ASSUME NEW t \in Targets
            PROVE  /\ pub'[t] = "yes" => mounts[t] # <<>>
                   /\ pub'[t] = "no" => mounts[t] = <<>>
                   /\ pub'[t] # "no" => /\ staged[VolumeOf[t]] \in {"staging", "yes"}
                                        /\ mounts[VolumeOf[t]] # <<>>
        BY <2>3, <3>1, <3>3, <3>4 DEF Believed
      <4> QED BY <2>2, <3>1, <4>1 DEF Believed
    <3>6. ASSUME NEW e \in Calls, call'[e].caller # "turned" PROVE Current(call[e])'
      <4>1. CASE e = c
        <5>1. call'[e].op = None /\ call'[e].pc = "idle"  BY <2>5, <4>1 DEF Idle
        <5> QED BY <5>1, NodeAssumption DEF Current, Ops
      <4>2. CASE e # c
        <5>1. call'[e] = call[e] /\ Current(call[e]) /\ Made(call[e])
          BY <2>5, <3>1, <3>6, <4>2 DEF CallsCurrent, NodeInv
        <5> QED BY <2>2, <2>3, <3>4, <5>1 DEF Current, Made
      <4> QED BY <4>1, <4>2
    <3> QED BY <3>2, <3>5, <3>6 DEF Fits, CallsCurrent
  <2> QED BY <2>6, <2>7, <2>8 DEF NodeInv
<1> QED BY <1>1, <1>2, <1>3, <1>4 DEF CallRecord, Ops

\* The answer is on its way.
LEMMA AnswerInv == ASSUME NodeInv, NEW c \in Calls, Answer(c) PROVE NodeInv'
<1>1. call[c].pc = "answer" /\ call[c].op # None  BY DEF NodeInv, Made, Answer, At
<1>2. ~overtaken /\ Heard(c) => Current(call[c])  BY DEF NodeInv, Fits, CallsCurrent, Heard
<1> QED BY <1>1, <1>2, SucceedStep DEF Answer, Current

\* A request or a system call fails.
LEMMA FailsInv == ASSUME NodeInv, NEW c \in Calls, Fails(c) PROVE NodeInv'
BY RejectStep DEF Fails

-----------------------------------------------------------------------------
(* Handlers that read. *)

\* A mounted path shows what it is staged or published for.
LEMMA TopIsDisk ==
  ASSUME NodeInv, Owned, NEW p \in Paths, mounts[p] # <<>>
  PROVE  Top(p) = DiskAt(p) /\ device[VolumeAt(p)] # None
<1>1. mounts[p] \in Seq(Mount)  BY DEF NodeInv, TypeOK
<1>2. Len(mounts[p]) \in DOMAIN mounts[p]  BY <1>1, EmptySeq, LenProperties
<1> QED BY <1>2 DEF Top, Owned

\* A volume is taken for staged only if something is mounted there.
LEMMA IsStagedInv == ASSUME NodeInv, NEW c \in Calls, IsStaged(c) PROVE NodeInv'
<1> DEFINE k == call[c]
<1>1. k.pc = "isStaged" /\ k.op = "stage" /\ k.vol \in Volumes /\ k.path = k.vol
  BY DEF IsStaged, At, NodeInv, Made
<1>2. CASE GetDeviceNameFromMount(k.path).path = k.device
  <2>1. ~overtaken /\ Heard(c) => mounts[k.path] # <<>>
    BY <1>1, <1>2 DEF NodeInv, Fits, CallsCurrent, Current, Heard, GetDeviceNameFromMount
  <2> QED BY <1>1, <1>2, <2>1, SucceedStep, NodeAssumption DEF IsStaged, Ops
<1>3. CASE ~(GetDeviceNameFromMount(k.path).path = k.device)
  <2>1. k \in CallRecord  BY DEF NodeInv, TypeOK
  <2>2. Made([k EXCEPT !.pc = "checkSR"])  BY <1>1, <2>1 DEF NodeInv, Made, CallRecord
  <2> QED BY <1>3, <2>2, GotoStep DEF IsStaged, PC, kubelet
<1> QED BY <1>2, <1>3

\* The SR is checked without a change of the node.
LEMMA CheckSRInv == ASSUME NodeInv, NEW c \in Calls, CheckSR(c) PROVE NodeInv'
<1>1. call[c] \in CallRecord /\ call[c].pc = "checkSR"  BY DEF NodeInv, TypeOK, CheckSR, At
<1>2. Made([call[c] EXCEPT !.pc = "stat"])  BY <1>1 DEF NodeInv, Made, CallRecord
<1> QED BY <1>2, GotoStep, RejectStep DEF CheckSR, PC, kubelet

\* The device file is looked up without a change of the node.
LEMMA StatDeviceInv == ASSUME NodeInv, NEW c \in Calls, StatDevice(c) PROVE NodeInv'
<1>1. call[c] \in CallRecord /\ call[c].pc = "stat"  BY DEF NodeInv, TypeOK, StatDevice, At
<1>2. Made([call[c] EXCEPT !.pc = "format"])  BY <1>1 DEF NodeInv, Made, CallRecord
<1> QED BY <1>2, GotoStep, RejectStep DEF StatDevice, PC, kubelet

\* When the kubelet wants a volume unstaged, its device is mounted there or nowhere:
\* a count above 1 never makes it believe that it was unmounted.
LEMMA RefsOfStaged ==
  ASSUME NodeInv, Fits, NEW v \in Volumes, staged[v] \in {"unstaging", "no"}, mounts[v] # <<>>
  PROVE  GetDeviceNameFromMount(v).ref = 1
<1>1. /\ v \in Paths /\ mounts[v] \in Seq(Mount) /\ Len(mounts[v]) <= 1
  BY DEF NodeInv, TypeOK, Paths, Fits, Once
<1>2. DOMAIN mounts[v] = {1} /\ Head(mounts[v]) = mounts[v][1]
  <2> DEFINE n == Len(mounts[v])
  <2>1. n \in Nat /\ n # 0 /\ n <= 1  BY <1>1, EmptySeq, LenProperties
  <2> HIDE DEF n
  <2>2. n = 1  BY <2>1
  <2>3. DOMAIN mounts[v] = 1..Len(mounts[v])  BY <1>1, LenProperties
  <2>4. 1..1 = {1}  OBVIOUS
  <2>5. Head(mounts[v]) = mounts[v][1]  BY <1>1
  <2> QED BY <2>2, <2>3, <2>4, <2>5 DEF n
<1>3. device[v] # None /\ mounts[v][1].dev = device[v]
  <2>1. VolumeAt(v) = v  BY DEF VolumeAt
  <2>2. device[v] # None /\ mounts[v][1] = DiskAt(v)  BY <1>1, <1>2, <2>1 DEF Fits, Owned
  <2> QED BY <2>1, <2>2 DEF DiskAt
<1>4. ASSUME NEW q \in Paths, NEW i \in DOMAIN mounts[q], mounts[q][i].dev = device[v]
      PROVE  q = v
  <2>1. mounts[q][i].dev = device[VolumeAt(q)]
    <3>1. mounts[q][i] = DiskAt(q)  BY DEF Fits, Owned
    <3> QED BY <3>1 DEF DiskAt
  <2>2. VolumeAt(q) \in Volumes  BY NodeAssumption DEF VolumeAt, Paths
  <2>3. VolumeAt(q) = v  BY <1>3, <1>4, <2>1, <2>2 DEF NodeInv, OneName
  <2>4. ASSUME q \in Targets, q \notin Volumes PROVE FALSE
    <3>1. VolumeOf[q] = v  BY <2>3, <2>4 DEF VolumeAt
    <3>2. mounts[q] = <<>>  BY <2>4, <3>1 DEF Fits, Believed
    <3> QED BY <3>2
  <2> QED BY <2>3, <2>4 DEF VolumeAt, Paths
<1> DEFINE refs == UNION {{q} \X {i \in DOMAIN mounts[q] : mounts[q][i].dev = device[v]} : q \in Paths}
<1>5. refs = {<<v, 1>>}
  <2>1. <<v, 1>> \in refs  BY <1>1, <1>2, <1>3
  <2>2. ASSUME NEW x \in refs PROVE x = <<v, 1>>
    <3>1. PICK q \in Paths :
            x \in {q} \X {i \in DOMAIN mounts[q] : mounts[q][i].dev = device[v]}
      OBVIOUS
    <3>2. PICK i \in DOMAIN mounts[q] : x = <<q, i>> /\ mounts[q][i].dev = device[v]
      BY <3>1
    <3> QED BY <1>2, <1>4, <3>2
  <2> QED BY <2>1, <2>2
<1>6. Cardinality(refs) = 1  BY <1>5, FS_Singleton
<1> QED BY <1>2, <1>3, <1>6 DEF GetDeviceNameFromMount

\* An unstage goes on to its unmount, or answers that it is done.
LEMMA CheckRefsInv == ASSUME NodeInv, NEW c \in Calls, CheckRefs(c) PROVE NodeInv'
<1> DEFINE k == call[c]
           ref == GetDeviceNameFromMount(k.path).ref
<1>1. k.pc = "refs" /\ k.op = "unstage" /\ k.vol \in Volumes /\ k.path = k.vol
  BY DEF CheckRefs, At, NodeInv, Made
<1>2. CASE ref < 1 \/ StillInUse(ref)
  <2>1. ASSUME ~overtaken, Heard(c), mounts[k.path] # <<>> PROVE FALSE
    <3>1. staged[k.vol] \in {"unstaging", "no"}
      BY <1>1, <2>1 DEF NodeInv, Fits, CallsCurrent, Current, Heard
    <3>2. ref = 1  BY <1>1, <2>1, <3>1, RefsOfStaged DEF NodeInv
    <3> QED BY <1>2, <3>2 DEF StillInUse
  <2> QED BY <1>1, <1>2, <2>1, SucceedStep, NodeAssumption DEF CheckRefs, Ops
<1>3. CASE ~(ref < 1 \/ StillInUse(ref))
  <2>1. k \in CallRecord  BY DEF NodeInv, TypeOK
  <2>2. Made([k EXCEPT !.pc = "unmount"])  BY <1>1, <2>1 DEF NodeInv, Made, CallRecord
  <2> QED BY <1>3, <2>2, GotoStep DEF CheckRefs, PC, kubelet
<1> QED BY <1>2, <1>3

\* A publish goes on to its mount, or answers that it is there already.
LEMMA CheckMountPointInv == ASSUME NodeInv, NEW c \in Calls, CheckMountPoint(c) PROVE NodeInv'
<1> DEFINE k == call[c]
<1>1. k.pc = "isMounted" /\ k.op = "publish"  BY DEF CheckMountPoint, At, NodeInv, Made
<1>2. CASE IsMountPoint(c)
  <2>1. mounts[k.path] # <<>>  BY <1>2 DEF IsMountPoint
  <2> QED BY <1>1, <1>2, <2>1, SucceedStep, NodeAssumption DEF CheckMountPoint, Ops
<1>3. CASE ~IsMountPoint(c)
  <2>1. k \in CallRecord  BY DEF NodeInv, TypeOK
  <2>2. Made([k EXCEPT !.pc = "bind"])  BY <1>1, <2>1 DEF NodeInv, Made, CallRecord
  <2> QED BY <1>3, <2>2, GotoStep DEF CheckMountPoint, PC, kubelet
<1> QED BY <1>2, <1>3

-----------------------------------------------------------------------------
(* Handlers that mount and unmount. *)

\* A call that goes on to answer keeps what it is.
LEMMA AnswerMade ==
  ASSUME NodeInv, NEW c \in Calls, call[c].op # None
  PROVE  LET k == [call[c] EXCEPT !.pc = "answer"] IN
         /\ k \in CallRecord /\ Made(k)
         /\ k.op = call[c].op /\ k.pc = "answer" /\ k.vol = call[c].vol /\ k.path = call[c].path
         /\ k.device = call[c].device /\ k.caller = call[c].caller
<1>1. call[c] \in CallRecord /\ Made(call[c])  BY DEF NodeInv, TypeOK
<1> QED BY <1>1 DEF CallRecord, PC, Made

\* The mounts of a path change as the call at work wants them, or it is overtaken.
LEMMA MountStep ==
  ASSUME NodeInv, NEW c \in Calls, call[c].op # None, NEW s \in Seq(Mount),
         mounts' = [mounts EXCEPT ![call[c].path] = s],
         Reject(c) \/ (Goto(c, "answer") /\ UNCHANGED kubelet),
         UNCHANGED device, overtaken' \in BOOLEAN,
         ~overtaken' =>
           /\ ~overtaken /\ call[c].caller # "turned"
           /\ \A i \in DOMAIN s : device[VolumeAt(call[c].path)] # None /\ s[i] = DiskAt(call[c].path)
           /\ call[c].path \in Volumes => Len(s) <= 1
           /\ call[c].op \in {"stage", "publish"} => s # <<>>
           /\ call[c].op \in {"unstage", "unpublish"} =>
                (mounts[call[c].path] = <<>> \/ Goto(c, "answer") => s = <<>>)
  PROVE  NodeInv'
<1> DEFINE p == call[c].path
           o == call[c].op
           a == [call[c] EXCEPT !.pc = "answer"]
<1>1. /\ call[c] \in CallRecord /\ Made(call[c]) /\ call \in [Calls -> CallRecord]
      /\ mounts \in [Paths -> Seq(Mount)] /\ o \in Ops
  BY DEF NodeInv, TypeOK, CallRecord
<1>2. /\ p \in Paths /\ (p \in Volumes <=> o \in {"stage", "unstage"})
      /\ p \in Targets <=> o \in {"publish", "unpublish"}
  BY <1>1, NodeAssumption DEF Made, Paths, Ops
<1>3. \A q \in Paths : mounts'[q] = IF q = p THEN s ELSE mounts[q]  BY <1>1
<1>4. PICK k \in {Idle, a} : call' = [call EXCEPT ![c] = k] /\ (k = a => Goto(c, "answer"))
  BY DEF Reject, Goto
<1>5. /\ k \in CallRecord /\ Made(k)
      /\ k = Idle \/ (/\ k.op = o /\ k.pc = "answer" /\ k.vol = call[c].vol /\ k.path = p
                      /\ k.device = call[c].device /\ k.caller = call[c].caller
                      /\ Goto(c, "answer"))
  BY <1>4, AnswerMade, IdleMade
<1>6. \A e \in Calls : call'[e] = IF e = c THEN k ELSE call[e]  BY <1>1, <1>4
<1>7. UNCHANGED <<staged, pub>>  BY DEF Reject, kubelet
<1> HIDE DEF a, p, o
<1>8. TypeOK'
  <2>1. mounts' \in [Paths -> Seq(Mount)]  BY <1>1
  <2>2. call' \in [Calls -> CallRecord]  BY <1>1, <1>4, <1>5
  <2> QED BY <1>7, <2>1, <2>2 DEF NodeInv, TypeOK
<1>9. OneName'  BY DEF NodeInv, OneName
<1>10. \A e \in Calls : Made(call[e])'  BY <1>5, <1>6 DEF NodeInv, Made
<1>11. ASSUME ~overtaken' PROVE Fits'
  <2>1. /\ ~overtaken /\ call[c].caller # "turned"
        /\ \A i \in DOMAIN s : device[VolumeAt(p)] # None /\ s[i] = DiskAt(p)
        /\ p \in Volumes => Len(s) <= 1
        /\ o \in {"stage", "publish"} => s # <<>>
        /\ o \in {"unstage", "unpublish"} =>
             (mounts[p] = <<>> \/ Goto(c, "answer") => s = <<>>)
    BY <1>11 DEF p, o
  <2>2. Owned /\ Once /\ Believed /\ CallsCurrent /\ Current(call[c])
    BY <2>1 DEF NodeInv, Fits, CallsCurrent
  <2>3. /\ o = "stage" => staged[p] \in {"staging", "yes"}
        /\ o = "unstage" => staged[p] \in {"unstaging", "no"}
        /\ o = "publish" => pub[p] \in {"publishing", "yes"}
        /\ o = "unpublish" => pub[p] \in {"unpublishing", "no"}
    BY <1>1, <2>2 DEF Current, Made, p, o
  <2>4. Owned'
    <3>1. \A q \in Paths : DiskAt(q)' = DiskAt(q)  BY DEF DiskAt, VolumeAt
    <3> QED BY <1>3, <2>1, <2>2, <3>1 DEF Owned, VolumeAt
  <2>5. Once'
    <3>1. Volumes \subseteq Paths  BY DEF Paths
    <3> QED BY <1>3, <2>1, <2>2, <3>1 DEF Once
  <2>6. \A v \in Volumes : /\ staged[v] = "yes" => mounts'[v] # <<>>
                           /\ staged[v] = "no" => mounts'[v] = <<>>
    <3>1. Volumes \subseteq Paths  BY DEF Paths
    <3> QED BY <1>2, <1>3, <2>1, <2>2, <2>3, <3>1 DEF Believed
  <2>7. ASSUME NEW t \in Targets
        PROVE  /\ pub[t] = "yes" => mounts'[t] # <<>>
               /\ pub[t] = "no" => mounts'[t] = <<>>
    <3>1. t \in Paths  BY DEF Paths
    <3> QED BY <1>1, <1>2, <1>3, <2>1, <2>2, <2>3, <3>1 DEF Believed, Ops
  <2>8. ASSUME NEW t \in Targets, pub[t] # "no"
        PROVE  staged[VolumeOf[t]] \in {"staging", "yes"} /\ mounts'[VolumeOf[t]] # <<>>
    <3>1. VolumeOf[t] \in Volumes /\ VolumeOf[t] \in Paths  BY NodeAssumption DEF Paths
    <3>2. staged[VolumeOf[t]] \in {"staging", "yes"} /\ mounts[VolumeOf[t]] # <<>>
      BY <2>2, <2>8 DEF Believed
    <3> QED BY <1>2, <1>3, <2>1, <2>3, <3>1, <3>2
  <2>9. Believed'  BY <1>7, <2>6, <2>7, <2>8 DEF Believed
  <2>10. ASSUME NEW e \in Calls, call'[e].caller # "turned" PROVE Current(call[e])'
    <3>1. CASE e = c /\ k = Idle
      BY <1>6, <3>1, NodeAssumption DEF Current, Idle, Ops
    <3>2. CASE e = c /\ k # Idle
      <4>1. /\ call'[e].op = o /\ call'[e].pc = "answer" /\ call'[e].vol = call[c].vol
            /\ call'[e].path = p /\ call'[e].device = call[c].device /\ Goto(c, "answer")
        BY <1>5, <1>6, <3>2
      <4>2. mounts'[p] = <<>> <=> o \in {"unstage", "unpublish"}
        BY <1>1, <1>2, <1>3, <2>1, <4>1 DEF Ops
      <4> QED BY <1>7, <2>2, <4>1, <4>2 DEF Current, p, o
    <3>3. CASE e # c
      <4>1. call'[e] = call[e] /\ Current(call[e]) /\ Made(call[e]) /\ call[e] \in CallRecord
        BY <1>1, <1>6, <2>2, <2>10, <3>3 DEF CallsCurrent, NodeInv
      <4>2. ASSUME call[e].pc = "answer"
            PROVE  mounts'[call[e].path] = <<>> <=> call[e].op \in {"unstage", "unpublish"}
        <5>1. call[e].op \in Ops /\ call[e].path \in Paths
          BY <4>1, <4>2 DEF Made, CallRecord, Paths, Ops
        <5>2. mounts[call[e].path] = <<>> <=> call[e].op \in {"unstage", "unpublish"}
          BY <4>1, <4>2 DEF Current
        <5>3. CASE call[e].path # p  BY <1>3, <5>1, <5>2, <5>3
        <5>4. CASE call[e].path = p
          <6>1. call[e].op \in {"stage", "unstage"} <=> p \in Volumes
            BY <4>1, <5>1, <5>4, NodeAssumption DEF Made, Ops
          <6>2. call[e].op \in {"unstage", "unpublish"} <=> o \in {"unstage", "unpublish"}
            BY <1>1, <1>2, <2>3, <4>1, <5>1, <5>4, <6>1 DEF Current, Made, Ops
          <6> QED BY <1>1, <1>2, <1>3, <2>1, <5>2, <5>4, <6>2 DEF Ops
        <5> QED BY <5>3, <5>4
      <4> QED BY <1>7, <4>1, <4>2 DEF Current
    <3> QED BY <3>1, <3>2, <3>3
  <2> QED BY <2>4, <2>5, <2>9, <2>10 DEF Fits, CallsCurrent
<1> QED BY <1>8, <1>9, <1>10, <1>11 DEF NodeInv

\* A volume is formatted and mounted where nothing is, from its own device.
LEMMA FormatAndMountInv == ASSUME NodeInv, NEW c \in Calls, FormatAndMount(c) PROVE NodeInv'
<1> DEFINE k == call[c]
           fresh == {m \in [dev : {k.device}, vol : PluggedAs(k.device)] : m # Top(k.path)}
<1>1. /\ k.op = "stage" /\ k.vol \in Volumes /\ k.path = k.vol /\ k.op # None
      /\ mounts[k.path] \in Seq(Mount) /\ k \in CallRecord /\ k.path \in Paths
      /\ device \in [Volumes -> Devices \cup {None}] /\ mounts \in [Paths -> Seq(Mount)]
      /\ overtaken \in BOOLEAN
  BY NodeAssumption DEF FormatAndMount, At, NodeInv, Made, TypeOK, Ops, Paths
<1>2. overtaken' = (overtaken \/ (k.caller = "turned" /\ mounts' # mounts)) /\ UNCHANGED device
  BY DEF FormatAndMount, Overtaking
<1>3. CASE Reject(c) /\ UNCHANGED mounts  BY <1>1, <1>2, <1>3, RejectStep
<1>4. ASSUME NEW m \in fresh, MountOn(k.path, m), Goto(c, "answer"), UNCHANGED kubelet
      PROVE  NodeInv'
  <2> DEFINE s == Append(mounts[k.path], m)
  <2>1. m \in Mount /\ m.dev = k.device /\ m.vol \in PluggedAs(k.device) /\ m # Top(k.path)
    <3>1. k.device \in Devices \cup {None}  BY <1>1 DEF CallRecord
    <3> QED BY <3>1 DEF Mount, PluggedAs
  <2>2. /\ s \in Seq(Mount) /\ Len(s) = Len(mounts[k.path]) + 1 /\ s # <<>>
        /\ s[Len(mounts[k.path]) + 1] = m /\ Len(mounts[k.path]) \in Nat
        /\ DOMAIN s = 1..Len(s)
    <3>1. m \in Mount  BY <2>1
    <3>2. mounts[k.path] \in Seq(Mount)  BY <1>1
    <3> HIDE DEF fresh
    <3> QED BY <3>1, <3>2, AppendProperties, LenProperties
  <2>3. mounts' = [mounts EXCEPT ![k.path] = s]  BY <1>4 DEF MountOn
  <2>4. mounts' # mounts
    <3>1. mounts'[k.path] = s  BY <1>1, <2>3
    <3>2. s # mounts[k.path]  BY <2>2
    <3> QED BY <3>1, <3>2
  <2>5. ASSUME ~overtaken'
        PROVE  /\ ~overtaken /\ k.caller # "turned"
               /\ \A i \in DOMAIN s : device[VolumeAt(k.path)] # None /\ s[i] = DiskAt(k.path)
               /\ Len(s) <= 1
    <3>1. ~overtaken /\ k.caller # "turned"  BY <1>2, <2>4, <2>5
    <3>2. Owned /\ Current(k)  BY <3>1 DEF NodeInv, Fits, CallsCurrent
    <3>3. k.device = device[k.vol] /\ k.device # None  BY <1>1, <3>2 DEF Current
    <3>4. VolumeAt(k.path) = k.vol  BY <1>1 DEF VolumeAt
    <3>5. m.vol = k.vol  BY <1>1, <2>1, <3>3 DEF PluggedAs, NodeInv, OneName
    <3>6. m = DiskAt(k.path)  BY <2>1, <3>3, <3>4, <3>5 DEF DiskAt, Mount
    <3>7. mounts[k.path] = <<>>  BY <1>1, <2>1, <3>2, <3>6, TopIsDisk
    <3>8. Len(mounts[k.path]) = 0  BY <3>7, EmptySeq
    <3>9. Len(s) = 1 /\ s[1] = m  BY <2>2, <3>8
    <3> HIDE DEF s
    <3>10. \A i \in DOMAIN s : i = 1
      <4>1. DOMAIN s = 1..1  BY <2>2, <3>9
      <4> QED BY <4>1
    <3> QED BY <3>1, <3>3, <3>4, <3>6, <3>9, <3>10
  <2> HIDE DEF s
  <2> QED BY <1>1, <1>2, <1>4, <2>2, <2>3, <2>5, MountStep
<1> QED BY <1>3, <1>4 DEF FormatAndMount

\* A pod gets what the staging path of its volume shows.
LEMMA BindMountInv == ASSUME NodeInv, NEW c \in Calls, BindMount(c) PROVE NodeInv'
<1> DEFINE k == call[c]
           m == Top(k.vol)
           s == Append(mounts[k.path], m)
<1>1. /\ k.op = "publish" /\ k.path \in Targets /\ k.vol = VolumeOf[k.path] /\ k.op # None
      /\ k.vol \in Volumes /\ k.vol \in Paths /\ k.path \in Paths /\ k.path \notin Volumes
      /\ mounts[k.path] \in Seq(Mount) /\ mounts[k.vol] \in Seq(Mount)
      /\ mounts \in [Paths -> Seq(Mount)] /\ overtaken \in BOOLEAN
  BY NodeAssumption DEF BindMount, At, NodeInv, Made, TypeOK, Ops, Paths
<1>2. /\ overtaken' = (overtaken \/ (k.caller = "turned" /\ mounts' # mounts))
      /\ UNCHANGED device /\ Goto(c, "answer") /\ UNCHANGED kubelet
      /\ mounts' = [mounts EXCEPT ![k.path] = s]
  BY DEF BindMount, Overtaking, MountOn, Source
<1>3. m \in Mount
  <2>1. CASE mounts[k.vol] = <<>>  BY <2>1 DEF Top, Mount
  <2>2. CASE mounts[k.vol] # <<>>
    <3>1. Len(mounts[k.vol]) \in 1..Len(mounts[k.vol])
      BY <1>1, <2>2, EmptySeq, LenProperties
    <3>2. mounts[k.vol] \in [1..Len(mounts[k.vol]) -> Mount]  BY <1>1, LenProperties
    <3> QED BY <2>2, <3>1, <3>2 DEF Top
  <2> QED BY <2>1, <2>2
<1>4. /\ s \in Seq(Mount) /\ Len(s) = Len(mounts[k.path]) + 1 /\ s # <<>>
      /\ s[Len(mounts[k.path]) + 1] = m /\ Len(mounts[k.path]) \in Nat
      /\ \A i \in 1..Len(mounts[k.path]) : s[i] = mounts[k.path][i]
      /\ DOMAIN s = 1..Len(s) /\ DOMAIN mounts[k.path] = 1..Len(mounts[k.path])
  BY <1>1, <1>3, AppendProperties, LenProperties
<1>5. mounts' # mounts
  <2>1. mounts'[k.path] = s  BY <1>1, <1>2
  <2>2. s # mounts[k.path]  BY <1>4
  <2> QED BY <2>1, <2>2
<1> HIDE DEF s
<1>6. ASSUME ~overtaken'
      PROVE  /\ ~overtaken /\ k.caller # "turned"
             /\ \A i \in DOMAIN s : device[VolumeAt(k.path)] # None /\ s[i] = DiskAt(k.path)
  <2>1. ~overtaken /\ k.caller # "turned"  BY <1>2, <1>5, <1>6
  <2>2. Owned /\ Current(k) /\ Believed  BY <2>1 DEF NodeInv, Fits, CallsCurrent
  <2>3. pub[k.path] \in {"publishing", "yes"}  BY <1>1, <2>2 DEF Current
  <2>4. mounts[k.vol] # <<>>  BY <1>1, <2>2, <2>3 DEF Believed
  <2>5. m = DiskAt(k.vol) /\ device[VolumeAt(k.vol)] # None
    BY <1>1, <2>2, <2>4, TopIsDisk
  <2>6. VolumeAt(k.path) = k.vol /\ VolumeAt(k.vol) = k.vol  BY <1>1 DEF VolumeAt
  <2>7. m = DiskAt(k.path) /\ device[VolumeAt(k.path)] # None  BY <2>5, <2>6 DEF DiskAt
  <2>8. ASSUME NEW i \in DOMAIN s PROVE s[i] = DiskAt(k.path)
    <3>1. CASE i = Len(mounts[k.path]) + 1  BY <1>4, <2>7, <3>1
    <3>2. CASE i # Len(mounts[k.path]) + 1
      <4>1. i \in DOMAIN mounts[k.path] /\ s[i] = mounts[k.path][i]  BY <1>4, <3>2
      <4> QED BY <1>1, <2>2, <4>1 DEF Owned
    <3> QED BY <3>1, <3>2
  <2> QED BY <2>1, <2>7, <2>8
<1> QED BY <1>1, <1>2, <1>4, <1>6, MountStep

\* The last mount of a path is taken away.
LEMMA UnmountInv == ASSUME NodeInv, NEW c \in Calls, Unmount(c) PROVE NodeInv'
<1> DEFINE k == call[c]
           p == call[c].path
           n == Len(mounts[p])
           s == SubSeq(mounts[p], 1, n - 1)
<1>1. /\ k.op \in {"unstage", "unpublish"} /\ p \in Paths /\ k.op # None
      /\ mounts[p] \in Seq(Mount) /\ mounts \in [Paths -> Seq(Mount)] /\ overtaken \in BOOLEAN
  BY NodeAssumption DEF Unmount, At, NodeInv, Made, TypeOK, Ops, Paths
<1>2. /\ overtaken' = (overtaken \/ (k.caller = "turned" /\ mounts' # mounts))
      /\ UNCHANGED device
  BY DEF Unmount, Overtaking
<1>3. CASE mounts[p] = <<>>
  <2>1. Succeed(c) /\ UNCHANGED <<device, mounts, overtaken>>
    BY <1>1, <1>2, <1>3 DEF Unmount, NothingMounted
  <2> QED BY <1>1, <1>3, <2>1, SucceedStep
<1>4. CASE mounts[p] # <<>>
  <2>1. /\ mounts' = [mounts EXCEPT ![p] = s]
        /\ IF n = 1 THEN Goto(c, "answer") /\ UNCHANGED kubelet ELSE Reject(c)
    BY <1>4 DEF Unmount
  <2>2. n \in Nat \ {0} /\ DOMAIN mounts[p] = 1..n /\ mounts[p] \in [1..n -> Mount]
    BY <1>1, <1>4, EmptySeq, LenProperties
  <2>3. \A i \in 1..(n - 1) : mounts[p][i] \in Mount  BY <2>2
  <2> HIDE DEF n
  <2>4. /\ s \in Seq(Mount) /\ Len(s) = IF 1 <= n - 1 THEN (n - 1) - 1 + 1 ELSE 0
        /\ \A i \in 1..((n - 1) - 1 + 1) : s[i] = mounts[p][1 + i - 1]
    BY <2>2, <2>3, SubSeqProperties
  <2>5. Len(s) = n - 1 /\ (\A i \in 1..(n - 1) : s[i] = mounts[p][i])  BY <2>2, <2>4
  <2>6. DOMAIN s = 1..(n - 1)  BY <2>4, <2>5, LenProperties
  <2>7. mounts' # mounts
    <3>1. mounts'[p] = s  BY <1>1, <2>1
    <3>2. Len(s) # n  BY <2>2, <2>5
    <3> QED BY <3>1, <3>2 DEF n
  <2>8. n = 1 => s = <<>>
    <3>1. s # <<>> => Len(s) \in Nat \ {0}  BY <2>4, EmptySeq
    <3> QED BY <2>5, <3>1
  <2>9. Reject(c) => ~Goto(c, "answer")
    <3>1. call \in [Calls -> CallRecord]  BY DEF NodeInv, TypeOK
    <3> QED BY <3>1 DEF Reject, Goto, Idle, CallRecord
  <2> HIDE DEF s
  <2>10. ASSUME ~overtaken'
         PROVE  /\ ~overtaken /\ k.caller # "turned"
                /\ \A i \in DOMAIN s : device[VolumeAt(p)] # None /\ s[i] = DiskAt(p)
                /\ p \in Volumes => Len(s) <= 1
    <3>1. ~overtaken /\ k.caller # "turned"  BY <1>2, <2>7, <2>10
    <3>2. Owned /\ Once  BY <3>1 DEF NodeInv, Fits
    <3>3. p \in Volumes => n <= 1  BY <3>2 DEF Once, n
    <3>4. \A i \in DOMAIN s : i \in DOMAIN mounts[p] /\ s[i] = mounts[p][i]
      BY <2>2, <2>5, <2>6
    <3> QED BY <1>1, <2>2, <2>5, <3>1, <3>2, <3>3, <3>4 DEF Owned
  <2>11. Reject(c) \/ (Goto(c, "answer") /\ UNCHANGED kubelet)  BY <2>1
  <2>12. Goto(c, "answer") => s = <<>>  BY <2>1, <2>8, <2>9
  <2> QED BY <1>1, <1>2, <1>4, <2>1, <2>4, <2>10, <2>11, <2>12, MountStep
<1> QED BY <1>3, <1>4

\* Every request of a handler keeps the invariant.
LEMMA HandleInv == ASSUME NodeInv, NEW c \in Calls, Handle(c) PROVE NodeInv'
BY IsStagedInv, CheckSRInv, StatDeviceInv, FormatAndMountInv, CheckRefsInv, UnmountInv,
   CheckMountPointInv, BindMountInv, AnswerInv DEF Handle

-----------------------------------------------------------------------------
(* The kubelet asks. *)

\* A new call turns those for its path that work against it.
LEMMA StartCalls ==
  ASSUME NodeInv, NEW c \in Calls, NEW op \in Ops, NEW v \in Volumes, NEW p \in Paths,
         NEW pc \in PC, Start(c, op, v, p, pc)
  PROVE  LET k == [op |-> op, pc |-> pc, vol |-> v, path |-> p, caller |-> "waits",
                   device |-> IF op = "stage" THEN device[v] ELSE None] IN
         /\ call' \in [Calls -> CallRecord] /\ k \in CallRecord
         /\ Made(k) => \A e \in Calls : Made(call'[e])
         /\ \A e \in Calls : call'[e].caller # "turned" =>
              \/ call'[e] = k
              \/ /\ call'[e] = call[e] /\ call[e] \in CallRecord /\ Made(call[e])
                 /\ call[e].path = p => call[e].op = op
                 /\ ~overtaken => Current(call[e])
         /\ ~overtaken /\ UNCHANGED <<device, mounts, overtaken>>
<1> DEFINE k == [op |-> op, pc |-> pc, vol |-> v, path |-> p, caller |-> "waits",
                 device |-> IF op = "stage" THEN device[v] ELSE None]
           turns(e) == call[e].path = p /\ call[e].op # op
           n(e) == IF e = c THEN k
                   ELSE IF turns(e) THEN [call[e] EXCEPT !.caller = "turned"] ELSE call[e]
<1>1. call \in [Calls -> CallRecord] /\ device \in [Volumes -> Devices \cup {None}]
  BY DEF NodeInv, TypeOK
<1>2. k \in CallRecord  BY <1>1 DEF CallRecord, Caller
<1>3. call' = [e \in Calls |-> n(e)]  BY DEF Start
<1>4. ~overtaken /\ UNCHANGED <<device, mounts, overtaken>>  BY DEF Start
<1> HIDE DEF k
<1>5. ASSUME NEW e \in Calls
      PROVE  /\ n(e) \in CallRecord /\ (Made(k) => Made(n(e)))
             /\ n(e).caller # "turned" =>
                  \/ n(e) = k
                  \/ n(e) = call[e] /\ ~turns(e) /\ (~overtaken => Current(call[e]))
  <2>1. CASE e = c  BY <1>2, <2>1
  <2>2. CASE e # c /\ turns(e)
    <3> DEFINE m == [call[e] EXCEPT !.caller = "turned"]
    <3>1. call[e] \in CallRecord /\ Made(call[e])  BY <1>1 DEF NodeInv
    <3>2. /\ m \in CallRecord /\ m.caller = "turned"
          /\ m.op = call[e].op /\ m.pc = call[e].pc /\ m.vol = call[e].vol /\ m.path = call[e].path
      BY <3>1 DEF CallRecord, Caller
    <3> HIDE DEF m
    <3>3. Made(m)  BY <3>1, <3>2 DEF Made
    <3>4. n(e) = m  BY <2>2 DEF m
    <3> QED BY <3>2, <3>3, <3>4
  <2>3. CASE e # c /\ ~turns(e)
    <3>1. call[e] \in CallRecord /\ Made(call[e])  BY <1>1 DEF NodeInv
    <3>2. n(e) = call[e]  BY <2>3
    <3>3. ~overtaken /\ call[e].caller # "turned" => Current(call[e])
      BY DEF NodeInv, Fits, CallsCurrent
    <3> QED BY <2>3, <3>1, <3>2, <3>3
  <2> QED BY <2>1, <2>2, <2>3
<1> HIDE DEF n
<1>6. call' \in [Calls -> CallRecord] /\ \A e \in Calls : call'[e] = n(e)  BY <1>3, <1>5
<1>7. \A e \in Calls : call[e] \in CallRecord /\ Made(call[e])  BY <1>1 DEF NodeInv
<1> QED BY <1>2, <1>4, <1>5, <1>6, <1>7 DEF k

\* What Start leaves to be shown of a call: the kubelet's beliefs, and that it and
\* the calls of its kind are current.
LEMMA StartStep ==
  ASSUME NodeInv, NEW c \in Calls, NEW op \in Ops, NEW v \in Volumes, NEW p \in Paths,
         NEW pc \in PC \ {"idle", "answer"}, Start(c, op, v, p, pc),
         Made([op |-> op, pc |-> pc, vol |-> v, path |-> p, caller |-> "waits",
               device |-> IF op = "stage" THEN device[v] ELSE None]),
         staged' \in [Volumes -> {"no", "staging", "yes", "unstaging"}],
         pub' \in [Targets -> {"no", "publishing", "yes", "unpublishing"}],
         Believed',
         \A q \in Volumes : q # p => staged'[q] = staged[q],
         \A q \in Targets : q # p => pub'[q] = pub[q],
         op = "stage" => staged'[p] \in {"staging", "yes"} /\ device[v] # None,
         op = "unstage" => staged'[p] \in {"unstaging", "no"},
         op = "publish" => pub'[p] \in {"publishing", "yes"},
         op = "unpublish" => pub'[p] \in {"unpublishing", "no"}
  PROVE  NodeInv'
<1> DEFINE k == [op |-> op, pc |-> pc, vol |-> v, path |-> p, caller |-> "waits",
                 device |-> IF op = "stage" THEN device[v] ELSE None]
<1>1. /\ call' \in [Calls -> CallRecord]
      /\ \A e \in Calls : Made(call'[e])
      /\ \A e \in Calls : call'[e].caller # "turned" =>
           \/ call'[e] = k
           \/ /\ call'[e] = call[e] /\ call[e] \in CallRecord /\ Made(call[e])
              /\ call[e].path = p => call[e].op = op
              /\ ~overtaken => Current(call[e])
      /\ ~overtaken /\ UNCHANGED <<device, mounts, overtaken>>
  BY StartCalls
<1>2. TypeOK' /\ OneName'  BY <1>1 DEF NodeInv, TypeOK, OneName
<1>3. \A e \in Calls : Made(call[e])'  BY <1>1 DEF Made
<1>4. Owned' /\ Once'  BY <1>1 DEF NodeInv, Fits, Owned, Once, DiskAt, VolumeAt
<1>5. ASSUME NEW e \in Calls, call'[e].caller # "turned" PROVE Current(call[e])'
  <2>1. CASE call'[e] = k
    <3>1. Made(k) /\ k.op = op /\ k.pc = pc /\ k.vol = v /\ k.path = p
          /\ (op = "stage" => k.device = device[v])
      OBVIOUS
    <3> HIDE DEF k
    <3> QED BY <1>1, <2>1, <3>1 DEF Current, Made
  <2>2. CASE call'[e] # k
    <3>1. /\ call'[e] = call[e] /\ call[e] \in CallRecord /\ Made(call[e]) /\ Current(call[e])
          /\ call[e].path = p => call[e].op = op
      BY <1>1, <1>5, <2>2
    <3> HIDE DEF k
    <3> QED BY <1>1, <3>1 DEF Current, Made
  <2> QED BY <2>1, <2>2
<1> QED BY <1>1, <1>2, <1>3, <1>4, <1>5 DEF NodeInv, Fits, CallsCurrent

\* The kubelet stages a volume that is attached.
LEMMA StartStageInv ==
  ASSUME NodeInv, NEW c \in Calls, NEW v \in Volumes, StartStage(c, v) PROVE NodeInv'
<1>1. /\ Start(c, "stage", v, v, "isStaged") /\ device[v] # None /\ staged[v] # "unstaging"
      /\ staged' = [staged EXCEPT ![v] = "staging"] /\ UNCHANGED <<pub, mounts>>
      /\ ~overtaken
  BY DEF StartStage, Start
<1>2. /\ staged \in [Volumes -> {"no", "staging", "yes", "unstaging"}]
      /\ pub \in [Targets -> {"no", "publishing", "yes", "unpublishing"}]
  BY DEF NodeInv, TypeOK
<1>3. \A w \in Volumes : staged'[w] = IF w = v THEN "staging" ELSE staged[w]  BY <1>1, <1>2
<1>4. Believed'
  <2>1. \A t \in Targets : VolumeOf[t] \in Volumes  BY NodeAssumption
  <2> QED BY <1>1, <1>3, <2>1 DEF Believed, NodeInv, Fits
<1>5. Made([op |-> "stage", pc |-> "isStaged", vol |-> v, path |-> v, caller |-> "waits",
            device |-> IF "stage" = "stage" THEN device[v] ELSE None])
  BY DEF Made
<1> QED BY <1>1, <1>2, <1>3, <1>4, <1>5, StartStep DEF Ops, PC, Paths

\* The kubelet unstages a volume without pods.
LEMMA StartUnstageInv ==
  ASSUME NodeInv, NEW c \in Calls, NEW v \in Volumes, StartUnstage(c, v) PROVE NodeInv'
<1>1. /\ Start(c, "unstage", v, v, "refs") /\ staged[v] # "no"
      /\ \A t \in TargetsOf(v) : pub[t] = "no"
      /\ staged' = [staged EXCEPT ![v] = "unstaging"] /\ UNCHANGED <<pub, mounts>>
      /\ ~overtaken
  BY DEF StartUnstage, Start
<1>2. /\ staged \in [Volumes -> {"no", "staging", "yes", "unstaging"}]
      /\ pub \in [Targets -> {"no", "publishing", "yes", "unpublishing"}]
  BY DEF NodeInv, TypeOK
<1>3. \A w \in Volumes : staged'[w] = IF w = v THEN "unstaging" ELSE staged[w]  BY <1>1, <1>2
<1>4. Believed'
  <2>1. \A t \in Targets : VolumeOf[t] \in Volumes /\ (pub[t] # "no" => VolumeOf[t] # v)
    BY <1>1, NodeAssumption DEF TargetsOf
  <2> QED BY <1>1, <1>3, <2>1 DEF Believed, NodeInv, Fits
<1>5. Made([op |-> "unstage", pc |-> "refs", vol |-> v, path |-> v, caller |-> "waits",
            device |-> IF "unstage" = "stage" THEN device[v] ELSE None])
  BY DEF Made
<1> QED BY <1>1, <1>2, <1>3, <1>4, <1>5, StartStep DEF Ops, PC, Paths

\* The kubelet publishes a volume that is staged.
LEMMA StartPublishInv ==
  ASSUME NodeInv, NEW c \in Calls, NEW t \in Targets, StartPublish(c, t) PROVE NodeInv'
<1>1. /\ Start(c, "publish", VolumeOf[t], t, "isMounted") /\ staged[VolumeOf[t]] = "yes"
      /\ pub[t] # "unpublishing"
      /\ pub' = [pub EXCEPT ![t] = "publishing"] /\ UNCHANGED <<staged, mounts>>
      /\ ~overtaken
  BY DEF StartPublish, Start
<1>2. /\ staged \in [Volumes -> {"no", "staging", "yes", "unstaging"}]
      /\ pub \in [Targets -> {"no", "publishing", "yes", "unpublishing"}]
      /\ VolumeOf[t] \in Volumes
  BY NodeAssumption DEF NodeInv, TypeOK
<1>3. \A u \in Targets : pub'[u] = IF u = t THEN "publishing" ELSE pub[u]  BY <1>1, <1>2
<1>4. Believed'  BY <1>1, <1>2, <1>3 DEF Believed, NodeInv, Fits
<1>5. Made([op |-> "publish", pc |-> "isMounted", vol |-> VolumeOf[t], path |-> t,
            caller |-> "waits",
            device |-> IF "publish" = "stage" THEN device[VolumeOf[t]] ELSE None])
  BY DEF Made
<1> QED BY <1>1, <1>2, <1>3, <1>4, <1>5, StartStep DEF Ops, PC, Paths

\* The kubelet unpublishes a volume from one pod.
LEMMA StartUnpublishInv ==
  ASSUME NodeInv, NEW c \in Calls, NEW t \in Targets, StartUnpublish(c, t) PROVE NodeInv'
<1>1. /\ Start(c, "unpublish", VolumeOf[t], t, "unmount") /\ pub[t] # "no"
      /\ pub' = [pub EXCEPT ![t] = "unpublishing"] /\ UNCHANGED <<staged, mounts>>
      /\ ~overtaken
  BY DEF StartUnpublish, Start
<1>2. /\ staged \in [Volumes -> {"no", "staging", "yes", "unstaging"}]
      /\ pub \in [Targets -> {"no", "publishing", "yes", "unpublishing"}]
      /\ VolumeOf[t] \in Volumes
  BY NodeAssumption DEF NodeInv, TypeOK
<1>3. \A u \in Targets : pub'[u] = IF u = t THEN "unpublishing" ELSE pub[u]  BY <1>1, <1>2
<1>4. Believed'  BY <1>1, <1>2, <1>3 DEF Believed, NodeInv, Fits
<1>5. Made([op |-> "unpublish", pc |-> "unmount", vol |-> VolumeOf[t], path |-> t,
            caller |-> "waits",
            device |-> IF "unpublish" = "stage" THEN device[VolumeOf[t]] ELSE None])
  BY DEF Made
<1> QED BY <1>1, <1>2, <1>3, <1>4, <1>5, StartStep DEF Ops, PC, Paths

\* Whatever the kubelet asks for keeps the invariant.
LEMMA AskInv == ASSUME NodeInv, NEW c \in Calls, Ask(c) PROVE NodeInv'
BY StartStageInv, StartUnstageInv, StartPublishInv, StartUnpublishInv DEF Ask

-----------------------------------------------------------------------------
(* The controller plugs disks in and out. *)

\* The device of a disk changes that nobody has mounted or is about to mount.
LEMMA PlugStep ==
  ASSUME NodeInv, NEW v \in Volumes, NEW d \in Devices \cup {None},
         device' = [device EXCEPT ![v] = d], OneName',
         UNCHANGED <<mounts, call, staged, pub, overtaken>>,
         ~overtaken => /\ \A p \in Paths : VolumeAt(p) = v => mounts[p] = <<>>
                       /\ staged[v] \in {"staging", "yes"} => device[v] = None
  PROVE  NodeInv'
<1>1. device \in [Volumes -> Devices \cup {None}]  BY DEF NodeInv, TypeOK
<1>2. \A w \in Volumes : w # v => device'[w] = device[w]  BY <1>1
<1>3. TypeOK'  BY <1>1 DEF NodeInv, TypeOK
<1>4. \A e \in Calls : Made(call[e])'  BY DEF NodeInv, Made
<1>5. ASSUME ~overtaken PROVE Fits'
  <2>1. Once' /\ Believed'  BY <1>5 DEF NodeInv, Fits, Once, Believed
  <2>2. Owned'
    <3> SUFFICES ASSUME NEW p \in Paths, NEW i \in DOMAIN mounts[p]
                 PROVE  device'[VolumeAt(p)] # None /\ mounts[p][i] = DiskAt(p)'
      BY DEF Owned, VolumeAt
    <3>1. VolumeAt(p) # v /\ VolumeAt(p) \in Volumes
      BY <1>5, NodeAssumption DEF VolumeAt, Paths
    <3>2. device'[VolumeAt(p)] = device[VolumeAt(p)]  BY <1>2, <3>1
    <3>3. DiskAt(p)' = DiskAt(p)  BY <3>2 DEF DiskAt, VolumeAt
    <3> QED BY <1>5, <3>2, <3>3 DEF NodeInv, Fits, Owned
  <2>3. ASSUME NEW e \in Calls, call[e].caller # "turned" PROVE Current(call[e])'
    <3>1. Current(call[e]) /\ Made(call[e])  BY <1>5, <2>3 DEF NodeInv, Fits, CallsCurrent
    <3>2. call[e].op = "stage" => call[e].vol # v /\ call[e].vol \in Volumes
      BY <1>5, <3>1 DEF Current, Made
    <3> QED BY <1>2, <3>1, <3>2 DEF Current
  <2> QED BY <2>1, <2>2, <2>3 DEF Fits, CallsCurrent
<1> QED BY <1>3, <1>4, <1>5 DEF NodeInv

\* A disk is plugged under a device name that no mount shows.
LEMMA AttachInv ==
  ASSUME NodeInv, NEW v \in Volumes, NEW d \in Devices, Attach(v, d) PROVE NodeInv'
<1>1. /\ device[v] = None /\ PluggedAs(d) = {} /\ device' = [device EXCEPT ![v] = d]
      /\ UNCHANGED <<mounts, call, staged, pub, overtaken>>
  BY DEF Attach, kubelet
<1>2. OneName'
  <2>1. device \in [Volumes -> Devices \cup {None}]  BY DEF NodeInv, TypeOK
  <2>2. \A w \in Volumes : device'[w] = IF w = v THEN d ELSE device[w]  BY <1>1, <2>1
  <2>3. \A w \in Volumes : device[w] # d  BY <1>1 DEF PluggedAs
  <2> QED BY <2>2, <2>3 DEF OneName, NodeInv
<1>3. ASSUME ~overtaken, NEW p \in Paths, VolumeAt(p) = v PROVE mounts[p] = <<>>
  <2>1. Owned /\ mounts[p] \in Seq(Mount)  BY <1>3 DEF NodeInv, Fits, TypeOK
  <2>2. mounts[p] # <<>> => 1 \in DOMAIN mounts[p]  BY <2>1, EmptySeq, LenProperties
  <2> QED BY <1>1, <1>3, <2>1, <2>2 DEF Owned
<1> QED BY <1>1, <1>2, <1>3, PlugStep

\* A disk is unplugged when nothing of it is mounted.
LEMMA DetachInv == ASSUME NodeInv, NEW v \in Volumes, Detach(v) PROVE NodeInv'
<1>1. /\ staged[v] = "no" /\ device' = [device EXCEPT ![v] = None]
      /\ UNCHANGED <<mounts, call, staged, pub, overtaken>>
  BY DEF Detach, kubelet
<1>2. OneName'
  <2>1. device \in [Volumes -> Devices \cup {None}]  BY DEF NodeInv, TypeOK
  <2>2. \A w \in Volumes : device'[w] = IF w = v THEN None ELSE device[w]  BY <1>1, <2>1
  <2> QED BY <2>2 DEF OneName, NodeInv
<1>3. ASSUME ~overtaken, NEW p \in Paths, VolumeAt(p) = v PROVE mounts[p] = <<>>
  <2>1. CASE p \in Volumes  BY <1>1, <1>3, <2>1 DEF NodeInv, Fits, Believed, VolumeAt
  <2>2. CASE p \in Targets /\ p \notin Volumes
    <3>1. VolumeOf[p] = v  BY <1>3, <2>2 DEF VolumeAt
    <3> QED BY <1>1, <1>3, <2>2, <3>1 DEF NodeInv, Fits, Believed
  <2> QED BY <2>1, <2>2 DEF Paths
<1> QED BY <1>1, <1>2, <1>3, PlugStep

-----------------------------------------------------------------------------
(* The node service alone, and in its process. *)

\* Nothing is mounted and nobody calls.
Empty ==
  /\ device \in [Volumes -> Devices \cup {None}] /\ OneName
  /\ mounts = [p \in Paths |-> <<>>] /\ call = [c \in Calls |-> Idle]
  /\ staged = [v \in Volumes |-> "no"] /\ pub = [t \in Targets |-> "no"]
  /\ overtaken = FALSE

\* A node without mounts and calls satisfies the invariant.
LEMMA EmptyInv == Empty => NodeInv
<1> SUFFICES ASSUME Empty PROVE NodeInv  OBVIOUS
<1>1. <<>> \in Seq(Mount) /\ Len(<<>>) = 0 /\ DOMAIN <<>> = {}
  <2>1. <<>> \in Seq(Mount) /\ Len(<<>>) = 0  BY EmptySeq
  <2>2. DOMAIN <<>> = {}  OBVIOUS
  <2> QED BY <2>1, <2>2
<1>2. \A p \in Paths : mounts[p] = <<>>  BY DEF Empty
<1>3. TypeOK  BY <1>1, IdleMade DEF TypeOK, Empty
<1>4. \A c \in Calls : Made(call[c]) /\ Current(call[c])  BY IdleMade DEF Empty
<1>5. Owned  BY <1>1, <1>2 DEF Owned
<1>6. Once
  <2>1. \A v \in Volumes : mounts[v] = <<>>  BY <1>2 DEF Paths
  <2> QED BY <1>1, <2>1 DEF Once
<1>7. Believed  BY <1>2 DEF Believed, Paths, Empty
<1> QED BY <1>3, <1>4, <1>5, <1>6, <1>7 DEF NodeInv, Fits, CallsCurrent, Empty

\* It starts as such a node.
LEMMA InitInv == Init => NodeInv
BY EmptyInv DEF Init, OneName, Empty

\* It is such a node after a reboot.
LEMMA RebootInv == ASSUME NodeInv, Reboot PROVE NodeInv'
<1>1. device' \in [Volumes -> Devices \cup {None}] /\ OneName'
  BY DEF Reboot, NodeInv, TypeOK, OneName
<1>2. Empty'  BY <1>1 DEF Reboot, Empty
<1>3. Empty' => NodeInv'  BY EmptyInv, PTL
<1> QED BY <1>2, <1>3

\* A step of something else keeps the invariant.
LEMMA StutterInv == ASSUME NodeInv, UNCHANGED vars PROVE NodeInv'
BY CallsStep DEF vars, NodeInv, TypeOK, Fits, CallsCurrent

\* The controller keeps the invariant.
LEMMA PlugInv == ASSUME NodeInv, Plug PROVE NodeInv'
BY AttachInv, DetachInv DEF Plug

\* Every step of a node keeps the invariant.
LEMMA NextInv == NodeInv /\ [Next]_vars => NodeInv'
BY StutterInv, PlugInv, CrashInv, AskInv, HandleInv, FailsInv, GiveUpInv DEF Next

\* Whatever the process and the kubelet go through.
LEMMA PluginNextInv == NodeInv /\ [PluginNext]_pluginVars => NodeInv'
<1> SUFFICES ASSUME NodeInv, [PluginNext]_pluginVars PROVE NodeInv'  OBVIOUS
<1>1. CASE UNCHANGED pluginVars  BY <1>1, StutterInv DEF pluginVars
<1>2. CASE CalmNext
  BY <1>2, AskInv, HandleInv, PlugInv, StutterInv
  DEF CalmNext, RemoveSocket, Listen, SetProviderID, NodeGetInfo
<1>3. CASE Fault
  BY <1>3, FailsInv, GiveUpInv, CrashInv, RestartKubeletInv, RebootInv DEF Fault, Exit
<1> QED BY <1>1, <1>2, <1>3 DEF PluginNext

\* What the properties say follows.
LEMMA Consequences ==
  ASSUME NodeInv PROVE TypeOK /\ MountedIsPlugged /\ PodsSeeTheirVolume /\ NothingLeft
<1>1. TypeOK  BY DEF NodeInv
<1>2. ASSUME ~overtaken, NEW p \in Paths, NEW i \in DOMAIN mounts[p]
      PROVE  /\ mounts[p][i].vol = VolumeAt(p) /\ mounts[p][i].dev = device[VolumeAt(p)]
             /\ VolumeAt(p) \in Volumes
  <2>1. mounts[p][i] = DiskAt(p)  BY <1>2 DEF NodeInv, Fits, Owned
  <2>2. VolumeAt(p) \in Volumes  BY NodeAssumption DEF VolumeAt, Paths
  <2> QED BY <2>1, <2>2 DEF DiskAt
<1>3. MountedIsPlugged  BY <1>2, NodeAssumption DEF MountedIsPlugged
<1>4. PodsSeeTheirVolume
  <2> SUFFICES ASSUME ~overtaken, NEW t \in Targets, pub[t] = "yes"
               PROVE  Top(t).vol = VolumeOf[t]
    BY DEF PodsSeeTheirVolume
  <2>1. t \in Paths /\ mounts[t] # <<>> /\ Owned  BY DEF Paths, NodeInv, Fits, Believed
  <2>2. Top(t) = DiskAt(t)  BY <2>1, TopIsDisk
  <2>3. VolumeAt(t) = VolumeOf[t]  BY NodeAssumption DEF VolumeAt
  <2> QED BY <2>2, <2>3 DEF DiskAt
<1>5. NothingLeft
  <2> SUFFICES ASSUME ~overtaken PROVE NothingLeft  BY DEF NothingLeft
  <2>1. Believed  BY DEF NodeInv, Fits
  <2>2. ASSUME NEW v \in Volumes, staged[v] = "no", NEW p \in Paths, NEW i \in DOMAIN mounts[p],
               mounts[p][i].vol = v
        PROVE  FALSE
    <3>1. VolumeAt(p) = v  BY <1>2, <2>2
    <3>2. CASE p \in Volumes  BY <2>1, <2>2, <3>1, <3>2 DEF Believed, VolumeAt
    <3>3. CASE p \in Targets /\ p \notin Volumes
      <4>1. VolumeOf[p] = v  BY <3>1, <3>3 DEF VolumeAt
      <4> QED BY <2>1, <2>2, <3>3, <4>1 DEF Believed
    <3> QED BY <3>2, <3>3 DEF Paths
  <2> QED BY <2>1, <2>2 DEF NothingLeft, Believed
<1> QED BY <1>1, <1>3, <1>4, <1>5

\* The inductive invariant.
THEOREM NodeInvariance == Spec => []NodeInv
BY InitInv, NextInv, PTL DEF Spec

\* It survives crashes and restarts of the plugin and of the kubelet, and reboots.
THEOREM PluginInvariance == PluginSpec => []NodeInv
<1>1. PluginInit => NodeInv  BY InitInv DEF PluginInit
<1> QED BY <1>1, PluginNextInv, PTL DEF PluginSpec

\* Every variable stays in its type.
THEOREM NodeTypeCorrect == PluginSpec => []TypeOK
<1>1. NodeInv => TypeOK  BY Consequences
<1> QED BY <1>1, PluginInvariance, PTL

\* A process that serves has its socket file (server.go:103-116).
THEOREM PluginTypeCorrect == PluginSpec => []PluginTypeOK
<1>1. PluginInit => PluginTypeOK  BY DEF PluginInit, PluginTypeOK
<1>2. PluginTypeOK /\ [PluginNext]_pluginVars => PluginTypeOK'
  <2> SUFFICES ASSUME PluginTypeOK, [PluginNext]_pluginVars PROVE PluginTypeOK'  OBVIOUS
  <2>1. CASE UNCHANGED pluginVars  BY <2>1 DEF pluginVars, plugin, PluginTypeOK
  <2>2. CASE CalmNext
    BY <2>2 DEF CalmNext, RemoveSocket, Listen, SetProviderID, NodeGetInfo, Goes, plugin,
      PluginTypeOK
  <2>3. CASE Fault
    BY <2>3 DEF Fault, Exit, RestartKubelet, Reboot, plugin, PluginTypeOK
  <2> QED BY <2>1, <2>2, <2>3 DEF PluginNext
<1> QED BY <1>1, <1>2, PTL DEF PluginSpec

\* No disk is unplugged with a mounted file system, and no mount shows the disk
\* that got the device name afterwards (nodeserver.go:289-304).
THEOREM MountsArePlugged == PluginSpec => []MountedIsPlugged
<1>1. NodeInv => MountedIsPlugged  BY Consequences
<1> QED BY <1>1, PluginInvariance, PTL

\* A published path shows the pod its own volume (nodeserver.go:117-154).
THEOREM PublishedShowsItsVolume == PluginSpec => []PodsSeeTheirVolume
<1>1. NodeInv => PodsSeeTheirVolume  BY Consequences
<1> QED BY <1>1, PluginInvariance, PTL

\* What was acknowledged as released is mounted nowhere, although an unmount is
\* answered OK where the count of references is not one, or nothing is mounted
\* (nodeserver.go:170-177, 283-305).
THEOREM ReleasedIsGone == PluginSpec => []NothingLeft
<1>1. NodeInv => NothingLeft  BY Consequences
<1> QED BY <1>1, PluginInvariance, PTL
=============================================================================
