----------------------- MODULE BOSHDeploymentProofs -----------------------
(***************************************************************************)
(* Proofs about BOSHDeployment, for any instance groups, variables,        *)
(* manifests, and any number of edits, disturbances and stale objects.     *)
(*                                                                         *)
(* The reconcilers meet only in the objects they write, so the proofs go   *)
(* object by object: first what a step can do to the with-ops Secret, to a *)
(* job, to a workload and to the cached copy of an object, then what that  *)
(* means for each part of the invariant.                                   *)
(***************************************************************************)
EXTENDS BOSHDeployment, SequenceTheorems, FiniteSetTheorems, TLAPS

(***************************************************************************)
(* The invariant: types first, as far as a step needs them.                *)
(***************************************************************************)
Revisions == 1..MaxRev

WithOpsValue == [content : Contents, stamped : BOOLEAN]
JobValue == [template : Contents, strategy : {"once", "done"}]
Built == [manifest : Nat, version : Nat]

\* How much of the manifest the deployment reconciler has read.
Resolving ==
    [pc : {"manifest"}, got : [{"spec"} -> Revisions]]
    \cup [pc : {"ops"}, got : [{"spec", "configmap"} -> Revisions]]
    \cup [pc : {"with-ops", "dm", "ig", "bpm"}, got : Contents]
Creating == [pc : {"create"}, secret : WithOpsValue, todo : SUBSET Vars]
Deploying == [pc : {"dns", "resources", "service", "workload"}, group : Groups,
              version : Nat, manifest : Nat]

InputOK ==
    /\ input \in Contents /\ cached \in [Parts -> 0..MaxRev]
    /\ operator \in {"running", "down"} /\ broken \in BOOLEAN /\ putBack \in BOOLEAN
    /\ disturbed \in 0..MaxDisturbances
    /\ queue \subseteq {"deployment", "variables"}

DeployerOK ==
    /\ rd \in {Idle} \cup Resolving
    /\ ("deployment" \in queue \/ rd.pc # "idle") => cached["spec"] # 0

\* The with-ops Secret is never deleted: the generated variable reconciler finds
\* what its event told it of.
VariablesOK ==
    /\ variables \subseteq Vars /\ issued \subseteq variables
    /\ rg \in {Idle} \cup Creating
    /\ api[WithOps] \in {None} \cup WithOpsValue
    /\ seen[WithOps] \in {None} \cup WithOpsValue
    /\ ("variables" \in queue \/ rg.pc # "idle") => seen[WithOps] \in WithOpsValue
    /\ seen[WithOps] \in WithOpsValue => api[WithOps] \in WithOpsValue

JobsOK ==
    /\ DOMAIN ran = {"dm", "bpm"}
    /\ \A j \in JobNames : /\ api[Job(j)] \in {None} \cup JobValue
                           /\ seen[Job(j)] \in {None} \cup JobValue

\* The versions of the Secrets, and what of them is in the cache: no BPM Secret
\* that comes from a desired manifest that is not.
VersionsOK ==
    /\ desired \in Seq(Contents) /\ bpm \in [Groups -> Seq(Nat)]
    /\ \A g \in Groups : \A v \in 1..Len(bpm[g]) : bpm[g][v] \in 1..Len(desired)
    /\ seenDesired \in 0..Len(desired)
    /\ seenBpm \in [Groups -> Nat]
    /\ \A g \in Groups : seenBpm[g] \in 0..Len(bpm[g])
    /\ \A g \in Groups : \A v \in 1..seenBpm[g] : bpm[g][v] <= seenDesired

\* The requests of the BPM reconciler.
IsRequest(r, versions) == r \in Groups \X Nat /\ r[2] \in 1..versions[r[1]]

RequestsOK ==
    /\ bpmQueue \in Seq(Groups \X Nat)
    /\ \A i \in 1..Len(bpmQueue) : IsRequest(bpmQueue[i], seenBpm)
    /\ \A r \in delayed : IsRequest(r, seenBpm)

\* What the BPM reconciler builds from is not older than its BPM information ...
BpmOK ==
    /\ rb \in {Idle} \cup Deploying
    /\ rb.pc # "idle" => /\ rb.version \in 1..seenBpm[rb.group]
                         /\ rb.manifest \in 1..seenDesired
                         /\ bpm[rb.group][rb.version] <= rb.manifest

\* ... nor is what it has built.
WorkloadOK(g) ==
    api[Workload(g)] # None =>
        /\ api[Workload(g)] \in Built
        /\ api[Workload(g)].manifest \in 1..Len(desired)
        /\ api[Workload(g)].version \in 1..Len(bpm[g])
        /\ bpm[g][api[Workload(g)].version] <= api[Workload(g)].manifest

DomainsOK == DOMAIN api = Objects /\ DOMAIN seen = Objects

IInv ==
    /\ DomainsOK /\ InputOK /\ DeployerOK /\ VariablesOK /\ JobsOK
    /\ VersionsOK /\ RequestsOK /\ BpmOK /\ \A g \in Groups : WorkloadOK(g)

\* The job that interpolates has run with the last version of the manifest, and
\* is left alone until there is another one.
InterpolatedOnce ==
    /\ desired # <<>> =>
          /\ ran["dm"] = desired[Len(desired)]
          /\ api[Job("dm")] # None /\ api[Job("dm")].strategy = "done"
    /\ NoIdleVersions

\* Without a disturbance and a request that was put back, the versions of a group
\* are in order: the workload, the one at work, the queue from front to back.
InOrder ==
    /\ delayed = {} /\ Up
    /\ \A i, k \in 1..Len(bpmQueue) :
          (i < k /\ bpmQueue[i][1] = bpmQueue[k][1]) => bpmQueue[i][2] < bpmQueue[k][2]
    /\ rb.pc # "idle" => \A i \in 1..Len(bpmQueue) :
          bpmQueue[i][1] = rb.group => rb.version < bpmQueue[i][2]
    /\ \A g \in Groups : api[Workload(g)] # None =>
          /\ api[Workload(g)].version <= seenBpm[g]
          /\ \A i \in 1..Len(bpmQueue) :
                bpmQueue[i][1] = g => api[Workload(g)].version < bpmQueue[i][2]
          /\ (rb.pc # "idle" /\ rb.group = g) => api[Workload(g)].version <= rb.version
SmoothInOrder == Smooth => InOrder
-----------------------------------------------------------------------------
(***************************************************************************)
(* Facts about the objects and about sequences.                            *)
(***************************************************************************)
LEMMA ObjectsDiffer ==
    /\ WithOps \in Objects /\ DNS \in Objects
    /\ \A j \in JobNames : Job(j) \in Objects /\ Job(j) # WithOps /\ Job(j) # DNS
    /\ \A j, k \in JobNames : Job(j) = Job(k) => j = k
    /\ WithOps # DNS
    /\ \A g \in Groups : /\ Service(g) \in Objects /\ Service(g) # WithOps
                         /\ Workload(g) \in Objects /\ Workload(g) # WithOps /\ Workload(g) # DNS
                         /\ \A j \in JobNames : Job(j) # Service(g) /\ Job(j) # Workload(g)
    /\ \A g, h \in Groups : Service(g) # Workload(h) /\ (Workload(g) = Workload(h) => g = h)
BY DEF Objects, WithOps, DNS, Job, JobNames, Service, Workload

LEMMA WithoutFirst ==
    ASSUME NEW S, NEW s \in Seq(S), s # <<>>
    PROVE  \E t \in Seq(S) : /\ RemoveAt(s, 1) = t /\ Len(s) = Len(t) + 1
                             /\ \A i \in 1..Len(t) : t[i] = s[i + 1]
<1>1. Len(s) \in Nat \ {0} /\ \A i \in 1..Len(s) : s[i] \in S
    BY EmptySeq
<1>2. SubSeq(s, 1, 1 - 1) = <<>> /\ 1 + 1 = 2
    BY <1>1
<1> DEFINE rest == SubSeq(s, 2, Len(s))
<1>3. rest \in Seq(S) /\ Len(s) = Len(rest) + 1 /\ \A i \in 1..Len(rest) : rest[i] = s[i + 1]
    <2>1. 2 \in Int /\ Len(s) \in Int /\ \A i \in 2..Len(s) : s[i] \in S
        BY <1>1
    <2>2. /\ rest \in Seq(S) /\ Len(rest) = IF 2 <= Len(s) THEN Len(s) - 2 + 1 ELSE 0
          /\ \A i \in 1..(Len(s) - 2 + 1) : rest[i] = s[2 + i - 1]
        BY <2>1, SubSeqProperties
    <2> HIDE DEF rest
    <2>3. Len(s) = Len(rest) + 1
        <3> DEFINE n == Len(s)
                   m == Len(rest)
        <3>1. n \in Nat \ {0} /\ m = IF 2 <= n THEN n - 2 + 1 ELSE 0
            BY <1>1, <2>2
        <3> HIDE DEF n, m
        <3>2. n = m + 1
            BY <3>1
        <3> QED BY <3>2 DEF n, m
    <2>4. ASSUME NEW i \in 1..Len(rest) PROVE rest[i] = s[i + 1]
        <3>1. i \in 1..(Len(s) - 2 + 1) /\ 2 + i - 1 = i + 1
            BY <1>1, <2>2
        <3> QED BY <2>2, <3>1
    <2> QED BY <2>2, <2>3, <2>4
<1>4. RemoveAt(s, 1) = rest
    <2>1. RemoveAt(s, 1) = <<>> \o rest
        BY <1>2 DEF RemoveAt
    <2> HIDE DEF rest
    <2> QED BY <1>3, <2>1, ConcatEmptySeq
<1> HIDE DEF rest
<1> QED BY <1>3, <1>4

LEMMA AppendOne ==
    ASSUME NEW S, NEW s \in Seq(S), NEW x \in S
    PROVE  /\ Append(s, x) \in Seq(S)
           /\ Len(Append(s, x)) = Len(s) + 1
           /\ \A i \in 1..Len(s) : Append(s, x)[i] = s[i]
           /\ Append(s, x)[Len(s) + 1] = x
           /\ Len(s) \in Nat
BY AppendProperties, LenProperties

\* The groups are finite, so a restart can deliver all BPM Secrets as a sequence.
LEMMA AllRequestsFinite ==
    ASSUME VersionsOK
    PROVE  IsFiniteSet(UNION {{g} \X (1..Len(bpm[g])) : g \in Groups})
<1> DEFINE F == {{g} \X (1..Len(bpm[g])) : g \in Groups}
<1>1. IsFiniteSet(F)
    <2> DEFINE f == [g \in Groups |-> {g} \X (1..Len(bpm[g]))]
    <2>1. f \in Surjection(Groups, F)
        BY DEF Surjection
    <2> HIDE DEF f, F
    <2> QED BY <2>1, FS_Surjection, ConstantsAssumption
<1>2. ASSUME NEW g \in Groups PROVE IsFiniteSet({g} \X (1..Len(bpm[g])))
    <2>1. Len(bpm[g]) \in Nat
        BY DEF VersionsOK
    <2>2. IsFiniteSet({g}) /\ IsFiniteSet(1..Len(bpm[g]))
        <3>1. IsFiniteSet({g})
            BY FS_Singleton
        <3>2. 1 \in Int /\ Len(bpm[g]) \in Int
            BY <2>1
        <3>3. IsFiniteSet(1..Len(bpm[g]))
            BY <3>2, FS_Interval
        <3> QED BY <3>1, <3>3
    <2> QED BY <2>2, FS_Product
<1> QED BY <1>1, <1>2, FS_UNION
-----------------------------------------------------------------------------
(***************************************************************************)
(* What a step does to the objects.                                        *)
(***************************************************************************)

\* At most o is written, and only when the cache has what the API has.
Writes(o, new) ==
    /\ DOMAIN api' = Objects
    /\ \A x \in Objects \ {o} : api'[x] = api[x]
    /\ api'[o] = api[o] \/ (api'[o] = new /\ seen[o] = api[o])

LEMMA CreateOrUpdateWrites ==
    ASSUME DomainsOK, NEW o \in Objects, NEW new, CreateOrUpdate(o, new)
    PROVE  Writes(o, new)
BY DEF DomainsOK, CreateOrUpdate, Conflict, Writes

LEMMA ApplyWrites ==
    ASSUME DomainsOK, NEW o \in Objects, NEW new, NEW next, Apply(o, new, next) \/ ApplyBpm(o, new, next)
    PROVE  Writes(o, new) /\ seen' = seen
<1>1. CASE CreateOrUpdate(o, new)
    BY <1>1, CreateOrUpdateWrites DEF Apply, ApplyBpm
<1>2. CASE UNCHANGED api
    BY <1>2 DEF Apply, ApplyBpm, Writes, DomainsOK
<1> QED BY <1>1, <1>2 DEF Apply, ApplyBpm

\* The steps that write.
ApiEffect ==
    \/ api' = api
    \/ rd.pc = "with-ops" /\ Writes(WithOps, MutatedWithOps)
    \/ \E j \in JobNames : rd.pc = j /\ Writes(Job(j), MutatedJob(j))
    \/ Writes(DNS, [manifest |-> rb.manifest])
    \/ rb.pc # "idle" /\ Writes(Service(rb.group), BuiltFrom)
    \/ rb.pc = "workload" /\ Writes(Workload(rb.group), BuiltFrom)
    \/ rg.pc = "create" /\ api[WithOps] = rg.secret /\ api' = [api EXCEPT ![WithOps].stamped = TRUE]
    \/ \E j \in {"dm", "bpm"} : api[Job(j)] # None /\ api' = [api EXCEPT ![Job(j)].strategy = "done"]

LEMMA DeploymentEffect ==
    ASSUME DomainsOK, DeploymentStep
    PROVE  ApiEffect /\ seen' = seen
<1> USE DEF objVars
<1>1. CASE DeploymentGet
    BY <1>1 DEF DeploymentGet, ApiEffect
<1>2. CASE ResolveManifest \/ ResolveOps
    BY <1>2 DEF ResolveManifest, ResolveOps, ResolvePart, ApiEffect
<1>3. CASE ApplyWithOps
    BY <1>3, ApplyWrites, ObjectsDiffer DEF ApplyWithOps, ApiEffect
<1>4. CASE VariableInterpolationJob
    BY <1>4, ApplyWrites, ObjectsDiffer DEF VariableInterpolationJob, ApiEffect, JobNames
<1>5. CASE InstanceGroupManifestJob
    BY <1>5, ApplyWrites, ObjectsDiffer DEF InstanceGroupManifestJob, ApiEffect, JobNames
<1>6. CASE BPMConfigsJob
    BY <1>6, ApplyWrites, ObjectsDiffer DEF BPMConfigsJob, ApiEffect, JobNames
<1> QED BY <1>1, <1>2, <1>3, <1>4, <1>5, <1>6 DEF DeploymentStep

LEMMA BpmEffect ==
    ASSUME DomainsOK, BpmOK, BpmStep
    PROVE  ApiEffect /\ seen' = seen
<1> USE DEF objVars
<1>1. rb.pc # "idle" => rb.group \in Groups
    BY DEF BpmOK, Deploying, Idle
<1>2. CASE BpmGet
    BY <1>2 DEF BpmGet, Take, ApiEffect
<1>3. CASE BPMResources
    BY <1>3 DEF BPMResources, ApiEffect
<1>4. CASE ReconcileDNS
    BY <1>4, ApplyWrites, ObjectsDiffer DEF ReconcileDNS, ApiEffect
<1>5. CASE DeployService
    BY <1>1, <1>5, ApplyWrites, ObjectsDiffer DEF DeployService, ApiEffect
<1>6. CASE DeployWorkload
    BY <1>1, <1>6, ApplyWrites, ObjectsDiffer DEF DeployWorkload, ApiEffect
<1> QED BY <1>2, <1>3, <1>4, <1>5, <1>6 DEF BpmStep

\* The cache of an object stays, or becomes what the API has; not in a step that
\* writes.
SeenEffect ==
    /\ DOMAIN seen' = Objects
    /\ \A o \in Objects : seen'[o] = seen[o] \/ seen'[o] = api[o]
    /\ seen' = seen \/ api' = api

LEMMA ObjectsEffect ==
    ASSUME DomainsOK, BpmOK, [Next]_vars
    PROVE  ApiEffect /\ SeenEffect
<1> USE DEF objVars
<1>1. seen' = seen => SeenEffect
    BY DEF SeenEffect, DomainsOK
<1>2. CASE DeploymentStep
    BY <1>1, <1>2, DeploymentEffect
<1>3. CASE BpmStep
    BY <1>1, <1>3, BpmEffect
<1>4. CASE VariablesGet \/ (\E v \in Vars : GenerateVariable(v))
    BY <1>1, <1>4 DEF VariablesGet, GenerateVariable, ApiEffect
<1>5. CASE StampWithOps
    BY <1>1, <1>5 DEF StampWithOps, ApiEffect
<1>6. CASE \E o \in Objects : SyncObject(o)
    BY <1>6 DEF SyncObject, ApiEffect, SeenEffect, DomainsOK
<1>7. CASE (\E p \in Parts : SyncPart(p)) \/ SyncDesired \/ (\E g \in Groups : SyncBpm(g))
    BY <1>1, <1>7 DEF SyncPart, SyncDesired, SyncBpm, ApiEffect
<1>8. CASE RunInterpolation
    BY <1>1, <1>8 DEF RunInterpolation, Triggered, Finish, ApiEffect
<1>9. CASE RunBpm
    BY <1>1, <1>9 DEF RunBpm, Triggered, Finish, ApiEffect
<1>10. CASE (\E v \in Vars : IssueVariable(v)) \/ (\E r \in delayed : Redeliver(r)) \/ (\E p \in Parts : UserEdit(p))
    BY <1>1, <1>10 DEF IssueVariable, Redeliver, UserEdit, ApiEffect
<1>11. CASE OtherBreaks \/ OtherMended \/ ApiError \/ Crash
    BY <1>1, <1>11 DEF OtherBreaks, OtherMended, ApiError, Crash, ApiEffect
<1>12. CASE Restart
    BY <1>12 DEF Restart, ApiEffect, SeenEffect, DomainsOK
<1>13. CASE UNCHANGED vars
    BY <1>1, <1>13 DEF vars, ApiEffect
<1> QED BY <1>2, <1>3, <1>4, <1>5, <1>6, <1>7, <1>8, <1>9, <1>10, <1>11, <1>12, <1>13
        DEF Next, VariablesStep, SyncStep, JobStep

LEMMA WithOpsEffect ==
    ASSUME DomainsOK, BpmOK, ApiEffect
    PROVE  \/ api'[WithOps] = api[WithOps]
           \/ rd.pc = "with-ops" /\ api'[WithOps] = MutatedWithOps
           \/ /\ rg.pc = "create" /\ api[WithOps] = rg.secret
              /\ api'[WithOps] = [rg.secret EXCEPT !.stamped = TRUE]
<1>1. rb.pc # "idle" => rb.group \in Groups
    BY DEF BpmOK, Deploying, Idle
<1> QED BY <1>1, ObjectsDiffer DEF ApiEffect, Writes, DomainsOK, JobNames

LEMMA JobEffect ==
    ASSUME DomainsOK, BpmOK, ApiEffect, NEW j \in JobNames
    PROVE  \/ api'[Job(j)] = api[Job(j)]
           \/ rd.pc = j /\ seen[Job(j)] = api[Job(j)] /\ api'[Job(j)] = MutatedJob(j)
           \/ api[Job(j)] # None /\ api'[Job(j)] = [api[Job(j)] EXCEPT !.strategy = "done"]
<1>1. rb.pc # "idle" => rb.group \in Groups
    BY DEF BpmOK, Deploying, Idle
<1> QED BY <1>1, ObjectsDiffer DEF ApiEffect, Writes, DomainsOK, JobNames

LEMMA WorkloadEffect ==
    ASSUME DomainsOK, BpmOK, ApiEffect, NEW g \in Groups
    PROVE  \/ api'[Workload(g)] = api[Workload(g)]
           \/ rb.pc = "workload" /\ rb.group = g /\ api'[Workload(g)] = BuiltFrom
<1>1. rb.pc # "idle" => rb.group \in Groups
    BY DEF BpmOK, Deploying, Idle
<1> QED BY <1>1, ObjectsDiffer DEF ApiEffect, Writes, DomainsOK, JobNames

LEMMA DomainsNext ==
    ASSUME DomainsOK, BpmOK, [Next]_vars PROVE DomainsOK'
<1>1. DOMAIN api' = Objects
    BY ObjectsEffect DEF ApiEffect, Writes, DomainsOK
<1> QED BY <1>1, ObjectsEffect DEF SeenEffect, DomainsOK, Objects, WithOps, DNS, Job, Service, Workload
-----------------------------------------------------------------------------
(***************************************************************************)
(* The parts of the invariant, one after the other.                        *)
(***************************************************************************)
LEMMA InputNext ==
    ASSUME InputOK, [Next]_vars PROVE InputOK'
<1> USE ConstantsAssumption DEF userVars, cacheVars, queueVars
<1>d. ASSUME NEW kind, Disturb(kind) PROVE disturbed' \in 0..MaxDisturbances
    BY <1>d DEF Disturb, InputOK
<1>1. CASE DeploymentStep
    <2>1. UNCHANGED <<input, cached, operator, broken, putBack, disturbed>> /\ queue' \subseteq queue \cup {"deployment"}
        BY <1>1 DEF DeploymentStep, DeploymentGet, ResolveManifest, ResolveOps, ResolvePart, RequeueDeployment,
                    ApplyWithOps, VariableInterpolationJob, InstanceGroupManifestJob, BPMConfigsJob, Apply
    <2> QED BY <2>1 DEF InputOK
<1>2. CASE VariablesStep
    BY <1>2 DEF VariablesStep, VariablesGet, GenerateVariable, StampWithOps, InputOK
<1>3. CASE BpmStep
    <2>1. UNCHANGED <<input, cached, operator, broken, disturbed, queue>> /\ (putBack' = putBack \/ putBack' = TRUE)
        BY <1>3 DEF BpmStep, BpmGet, Take, BPMResources, ReconcileDNS, DeployService, DeployWorkload, ApplyBpm, RequeueBpm
    <2> QED BY <2>1 DEF InputOK
<1>4. CASE \E p \in Parts : SyncPart(p)
    <2> PICK p \in Parts : SyncPart(p)
        BY <1>4
    <2>1. cached[p] + 1 \in 0..MaxRev
        BY DEF SyncPart, InputOK, Contents
    <2>2. cached' = [cached EXCEPT ![p] = cached[p] + 1] /\ queue' \subseteq queue \cup {"deployment"}
        BY DEF SyncPart
    <2>3. cached' \in [Parts -> 0..MaxRev]
        BY <2>1, <2>2 DEF InputOK
    <2> QED BY <2>2, <2>3 DEF SyncPart, InputOK
<1>5. CASE (\E o \in Objects : SyncObject(o)) \/ SyncDesired \/ (\E g \in Groups : SyncBpm(g))
    <2>1. UNCHANGED <<input, cached, operator, broken, disturbed, putBack>> /\ queue' \subseteq queue \cup {"variables"}
        BY <1>5 DEF SyncObject, SyncDesired, SyncBpm
    <2> QED BY <2>1 DEF InputOK
<1>6. CASE JobStep \/ (\E r \in delayed : Redeliver(r))
    BY <1>6 DEF JobStep, RunInterpolation, RunBpm, IssueVariable, Redeliver, InputOK
<1>7. CASE \E p \in Parts : UserEdit(p)
    <2> PICK p \in Parts : UserEdit(p)
        BY <1>7
    <2>1. input[p] + 1 \in 1..MaxRev /\ input' = [input EXCEPT ![p] = input[p] + 1]
        BY DEF UserEdit, InputOK, Contents
    <2>2. input' \in Contents
        BY <2>1 DEF InputOK, Contents
    <2> QED BY <2>2 DEF UserEdit, InputOK
<1>8. CASE OtherBreaks \/ OtherMended
    BY <1>8, <1>d DEF OtherBreaks, OtherMended, InputOK
<1>9. CASE ApiError
    <2>1. /\ UNCHANGED <<input, cached, operator, broken>> /\ queue' \subseteq queue \cup {"deployment", "variables"}
          /\ (putBack' = putBack \/ putBack' = TRUE) /\ disturbed' \in 0..MaxDisturbances
        BY <1>9, <1>d DEF ApiError, RequeueDeployment, RequeueBpm
    <2> QED BY <2>1 DEF InputOK
<1>10. CASE Crash
    BY <1>10, <1>d DEF Crash, InputOK
<1>11. CASE Restart
    <2>1. cached' \in [Parts -> 0..MaxRev]
        BY <1>11 DEF Restart, InputOK, Contents
    <2>2. queue' \subseteq {"deployment", "variables"}
        BY <1>11 DEF Restart
    <2> QED BY <1>11, <2>1, <2>2 DEF Restart, InputOK
<1>12. CASE UNCHANGED vars
    BY <1>12 DEF vars, InputOK
<1> QED BY <1>1, <1>2, <1>3, <1>4, <1>5, <1>6, <1>7, <1>8, <1>9, <1>10, <1>11, <1>12 DEF Next, SyncStep

\* One more part of the manifest is read.
LEMMA ResolvingFacts ==
    /\ \A s \in Resolving : s.pc = "manifest" => s.got \in [{"spec"} -> Revisions]
    /\ \A s \in Resolving : s.pc = "ops" => s.got \in [{"spec", "configmap"} -> Revisions]
    /\ \A s \in Resolving : s.pc \in {"with-ops", "dm", "ig", "bpm"} => s.got \in Contents
    /\ \A s \in Resolving : s.pc # "idle"
    /\ \A got \in [{"spec"} -> Revisions] : [pc |-> "manifest", got |-> got] \in Resolving
    /\ \A got \in [{"spec", "configmap"} -> Revisions] : [pc |-> "ops", got |-> got] \in Resolving
    /\ \A got \in Contents : \A pc \in {"with-ops", "dm", "ig", "bpm"} : [pc |-> pc, got |-> got] \in Resolving
    /\ Idle.pc = "idle"
BY DEF Resolving, Idle

LEMMA DeployerNext ==
    ASSUME InputOK, DeployerOK, [Next]_vars PROVE DeployerOK'
<1> USE DEF cacheVars, queueVars, workerVars
<1>1. /\ rd.pc = "idle" => rd = Idle
      /\ rd.pc # "idle" => rd \in Resolving
      /\ \A p \in Parts : cached[p] \in 0..MaxRev
    BY ResolvingFacts DEF DeployerOK, InputOK
<1>2. ASSUME UNCHANGED <<rd, cached>>, "deployment" \in queue' => "deployment" \in queue PROVE DeployerOK'
    BY <1>2 DEF DeployerOK, Resolving, Idle, Contents, Revisions
<1>3. ASSUME RequeueDeployment, UNCHANGED cached, rd.pc # "idle" PROVE DeployerOK'
    BY <1>3 DEF RequeueDeployment, DeployerOK
<1>4. CASE DeploymentGet
    <2> DEFINE got == [p \in {"spec"} |-> cached["spec"]]
    <2>1. cached["spec"] \in Revisions
        BY <1>1, <1>4, ConstantsAssumption DEF DeploymentGet, DeployerOK, Parts, Revisions
    <2>2. got \in [{"spec"} -> Revisions]
        BY <2>1
    <2>3. rd' = [pc |-> "manifest", got |-> got] /\ queue' = queue \ {"deployment"} /\ cached' = cached
        BY <1>4 DEF DeploymentGet
    <2> HIDE DEF got
    <2>4. rd' \in Resolving
        BY <2>2, <2>3, ResolvingFacts
    <2> QED BY <2>1, <2>3, <2>4, ConstantsAssumption DEF DeployerOK, Revisions, Resolving, Contents
<1>5. ASSUME NEW p \in Parts, NEW next, ResolvePart(p, next), rd.pc # "idle",
             cached[p] \in Revisions =>
                [pc |-> next, got |-> [q \in DOMAIN rd.got \cup {p} |-> IF q = p THEN cached[p] ELSE rd.got[q]]] \in Resolving
      PROVE  DeployerOK'
    <2>1. CASE cached[p] = 0
        BY <1>3, <1>5, <2>1 DEF ResolvePart
    <2>2. CASE cached[p] # 0
        <3>1. cached[p] \in Revisions
            BY <1>1, <2>2, ConstantsAssumption DEF Revisions
        <3>2. rd' \in Resolving /\ queue' = queue /\ cached' = cached
            BY <1>5, <2>2, <3>1 DEF ResolvePart
        <3> QED BY <1>5, <3>2 DEF DeployerOK, Resolving, Contents, Revisions
    <2> QED BY <2>1, <2>2
<1>6. CASE ResolveManifest
    <2> DEFINE got == [q \in DOMAIN rd.got \cup {"configmap"} |-> IF q = "configmap" THEN cached["configmap"] ELSE rd.got[q]]
    <2>1. rd.got \in [{"spec"} -> Revisions]
        BY <1>1, <1>6, ResolvingFacts DEF ResolveManifest
    <2>2. cached["configmap"] \in Revisions => got \in [{"spec", "configmap"} -> Revisions]
        BY <2>1
    <2>3. cached["configmap"] \in Revisions => [pc |-> "ops", got |-> got] \in Resolving
        BY <2>2, ResolvingFacts
    <2> QED BY <1>5, <1>6, <2>3 DEF ResolveManifest, Parts
<1>7. CASE ResolveOps
    <2> DEFINE got == [q \in DOMAIN rd.got \cup {"secret"} |-> IF q = "secret" THEN cached["secret"] ELSE rd.got[q]]
    <2>1. rd.got \in [{"spec", "configmap"} -> Revisions]
        BY <1>1, <1>7, ResolvingFacts DEF ResolveOps
    <2>2. cached["secret"] \in Revisions => got \in Contents
        BY <2>1 DEF Contents, Parts, Revisions
    <2>3. cached["secret"] \in Revisions => [pc |-> "with-ops", got |-> got] \in Resolving
        BY <2>2, ResolvingFacts
    <2> QED BY <1>5, <1>7, <2>3 DEF ResolveOps, Parts
<1>8. ASSUME NEW o, NEW new, NEW next \in {"dm", "ig", "bpm", "idle"}, Apply(o, new, next),
             rd.pc \in {"with-ops", "dm", "ig", "bpm"}
      PROVE  DeployerOK'
    <2>1. CASE RequeueDeployment
        BY <1>3, <1>8, <2>1 DEF Apply
    <2>2. CASE rd' = IF next = "idle" THEN Idle ELSE [rd EXCEPT !.pc = next]
        <3>1. rd \in Resolving /\ rd.got \in Contents
            BY <1>1, <1>8, ResolvingFacts
        <3>2. next # "idle" => rd' = [pc |-> next, got |-> rd.got]
            BY <2>2, <3>1 DEF Resolving
        <3>3. rd' \in {Idle} \cup Resolving
            BY <1>8, <2>2, <3>1, <3>2, ResolvingFacts
        <3>4. cached' = cached /\ ("deployment" \in queue' => "deployment" \in queue \/ rd.pc # "idle")
            BY <1>8 DEF Apply
        <3> QED BY <1>8, <3>3, <3>4 DEF DeployerOK, Resolving, Contents, Revisions, Idle
    <2> QED BY <1>8, <2>1, <2>2 DEF Apply
<1>9. CASE ApplyWithOps \/ VariableInterpolationJob \/ InstanceGroupManifestJob \/ BPMConfigsJob
    BY <1>8, <1>9 DEF ApplyWithOps, VariableInterpolationJob, InstanceGroupManifestJob, BPMConfigsJob
<1>10. CASE VariablesStep \/ BpmStep \/ (\E o \in Objects : SyncObject(o)) \/ SyncDesired \/ (\E g \in Groups : SyncBpm(g))
    <2>1. UNCHANGED <<rd, cached>> /\ ("deployment" \in queue' => "deployment" \in queue)
        BY <1>10 DEF VariablesStep, VariablesGet, GenerateVariable, StampWithOps, BpmStep, BpmGet, Take, BPMResources,
            ReconcileDNS, DeployService, DeployWorkload, ApplyBpm, SyncObject, SyncDesired, SyncBpm
    <2> QED BY <1>2, <2>1
<1>11. CASE JobStep \/ (\E r \in delayed : Redeliver(r)) \/ (\E p \in Parts : UserEdit(p)) \/ OtherBreaks \/ OtherMended
    BY <1>2, <1>11 DEF JobStep, RunInterpolation, RunBpm, IssueVariable, Redeliver, UserEdit, OtherBreaks, OtherMended
<1>12. CASE \E p \in Parts : SyncPart(p)
    <2> PICK p \in Parts : SyncPart(p)
        BY <1>12
    <2>1. cached' = [cached EXCEPT ![p] = cached[p] + 1] /\ rd' = rd
        BY DEF SyncPart
    <2>2. cached'["spec"] = cached["spec"] \/ cached'["spec"] # 0
        BY <1>1, <2>1, ConstantsAssumption DEF InputOK, Parts
    <2>3. p = "spec" => cached'["spec"] # 0
        BY <1>1, <2>1, ConstantsAssumption DEF InputOK, Parts
    <2>4. "deployment" \in queue' => "deployment" \in queue \/ p = "spec" \/ cached["spec"] # 0
        <3>1. p = "configmap" /\ cached["spec"] > 0 => cached["spec"] # 0
            BY <1>1 DEF Parts
        <3>2. cached["spec"] > 0 => cached["spec"] # 0
            BY <1>1 DEF Parts
        <3> QED BY <3>1, <3>2 DEF SyncPart, Passes
    <2> QED BY <2>1, <2>2, <2>3, <2>4 DEF DeployerOK, Resolving, Contents, Revisions, Idle
<1>13. CASE ApiError
    BY <1>2, <1>3, <1>13 DEF ApiError
<1>14. CASE Crash
    BY <1>14 DEF Crash, DeployerOK, Idle
<1>15. CASE Restart
    <2>1. cached' = input /\ rd' = rd /\ input["spec"] # 0
        BY <1>15, ConstantsAssumption DEF Restart, InputOK, Contents, Parts
    <2> QED BY <2>1 DEF DeployerOK, Resolving, Contents, Revisions, Idle
<1>16. CASE UNCHANGED vars
    BY <1>2, <1>16 DEF vars
<1> QED BY <1>4, <1>6, <1>7, <1>9, <1>10, <1>11, <1>12, <1>13, <1>14, <1>15, <1>16
        DEF Next, DeploymentStep, SyncStep

LEMMA WithOpsNext ==
    ASSUME DomainsOK, BpmOK, DeployerOK, VariablesOK, [Next]_vars
    PROVE  /\ api'[WithOps] \in {None} \cup WithOpsValue
           /\ seen'[WithOps] \in {None} \cup WithOpsValue
           /\ api[WithOps] \in WithOpsValue => api'[WithOps] \in WithOpsValue
           /\ seen[WithOps] \in WithOpsValue => seen'[WithOps] \in WithOpsValue
           /\ seen'[WithOps] \in WithOpsValue => api'[WithOps] \in WithOpsValue
<1>1. rd.pc = "with-ops" => MutatedWithOps \in WithOpsValue
    BY ResolvingFacts DEF DeployerOK, MutatedWithOps, WithOpsValue
<1>2. rg.pc = "create" => [rg.secret EXCEPT !.stamped = TRUE] \in WithOpsValue
    <2>1. rg.pc = "create" => rg.secret \in WithOpsValue
        BY DEF VariablesOK, Creating, Idle
    <2>2. \A x \in WithOpsValue : [x EXCEPT !.stamped = TRUE] \in WithOpsValue
        BY DEF WithOpsValue
    <2> QED BY <2>1, <2>2
<1>3. /\ api'[WithOps] \in {None} \cup WithOpsValue
      /\ api[WithOps] \in WithOpsValue => api'[WithOps] \in WithOpsValue
    BY <1>1, <1>2, ObjectsEffect, WithOpsEffect DEF VariablesOK
<1>4. /\ seen'[WithOps] = seen[WithOps] \/ seen'[WithOps] = api[WithOps]
      /\ seen' = seen \/ api' = api
    BY ObjectsEffect, ObjectsDiffer DEF SeenEffect
<1> QED BY <1>3, <1>4 DEF VariablesOK

LEMMA VariablesNext ==
    ASSUME DomainsOK, BpmOK, DeployerOK, VariablesOK, [Next]_vars PROVE VariablesOK'
<1> USE DEF secretVars, queueVars, workerVars
<1> DEFINE Secrets(q) == /\ variables' \subseteq Vars /\ issued' \subseteq variables'
                         /\ rg' \in {Idle} \cup Creating
                         /\ ("variables" \in queue' \/ rg'.pc # "idle") => q
<1> DEFINE has == seen[WithOps] \in WithOpsValue
           has1 == seen'[WithOps] \in WithOpsValue
<1>1. SUFFICES Secrets(has) \/ Secrets(has1)
    BY WithOpsNext DEF VariablesOK, WithOps, WithOpsValue, Creating, Idle, Contents
<1>2. /\ variables \subseteq Vars /\ issued \subseteq variables /\ rg \in {Idle} \cup Creating
      /\ ("variables" \in queue \/ rg.pc # "idle") => has
      /\ Idle.pc = "idle" /\ \A s \in Creating : s.pc # "idle" /\ s.pc = "create" /\ s.todo \subseteq Vars
    BY DEF VariablesOK, Idle, Creating
<1> HIDE DEF has
<1>3. ASSUME UNCHANGED <<variables, issued, rg>>, "variables" \in queue' => "variables" \in queue
      PROVE  Secrets(has)
    BY <1>2, <1>3
<1>4. CASE DeploymentStep
    <2>1. UNCHANGED <<variables, issued, rg>> /\ ("variables" \in queue' => "variables" \in queue)
        BY <1>4 DEF DeploymentStep, DeploymentGet, ResolveManifest, ResolveOps, ResolvePart, RequeueDeployment,
                    ApplyWithOps, VariableInterpolationJob, InstanceGroupManifestJob, BPMConfigsJob, Apply
    <2> QED BY <1>3, <2>1
<1>5. CASE VariablesGet
    <2>1. has /\ "variables" \in queue
        BY <1>2, <1>5 DEF VariablesGet
    <2>2. seen[WithOps] \in WithOpsValue /\ VarsOf(seen[WithOps].content) \subseteq Vars
        BY <2>1, ConstantsAssumption DEF has, WithOpsValue, VarsOf, Contents, Parts
    <2>3. [pc |-> "create", secret |-> seen[WithOps], todo |-> VarsOf(seen[WithOps].content)] \in Creating
        BY <2>2 DEF Creating
    <2>4. rg' \in {Idle} \cup Creating
        BY <1>5, <2>3 DEF VariablesGet
    <2> QED BY <1>2, <1>5, <2>1, <2>4 DEF VariablesGet
<1>6. ASSUME NEW v \in Vars, GenerateVariable(v) PROVE Secrets(has)
    <2>1. rg \in Creating
        BY <1>2, <1>6 DEF GenerateVariable
    <2>2. [rg EXCEPT !.todo = @ \ {v}] \in Creating
        BY <2>1 DEF Creating
    <2>3. has
        BY <1>2, <2>1
    <2> QED BY <1>2, <1>6, <2>2, <2>3 DEF GenerateVariable
<1>7. CASE StampWithOps
    BY <1>2, <1>7 DEF StampWithOps
<1>8. CASE BpmStep \/ (\E p \in Parts : SyncPart(p)) \/ SyncDesired \/ (\E g \in Groups : SyncBpm(g)) \/ RunInterpolation \/ RunBpm
    <2>1. UNCHANGED <<variables, issued, rg>> /\ ("variables" \in queue' => "variables" \in queue)
        BY <1>8 DEF BpmStep, BpmGet, Take, BPMResources, ReconcileDNS, DeployService, DeployWorkload, ApplyBpm,
            SyncPart, SyncDesired, SyncBpm, RunInterpolation, RunBpm
    <2> QED BY <1>3, <2>1
<1>9. ASSUME NEW o \in Objects, SyncObject(o) PROVE Secrets(has1)
    <2>1. CASE o = WithOps /\ seen[o] = None
        <3>1. api[WithOps] \in WithOpsValue
            BY <1>9, <2>1 DEF SyncObject, VariablesOK
        <3>2. seen'[WithOps] = api[WithOps]
            BY <1>9, <2>1 DEF SyncObject, DomainsOK
        <3> QED BY <1>2, <1>9, <3>1, <3>2 DEF SyncObject
    <2>2. CASE ~(o = WithOps /\ seen[o] = None)
        <3>1. UNCHANGED <<variables, issued, rg>> /\ queue' = queue
            BY <1>9, <2>2 DEF SyncObject
        <3>2. has => has1
            BY WithOpsNext DEF has
        <3> QED BY <1>2, <3>1, <3>2
    <2> QED BY <2>1, <2>2
<1>10. CASE \E v \in Vars : IssueVariable(v)
    BY <1>2, <1>10 DEF IssueVariable
<1>11. CASE (\E r \in delayed : Redeliver(r)) \/ (\E p \in Parts : UserEdit(p)) \/ OtherBreaks \/ OtherMended
    BY <1>3, <1>11 DEF Redeliver, UserEdit, OtherBreaks, OtherMended
<1>12. CASE ApiError
    <2>1. CASE rg.pc # "idle" /\ rg' = Idle
        BY <1>2, <1>12, <2>1 DEF ApiError
    <2>2. CASE UNCHANGED rg
        <3>1. UNCHANGED <<variables, issued, rg>>
            BY <1>12, <2>2 DEF ApiError
        <3>2. "variables" \in queue' => "variables" \in queue \/ rg.pc # "idle"
            BY <1>12 DEF ApiError, RequeueDeployment
        <3> QED BY <1>2, <3>1, <3>2
    <2> QED BY <1>12, <2>1, <2>2 DEF ApiError
<1>13. CASE Crash
    BY <1>2, <1>13 DEF Crash
<1>14. CASE Restart
    <2>1. seen'[WithOps] = api[WithOps] /\ UNCHANGED <<variables, issued, rg>>
        BY <1>14 DEF Restart
    <2>2. "variables" \in queue' => api[WithOps] # None
        BY <1>14 DEF Restart
    <2>3. api[WithOps] # None => has1
        BY <2>1 DEF VariablesOK
    <2>4. has => has1
        BY WithOpsNext DEF has
    <2> QED BY <1>2, <2>1, <2>2, <2>3, <2>4
<1>15. CASE UNCHANGED vars
    BY <1>3, <1>15 DEF vars
<1> QED BY <1>4, <1>5, <1>6, <1>7, <1>8, <1>9, <1>10, <1>11, <1>12, <1>13, <1>14, <1>15
        DEF Next, VariablesStep, SyncStep, JobStep

LEMMA JobsNext ==
    ASSUME DomainsOK, BpmOK, DeployerOK, JobsOK, [Next]_vars PROVE JobsOK'
<1>1. ASSUME NEW j \in JobNames PROVE api'[Job(j)] \in {None} \cup JobValue
    <2>1. api[Job(j)] \in {None} \cup JobValue /\ seen[Job(j)] \in {None} \cup JobValue
        BY DEF JobsOK
    <2>2. rd.pc = j => MutatedJob(j) \in JobValue
        <3> SUFFICES ASSUME rd.pc = j PROVE MutatedJob(j) \in JobValue
            OBVIOUS
        <3>1. rd.got \in Contents
            BY ResolvingFacts DEF DeployerOK, JobNames
        <3>2. (IF seen[Job(j)] = None THEN "once" ELSE seen[Job(j)].strategy) \in {"once", "done"}
            BY <2>1 DEF JobValue
        <3> QED BY <3>1, <3>2 DEF MutatedJob, JobValue
    <2>3. api[Job(j)] # None => [api[Job(j)] EXCEPT !.strategy = "done"] \in JobValue
        BY <2>1 DEF JobValue
    <2> QED BY <2>1, <2>2, <2>3, ObjectsEffect, JobEffect
<1>2. ASSUME NEW j \in JobNames PROVE seen'[Job(j)] \in {None} \cup JobValue
    BY ObjectsEffect, ObjectsDiffer DEF SeenEffect, JobsOK
<1>3. DOMAIN ran' = {"dm", "bpm"}
    <2> USE DEF secretVars
    <2>1. CASE ran' = ran
        BY <2>1 DEF JobsOK
    <2>2. CASE RunInterpolation \/ RunBpm
        BY <2>2 DEF RunInterpolation, RunBpm, Finish, JobsOK
    <2>3. CASE DeploymentStep
        BY <2>1, <2>3 DEF DeploymentStep, DeploymentGet, ResolveManifest, ResolveOps, ResolvePart,
                    ApplyWithOps, VariableInterpolationJob, InstanceGroupManifestJob, BPMConfigsJob, Apply
    <2>4. CASE VariablesStep \/ BpmStep \/ SyncStep \/ (\E v \in Vars : IssueVariable(v)) \/ (\E r \in delayed : Redeliver(r))
        BY <2>1, <2>4 DEF VariablesStep, VariablesGet, GenerateVariable, StampWithOps, BpmStep, BpmGet, Take, BPMResources,
            ReconcileDNS, DeployService, DeployWorkload, ApplyBpm, SyncStep, SyncPart, SyncObject, SyncDesired, SyncBpm,
            IssueVariable, Redeliver
    <2>5. CASE (\E p \in Parts : UserEdit(p)) \/ OtherBreaks \/ OtherMended \/ ApiError \/ Crash \/ Restart \/ UNCHANGED vars
        BY <2>1, <2>5 DEF UserEdit, OtherBreaks, OtherMended, ApiError, Crash, Restart, vars
    <2> QED BY <2>2, <2>3, <2>4, <2>5 DEF Next, JobStep
<1> QED BY <1>1, <1>2, <1>3 DEF JobsOK, Job, JobNames, JobValue, Contents

(***************************************************************************)
(* The versions of the Secrets and the requests of the BPM reconciler.     *)
(***************************************************************************)

\* Versions are only added, and the cache only gains.
Grows ==
    /\ Len(desired) <= Len(desired') /\ seenDesired <= seenDesired'
    /\ \A i \in 1..Len(desired) : desired'[i] = desired[i]
    /\ \A g \in Groups : /\ Len(bpm[g]) <= Len(bpm'[g]) /\ seenBpm[g] <= seenBpm'[g]
                         /\ \A v \in 1..Len(bpm[g]) : bpm'[g][v] = bpm[g][v]

LEMMA VersionsTypes ==
    ASSUME VersionsOK
    PROVE  /\ Len(desired) \in Nat /\ seenDesired \in Nat
           /\ \A g \in Groups : bpm[g] \in Seq(Nat) /\ Len(bpm[g]) \in Nat /\ seenBpm[g] \in Nat
           /\ \A g \in Groups : \A v \in 1..Len(bpm[g]) : bpm[g][v] \in Nat
<1>1. Len(desired) \in Nat /\ \A g \in Groups : bpm[g] \in Seq(Nat) /\ Len(bpm[g]) \in Nat
    BY LenProperties DEF VersionsOK
<1>2. seenDesired \in Nat /\ \A g \in Groups : seenBpm[g] \in Nat
    BY <1>1 DEF VersionsOK
<1> QED BY <1>1, <1>2 DEF VersionsOK

LEMMA VersionsSame ==
    ASSUME VersionsOK, UNCHANGED <<desired, bpm, seenDesired, seenBpm>>
    PROVE  VersionsOK' /\ Grows
<1>1. VersionsOK'
    BY DEF VersionsOK, Contents
<1>2. Grows
    BY VersionsTypes DEF Grows
<1> QED BY <1>1, <1>2

LEMMA VersionsNext ==
    ASSUME VersionsOK, VariablesOK, [Next]_vars PROVE VersionsOK' /\ Grows
<1> USE DEF secretVars, cacheVars
<1>1. CASE DeploymentStep
    BY <1>1, VersionsSame DEF DeploymentStep, DeploymentGet, ResolveManifest, ResolveOps, ResolvePart,
        ApplyWithOps, VariableInterpolationJob, InstanceGroupManifestJob, BPMConfigsJob, Apply
<1>2. CASE VariablesStep \/ BpmStep \/ (\E p \in Parts : SyncPart(p)) \/ (\E o \in Objects : SyncObject(o))
    BY <1>2, VersionsSame DEF VariablesStep, VariablesGet, GenerateVariable, StampWithOps, BpmStep, BpmGet, Take,
        BPMResources, ReconcileDNS, DeployService, DeployWorkload, ApplyBpm, SyncPart, SyncObject
<1>3. CASE (\E v \in Vars : IssueVariable(v)) \/ (\E r \in delayed : Redeliver(r)) \/ (\E p \in Parts : UserEdit(p))
           \/ OtherBreaks \/ OtherMended \/ ApiError \/ Crash \/ UNCHANGED vars
    BY <1>3, VersionsSame DEF IssueVariable, Redeliver, UserEdit, OtherBreaks, OtherMended, ApiError, Crash, vars
<1>4. CASE SyncDesired
    <2>1. /\ UNCHANGED <<desired, bpm, seenBpm>> /\ seenDesired' \in 0..Len(desired) /\ seenDesired <= seenDesired'
          /\ seenDesired' \in Nat
        BY <1>4, VersionsTypes DEF SyncDesired, VersionsOK
    <2>2. \A g \in Groups : \A v \in 1..seenBpm[g] : bpm[g][v] <= seenDesired'
        <3> SUFFICES ASSUME NEW g \in Groups, NEW v \in 1..seenBpm[g] PROVE bpm[g][v] <= seenDesired'
            OBVIOUS
        <3>1. v \in 1..Len(bpm[g]) /\ bpm[g][v] <= seenDesired
            BY VersionsTypes DEF VersionsOK
        <3>2. bpm[g][v] \in Nat
            BY <3>1, VersionsTypes
        <3> QED BY <2>1, <3>1, <3>2, VersionsTypes
    <2>3. VersionsOK'
        BY <2>1, <2>2 DEF VersionsOK, Contents
    <2>4. Grows
        BY <2>1, VersionsTypes DEF Grows
    <2> QED BY <2>3, <2>4
<1>5. ASSUME NEW g \in Groups, SyncBpm(g) PROVE VersionsOK' /\ Grows
    <2>1. /\ UNCHANGED <<desired, bpm, seenDesired>> /\ seenBpm' = [seenBpm EXCEPT ![g] = seenBpm[g] + 1]
          /\ seenBpm[g] < Len(bpm[g]) /\ bpm[g][seenBpm[g] + 1] <= seenDesired
        BY <1>5 DEF SyncBpm, Behind, NextBpm
    <2>2. /\ seenBpm' \in [Groups -> Nat] /\ seenBpm'[g] = seenBpm[g] + 1
          /\ \A h \in Groups \ {g} : seenBpm'[h] = seenBpm[h]
        BY <2>1, VersionsTypes DEF VersionsOK
    <2>3. \A h \in Groups : seenBpm'[h] \in 0..Len(bpm[h]) /\ seenBpm[h] <= seenBpm'[h]
        BY <2>1, <2>2, VersionsTypes DEF VersionsOK
    <2>4. ASSUME NEW h \in Groups, NEW v \in 1..seenBpm'[h] PROVE bpm[h][v] <= seenDesired
        <3>1. v \in 1..seenBpm[h] \/ (h = g /\ v = seenBpm[g] + 1)
            BY <2>2, VersionsTypes
        <3> QED BY <2>1, <3>1 DEF VersionsOK
    <2>5. VersionsOK'
        BY <2>1, <2>2, <2>3, <2>4 DEF VersionsOK, Contents
    <2>6. Grows
        BY <2>1, <2>3, VersionsTypes DEF Grows
    <2> QED BY <2>5, <2>6
<1>6. CASE RunInterpolation
    <2> DEFINE content == api[WithOps].content
    <2>1. content \in Contents
        BY <1>6 DEF RunInterpolation, VariablesOK, WithOpsValue
    <2>2. desired' = Append(desired, content) /\ UNCHANGED <<bpm, seenDesired, seenBpm>>
        BY <1>6 DEF RunInterpolation
    <2> HIDE DEF content
    <2>3. /\ desired' \in Seq(Contents) /\ Len(desired') = Len(desired) + 1
          /\ \A i \in 1..Len(desired) : desired'[i] = desired[i]
        BY <2>1, <2>2, AppendOne DEF VersionsOK
    <2>4. seenDesired' \in 0..Len(desired') /\ Len(desired) <= Len(desired')
        BY <2>2, <2>3, VersionsTypes DEF VersionsOK
    <2>5. \A g \in Groups : \A v \in 1..Len(bpm[g]) : bpm[g][v] \in 1..Len(desired')
        BY <2>3, VersionsTypes DEF VersionsOK
    <2>6. VersionsOK'
        BY <2>2, <2>3, <2>4, <2>5 DEF VersionsOK, Contents
    <2>7. Grows
        BY <2>2, <2>3, <2>4, VersionsTypes DEF Grows
    <2> QED BY <2>6, <2>7
<1>7. CASE RunBpm
    <2>1. /\ bpm' = [g \in Groups |-> IF g \in GroupsOf(api[Job("bpm")].template)
                                      THEN Append(bpm[g], Len(desired)) ELSE bpm[g]]
          /\ UNCHANGED <<desired, seenDesired, seenBpm>> /\ desired # <<>>
        BY <1>7 DEF RunBpm
    <2>2. Len(desired) \in Nat /\ Len(desired) \in 1..Len(desired)
        BY <2>1, EmptySeq, VersionsTypes DEF VersionsOK
    <2>3. ASSUME NEW g \in Groups
          PROVE  /\ bpm'[g] \in Seq(Nat)
                 /\ Len(bpm[g]) <= Len(bpm'[g]) /\ \A v \in 1..Len(bpm[g]) : bpm'[g][v] = bpm[g][v]
                 /\ \A v \in 1..Len(bpm'[g]) : bpm'[g][v] \in 1..Len(desired)
                 /\ Len(bpm'[g]) \in Nat
        <3>1. CASE bpm'[g] = bpm[g]
            BY <3>1, VersionsTypes DEF VersionsOK
        <3>2. CASE bpm'[g] = Append(bpm[g], Len(desired))
            <4>1. /\ bpm'[g] \in Seq(Nat) /\ Len(bpm'[g]) = Len(bpm[g]) + 1 /\ bpm'[g][Len(bpm[g]) + 1] = Len(desired)
                  /\ \A v \in 1..Len(bpm[g]) : bpm'[g][v] = bpm[g][v]
                BY <2>2, <3>2, AppendOne, VersionsTypes
            <4>2. ASSUME NEW v \in 1..Len(bpm'[g]) PROVE bpm'[g][v] \in 1..Len(desired)
                <5>1. v \in 1..Len(bpm[g]) \/ v = Len(bpm[g]) + 1
                    BY <4>1, VersionsTypes
                <5> QED BY <2>2, <4>1, <5>1 DEF VersionsOK
            <4>3. Len(bpm[g]) <= Len(bpm'[g]) /\ Len(bpm'[g]) \in Nat
                <5> DEFINE n == Len(bpm[g])
                           m == Len(bpm'[g])
                <5>1. n \in Nat /\ m = n + 1
                    BY <4>1, VersionsTypes
                <5> HIDE DEF n, m
                <5>2. n <= m /\ m \in Nat
                    BY <5>1
                <5> QED BY <5>2 DEF n, m
            <4> QED BY <4>1, <4>2, <4>3
        <3> QED BY <2>1, <3>1, <3>2
    <2>4. bpm' \in [Groups -> Seq(Nat)]
        BY <2>1, <2>3
    <2>5. \A g \in Groups : seenBpm'[g] \in 0..Len(bpm'[g])
        BY <2>1, <2>3, VersionsTypes DEF VersionsOK
    <2>6. \A g \in Groups : \A v \in 1..seenBpm[g] : bpm'[g][v] <= seenDesired
        <3> SUFFICES ASSUME NEW g \in Groups, NEW v \in 1..seenBpm[g] PROVE bpm'[g][v] <= seenDesired
            OBVIOUS
        <3>1. v \in 1..Len(bpm[g]) /\ bpm[g][v] <= seenDesired
            BY VersionsTypes DEF VersionsOK
        <3> QED BY <2>3, <3>1
    <2>7. VersionsOK'
        BY <2>1, <2>3, <2>4, <2>5, <2>6 DEF VersionsOK, Contents
    <2>8. Grows
        BY <2>1, <2>3, VersionsTypes DEF Grows
    <2> QED BY <2>7, <2>8
<1>8. CASE Restart
    <2>1. /\ UNCHANGED <<desired, bpm>> /\ seenDesired' = Len(desired)
          /\ seenBpm' = [g \in Groups |-> Len(bpm[g])]
        BY <1>8 DEF Restart
    <2>2. \A g \in Groups : \A v \in 1..seenBpm'[g] : bpm[g][v] <= seenDesired'
        BY <2>1, VersionsTypes DEF VersionsOK
    <2>3. /\ seenDesired' \in 0..Len(desired) /\ seenBpm' \in [Groups -> Nat]
          /\ \A g \in Groups : seenBpm'[g] \in 0..Len(bpm[g])
        BY <2>1, VersionsTypes
    <2>4. VersionsOK'
        BY <2>1, <2>2, <2>3 DEF VersionsOK, Contents
    <2>5. Grows
        BY <2>1, VersionsTypes DEF Grows, VersionsOK
    <2> QED BY <2>4, <2>5
<1> QED BY <1>1, <1>2, <1>3, <1>4, <1>5, <1>6, <1>7, <1>8 DEF Next, SyncStep, JobStep

LEMMA RequestStays ==
    ASSUME VersionsOK, Grows, VersionsOK', NEW r, IsRequest(r, seenBpm)
    PROVE  IsRequest(r, seenBpm')
<1>1. r \in Groups \X Nat /\ r[1] \in Groups /\ r[2] \in 1..seenBpm[r[1]]
    BY DEF IsRequest
<1>2. seenBpm[r[1]] \in Nat /\ seenBpm'[r[1]] \in Nat /\ seenBpm[r[1]] <= seenBpm'[r[1]]
    BY <1>1, VersionsTypes DEF Grows, VersionsOK
<1>3. r[2] \in 1..seenBpm'[r[1]]
    BY <1>1, <1>2
<1> QED BY <1>1, <1>3 DEF IsRequest

\* A sequence of all requests there are, in any order.
LEMMA AllRequests ==
    ASSUME VersionsOK,
           NEW q \in SetToSeqs(UNION {{g} \X (1..Len(bpm[g])) : g \in Groups}),
           NEW versions, \A g \in Groups : versions[g] = Len(bpm[g])
    PROVE  q \in Seq(Groups \X Nat) /\ \A i \in 1..Len(q) : IsRequest(q[i], versions)
<1> DEFINE all == UNION {{g} \X (1..Len(bpm[g])) : g \in Groups}
           n == Cardinality(all)
<1>1. \A r \in all : IsRequest(r, versions)
    <2> SUFFICES ASSUME NEW g \in Groups, NEW r \in {g} \X (1..Len(bpm[g])) PROVE IsRequest(r, versions)
        OBVIOUS
    <2>1. Len(bpm[g]) \in Nat
        BY VersionsTypes
    <2> QED BY <2>1 DEF IsRequest
<1>2. n \in Nat
    BY AllRequestsFinite, FS_CardinalityType
<1>3. q \in [1..n -> all]
    BY DEF SetToSeqs
<1> HIDE DEF all, n
<1>4. q \in Seq(all) /\ Len(q) = n
    BY <1>2, <1>3
<1>5. \A i \in 1..Len(q) : q[i] \in all
    BY <1>4, <1>3
<1>6. \A i \in 1..Len(q) : IsRequest(q[i], versions)
    BY <1>1, <1>5
<1>7. q \in Seq(Groups \X Nat)
    <2>1. \A i \in 1..n : q[i] \in Groups \X Nat
        BY <1>4, <1>6 DEF IsRequest
    <2> QED BY <1>2, <1>3, <2>1
<1> QED BY <1>6, <1>7

\* Requests come from the cache, from the queue, or from the worker.
LEMMA RequestsNext ==
    ASSUME VersionsOK, Grows, VersionsOK', BpmOK, RequestsOK, [Next]_vars PROVE RequestsOK'
<1> USE DEF queueVars, workerVars
<1>0. /\ \A i \in 1..Len(bpmQueue) : IsRequest(bpmQueue[i], seenBpm')
      /\ \A r \in delayed : IsRequest(r, seenBpm')
      /\ bpmQueue \in Seq(Groups \X Nat) /\ Len(bpmQueue) \in Nat
    BY RequestStays, LenProperties DEF RequestsOK
<1>1. ASSUME bpmQueue' = bpmQueue, \A r \in delayed' : r \in delayed \/ IsRequest(r, seenBpm') PROVE RequestsOK'
    BY <1>0, <1>1 DEF RequestsOK
<1>2. rb.pc # "idle" => IsRequest(BpmRequest, seenBpm')
    <2> SUFFICES ASSUME rb.pc # "idle" PROVE IsRequest(BpmRequest, seenBpm')
        OBVIOUS
    <2>1. rb.group \in Groups /\ rb.version \in Nat /\ rb.version \in 1..seenBpm[rb.group]
        BY DEF BpmOK, Deploying, Idle
    <2>2. IsRequest(BpmRequest, seenBpm)
        BY <2>1 DEF IsRequest, BpmRequest
    <2> QED BY <2>2, RequestStays
<1>3. ASSUME NEW r, IsRequest(r, seenBpm'), bpmQueue' = Append(bpmQueue, r), delayed' \subseteq delayed
      PROVE  RequestsOK'
    <2>1. r \in Groups \X Nat
        BY <1>3 DEF IsRequest
    <2>2. /\ bpmQueue' \in Seq(Groups \X Nat) /\ Len(bpmQueue') = Len(bpmQueue) + 1
          /\ \A i \in 1..Len(bpmQueue) : bpmQueue'[i] = bpmQueue[i]
          /\ bpmQueue'[Len(bpmQueue) + 1] = r
        BY <1>0, <1>3, <2>1, AppendOne
    <2>3. ASSUME NEW i \in 1..Len(bpmQueue') PROVE IsRequest(bpmQueue'[i], seenBpm')
        <3>1. i \in 1..Len(bpmQueue) \/ i = Len(bpmQueue) + 1
            BY <1>0, <2>2
        <3> QED BY <1>0, <1>3, <2>2, <3>1
    <2> QED BY <1>0, <1>3, <2>2, <2>3 DEF RequestsOK
<1>4. CASE DeploymentStep
    <2>1. bpmQueue' = bpmQueue /\ delayed' = delayed
        BY <1>4 DEF DeploymentStep, DeploymentGet, ResolveManifest, ResolveOps, ResolvePart,
            ApplyWithOps, VariableInterpolationJob, InstanceGroupManifestJob, BPMConfigsJob, Apply
    <2> QED BY <1>1, <2>1
<1>5. CASE VariablesStep \/ (\E p \in Parts : SyncPart(p)) \/ (\E o \in Objects : SyncObject(o)) \/ SyncDesired \/ JobStep
    <2>1. bpmQueue' = bpmQueue /\ delayed' = delayed
        BY <1>5 DEF VariablesStep, VariablesGet, GenerateVariable, StampWithOps, SyncPart, SyncObject, SyncDesired,
            JobStep, RunInterpolation, RunBpm, IssueVariable
    <2> QED BY <1>1, <2>1
<1>6. CASE (\E p \in Parts : UserEdit(p)) \/ OtherBreaks \/ OtherMended \/ UNCHANGED vars
    <2>1. bpmQueue' = bpmQueue /\ delayed' = delayed
        BY <1>6 DEF UserEdit, OtherBreaks, OtherMended, vars
    <2> QED BY <1>1, <2>1
<1>7. CASE BpmGet
    <2>1. bpmQueue # <<>> /\ bpmQueue' = RemoveAt(bpmQueue, 1) /\ delayed' = delayed
        BY <1>7 DEF BpmGet, Take
    <2>2. /\ bpmQueue' \in Seq(Groups \X Nat) /\ Len(bpmQueue) = Len(bpmQueue') + 1
          /\ \A i \in 1..Len(bpmQueue') : bpmQueue'[i] = bpmQueue[i + 1]
        BY <1>0, <2>1, WithoutFirst
    <2>3. ASSUME NEW i \in 1..Len(bpmQueue') PROVE IsRequest(bpmQueue'[i], seenBpm')
        <3>1. i + 1 \in 1..Len(bpmQueue)
            BY <2>2, LenProperties
        <3> QED BY <1>0, <2>2, <3>1
    <2> QED BY <1>0, <2>1, <2>2, <2>3 DEF RequestsOK
<1>8. CASE ReconcileDNS \/ BPMResources \/ DeployService \/ DeployWorkload
    <2>1. bpmQueue' = bpmQueue /\ rb.pc # "idle" /\ delayed' \subseteq delayed \cup {BpmRequest}
        BY <1>8 DEF ReconcileDNS, BPMResources, DeployService, DeployWorkload, ApplyBpm, RequeueBpm
    <2> QED BY <1>1, <1>2, <2>1
<1>9. CASE \E g \in Groups : SyncBpm(g)
    <2> PICK g \in Groups : SyncBpm(g)
        BY <1>9
    <2> DEFINE r == <<g, seenBpm[g] + 1>>
    <2>1. bpmQueue' = Append(bpmQueue, r) /\ delayed' = delayed /\ seenBpm'[g] = seenBpm[g] + 1
        BY DEF SyncBpm, VersionsOK
    <2>2. seenBpm[g] \in Nat
        BY VersionsTypes
    <2>3. r \in Groups \X Nat /\ r[2] \in 1..seenBpm'[r[1]]
        BY <2>1, <2>2
    <2> HIDE DEF r
    <2>4. IsRequest(r, seenBpm')
        BY <2>3 DEF IsRequest
    <2> QED BY <1>3, <2>1, <2>4
<1>10. CASE \E r \in delayed : Redeliver(r)
    <2> PICK r \in delayed : Redeliver(r)
        BY <1>10
    <2>1. bpmQueue' = Append(bpmQueue, r) /\ delayed' \subseteq delayed
        BY DEF Redeliver
    <2> QED BY <1>0, <1>3, <2>1
<1>11. CASE ApiError
    <2>1. bpmQueue' = bpmQueue /\ (delayed' = delayed \/ (rb.pc # "idle" /\ delayed' = delayed \cup {BpmRequest}))
        BY <1>11 DEF ApiError, RequeueBpm
    <2> QED BY <1>1, <1>2, <2>1
<1>12. CASE Crash
    <2>1. bpmQueue' = <<>> /\ delayed' = {}
        BY <1>12 DEF Crash
    <2> QED BY <2>1 DEF RequestsOK
<1>13. CASE Restart
    <2>1. /\ bpmQueue' \in SetToSeqs(UNION {{g} \X (1..Len(bpm[g])) : g \in Groups})
          /\ delayed' = delayed /\ \A g \in Groups : seenBpm'[g] = Len(bpm[g])
        BY <1>13 DEF Restart
    <2>2. bpmQueue' \in Seq(Groups \X Nat) /\ \A i \in 1..Len(bpmQueue') : IsRequest(bpmQueue'[i], seenBpm')
        BY <2>1, AllRequests
    <2> QED BY <1>0, <2>1, <2>2 DEF RequestsOK
<1> QED BY <1>4, <1>5, <1>6, <1>7, <1>8, <1>9, <1>10, <1>11, <1>12, <1>13 DEF Next, BpmStep, SyncStep

\* The worker reads the latest manifest that the cache has, after its request: it
\* is at least the one that the BPM information comes from.
LEMMA BpmNext ==
    ASSUME VersionsOK, Grows, VersionsOK', BpmOK, RequestsOK, [Next]_vars PROVE BpmOK'
<1> USE DEF workerVars
<1>1. ASSUME NEW g \in Groups, NEW v \in 1..seenBpm[g]
      PROVE  /\ v \in 1..seenBpm'[g] /\ bpm'[g][v] = bpm[g][v] /\ bpm[g][v] \in Nat
             /\ bpm[g][v] >= 1 /\ bpm[g][v] <= seenDesired
    <2>1. /\ seenBpm[g] \in Nat /\ seenBpm'[g] \in Nat /\ seenBpm[g] <= seenBpm'[g]
          /\ Len(bpm[g]) \in Nat /\ seenBpm[g] <= Len(bpm[g])
        BY VersionsTypes DEF Grows, VersionsOK
    <2>2. v \in 1..seenBpm'[g] /\ v \in 1..Len(bpm[g])
        BY <2>1
    <2>3. bpm[g][v] \in 1..Len(desired)
        BY <2>2 DEF VersionsOK
    <2>4. Len(desired) \in Nat
        BY VersionsTypes
    <2>5. bpm[g][v] \in Nat /\ bpm[g][v] >= 1
        BY <2>3, <2>4
    <2>6. bpm[g][v] <= seenDesired
        BY DEF VersionsOK
    <2>7. bpm'[g][v] = bpm[g][v]
        BY <2>2 DEF Grows
    <2> QED BY <2>2, <2>5, <2>6, <2>7
<1>2. seenDesired \in Nat /\ seenDesired' \in Nat /\ seenDesired <= seenDesired'
    BY VersionsTypes DEF Grows, VersionsOK
<1>3. /\ rb.pc = "idle" => rb = Idle
      /\ rb.pc # "idle" => /\ rb \in Deploying /\ rb.group \in Groups
                           /\ rb.version \in 1..seenBpm[rb.group] /\ rb.manifest \in 1..seenDesired
                           /\ bpm[rb.group][rb.version] <= rb.manifest
      /\ Idle.pc = "idle"
    BY DEF BpmOK, Idle, Deploying
<1>4. CASE rb' = Idle
    BY <1>3, <1>4 DEF BpmOK
<1>5. ASSUME rb.pc # "idle", rb' \in Deploying,
             rb'.group = rb.group, rb'.version = rb.version, rb'.manifest = rb.manifest
      PROVE  BpmOK'
    <2>1. /\ rb.version \in 1..seenBpm'[rb.group] /\ bpm'[rb.group][rb.version] = bpm[rb.group][rb.version]
        BY <1>1, <1>3, <1>5
    <2>2. rb.manifest \in 1..seenDesired'
        BY <1>2, <1>3, <1>5
    <2> QED BY <1>3, <1>5, <2>1, <2>2 DEF BpmOK, Deploying
<1>6. CASE rb' = rb
    BY <1>3, <1>4, <1>5, <1>6
<1>7. ASSUME NEW pc \in {"dns", "resources", "service", "workload"}, rb.pc # "idle", rb' = [rb EXCEPT !.pc = pc]
      PROVE  BpmOK'
    <2>1. /\ rb' \in Deploying /\ rb'.group = rb.group /\ rb'.version = rb.version /\ rb'.manifest = rb.manifest
        BY <1>3, <1>7 DEF Deploying
    <2> QED BY <1>5, <1>7, <2>1
<1>8. CASE BpmGet
    <2> DEFINE g == bpmQueue[1][1]
               v == bpmQueue[1][2]
    <2>1. 1 \in 1..Len(bpmQueue)
        <3>1. Len(bpmQueue) \in Nat \ {0}
            BY <1>8, EmptySeq DEF BpmGet, RequestsOK
        <3> QED BY <3>1
    <2>2. IsRequest(bpmQueue[1], seenBpm)
        BY <2>1 DEF RequestsOK
    <2>3. g \in Groups /\ v \in Nat /\ v \in 1..seenBpm[g]
        BY <2>2 DEF IsRequest
    <2>4. rb' = [pc |-> "dns", group |-> g, version |-> v, manifest |-> seenDesired] /\ seenDesired' = seenDesired
        BY <1>8 DEF BpmGet, Take, DesiredManifest, cacheVars
    <2> HIDE DEF g, v
    <2>5. /\ rb' \in Deploying /\ rb'.group = g /\ rb'.version = v /\ rb'.manifest = seenDesired
        BY <1>2, <2>3, <2>4 DEF Deploying
    <2>6. v \in 1..seenBpm'[g] /\ bpm'[g][v] <= seenDesired /\ seenDesired \in 1..seenDesired'
        BY <1>1, <1>2, <2>3, <2>4
    <2> QED BY <2>5, <2>6 DEF BpmOK
<1>9. CASE ReconcileDNS \/ BPMResources \/ DeployService \/ DeployWorkload
    <2>1. rb.pc # "idle" /\ (rb' = Idle \/ \E pc \in {"dns", "resources", "service", "workload"} : rb' = [rb EXCEPT !.pc = pc])
        BY <1>9 DEF ReconcileDNS, BPMResources, DeployService, DeployWorkload, ApplyBpm, RequeueBpm
    <2> QED BY <1>4, <1>7, <2>1
<1>10. CASE DeploymentStep
    BY <1>6, <1>10 DEF DeploymentStep, DeploymentGet, ResolveManifest, ResolveOps, ResolvePart,
        ApplyWithOps, VariableInterpolationJob, InstanceGroupManifestJob, BPMConfigsJob, Apply
<1>11. CASE VariablesStep \/ SyncStep \/ JobStep \/ (\E r \in delayed : Redeliver(r))
    BY <1>6, <1>11 DEF VariablesStep, VariablesGet, GenerateVariable, StampWithOps, SyncStep, SyncPart, SyncObject,
        SyncDesired, SyncBpm, JobStep, RunInterpolation, RunBpm, IssueVariable, Redeliver
<1>12. CASE (\E p \in Parts : UserEdit(p)) \/ OtherBreaks \/ OtherMended \/ ApiError \/ Crash \/ Restart \/ UNCHANGED vars
    BY <1>4, <1>6, <1>12 DEF UserEdit, OtherBreaks, OtherMended, ApiError, RequeueBpm, Crash, Restart, vars
<1> QED BY <1>8, <1>9, <1>10, <1>11, <1>12 DEF Next, BpmStep

LEMMA WorkloadNext ==
    ASSUME DomainsOK, VersionsOK, Grows, VersionsOK', BpmOK, [Next]_vars, NEW g \in Groups, WorkloadOK(g)
    PROVE  WorkloadOK(g)'
<1>1. /\ Len(desired) \in Nat /\ Len(desired') \in Nat /\ Len(desired) <= Len(desired')
      /\ Len(bpm[g]) \in Nat /\ Len(bpm'[g]) \in Nat /\ Len(bpm[g]) <= Len(bpm'[g])
      /\ \A v \in 1..Len(bpm[g]) : bpm'[g][v] = bpm[g][v]
    <2>1. Len(desired') \in Nat /\ bpm'[g] \in Seq(Nat)
        BY LenProperties DEF VersionsOK
    <2> QED BY <2>1, LenProperties, VersionsTypes DEF Grows
<1>2. ASSUME NEW x \in Built, api'[Workload(g)] = x, x.manifest \in 1..Len(desired),
             x.version \in 1..Len(bpm[g]), bpm[g][x.version] <= x.manifest
      PROVE  WorkloadOK(g)'
    <2>1. x.manifest \in 1..Len(desired') /\ x.version \in 1..Len(bpm'[g]) /\ bpm'[g][x.version] = bpm[g][x.version]
        BY <1>1, <1>2
    <2> QED BY <1>2, <2>1 DEF WorkloadOK, Workload, Built
<1>3. CASE api'[Workload(g)] = api[Workload(g)]
    <2>1. CASE api[Workload(g)] = None
        BY <1>3, <2>1 DEF WorkloadOK, Workload
    <2>2. CASE api[Workload(g)] # None
        BY <1>2, <1>3, <2>2 DEF WorkloadOK
    <2> QED BY <2>1, <2>2
<1>4. CASE rb.pc = "workload" /\ rb.group = g /\ api'[Workload(g)] = BuiltFrom
    <2>1. rb.version \in 1..seenBpm[g] /\ rb.manifest \in 1..seenDesired /\ bpm[g][rb.version] <= rb.manifest
        BY <1>4 DEF BpmOK
    <2>2. rb.version \in 1..Len(bpm[g]) /\ rb.manifest \in 1..Len(desired)
        <3>1. seenBpm[g] \in 0..Len(bpm[g]) /\ seenDesired \in 0..Len(desired)
            BY DEF VersionsOK
        <3>2. Len(bpm[g]) \in Nat /\ Len(desired) \in Nat
            BY VersionsTypes
        <3> QED BY <2>1, <3>1, <3>2
    <2>3. BuiltFrom \in Built /\ BuiltFrom.manifest = rb.manifest /\ BuiltFrom.version = rb.version
        BY <1>1, <2>2 DEF BuiltFrom, Built
    <2> QED BY <1>2, <1>4, <2>1, <2>2, <2>3
<1> QED BY <1>3, <1>4, ObjectsEffect, WorkloadEffect

LEMMA InvInit == Init => IInv
<1> SUFFICES ASSUME Init PROVE IInv
    OBVIOUS
<1> USE ConstantsAssumption DEF Init
<1>1. DomainsOK
    BY DEF DomainsOK
<1>2. InputOK
    <2>1. 1 \in 1..MaxRev /\ 0 \in 0..MaxRev /\ 0 \in 0..MaxDisturbances
        BY DEF Init
    <2>2. input \in Contents /\ cached \in [Parts -> 0..MaxRev]
        BY <2>1 DEF Contents
    <2> QED BY <2>1, <2>2 DEF InputOK
<1>3. DeployerOK
    BY DEF DeployerOK, Idle
<1>4. VariablesOK
    BY ObjectsDiffer DEF VariablesOK, Idle
<1>5. JobsOK
    BY ObjectsDiffer DEF JobsOK
<1>6. VersionsOK
    BY DEF VersionsOK
<1>7. RequestsOK
    BY DEF RequestsOK
<1>8. BpmOK
    BY DEF BpmOK, Idle
<1>9. \A g \in Groups : WorkloadOK(g)
    BY ObjectsDiffer DEF WorkloadOK
<1> QED BY <1>1, <1>2, <1>3, <1>4, <1>5, <1>6, <1>7, <1>8, <1>9 DEF IInv

LEMMA InvNext == IInv /\ [Next]_vars => IInv'
<1> SUFFICES ASSUME IInv, [Next]_vars PROVE IInv'
    OBVIOUS
<1>1. DomainsOK /\ InputOK /\ DeployerOK /\ VariablesOK /\ JobsOK /\ VersionsOK /\ RequestsOK /\ BpmOK
    BY DEF IInv
<1>2. DomainsOK' /\ InputOK' /\ DeployerOK' /\ VariablesOK' /\ JobsOK'
    BY <1>1, DomainsNext, InputNext, DeployerNext, VariablesNext, JobsNext
<1>3. VersionsOK' /\ Grows
    BY <1>1, VersionsNext
<1>4. RequestsOK' /\ BpmOK'
    BY <1>1, <1>3, RequestsNext, BpmNext
<1>5. \A g \in Groups : WorkloadOK(g)'
    BY <1>1, <1>3, WorkloadNext DEF IInv
<1> QED BY <1>2, <1>3, <1>4, <1>5 DEF IInv

\* The inductive invariant holds.
THEOREM Invariant == Spec => []IInv
BY InvInit, InvNext, PTL DEF Spec

LEMMA InvTypeOK == IInv => TypeOK
<1> SUFFICES ASSUME IInv PROVE TypeOK
    OBVIOUS
<1>1. DomainsOK /\ InputOK /\ DeployerOK /\ VariablesOK /\ VersionsOK /\ RequestsOK /\ BpmOK
    BY DEF IInv
<1>2. \A g \in Groups : api[Workload(g)] \in {None} \cup [manifest : 1..Len(desired), version : 1..Len(bpm[g])]
    <2> SUFFICES ASSUME NEW g \in Groups, api[Workload(g)] # None
                 PROVE  api[Workload(g)] \in [manifest : 1..Len(desired), version : 1..Len(bpm[g])]
        OBVIOUS
    <2>1. /\ api[Workload(g)] \in Built /\ api[Workload(g)].manifest \in 1..Len(desired)
          /\ api[Workload(g)].version \in 1..Len(bpm[g])
        BY DEF IInv, WorkloadOK
    <2> QED BY <2>1 DEF Built
<1>3. bpm \in [Groups -> Seq(1..Len(desired))]
    <2>1. ASSUME NEW g \in Groups PROVE bpm[g] \in Seq(1..Len(desired))
        <3>1. bpm[g] \in Seq(Nat) /\ \A v \in 1..Len(bpm[g]) : bpm[g][v] \in 1..Len(desired)
            BY <1>1 DEF VersionsOK
        <3> QED BY <3>1
    <2> QED BY <1>1, <2>1 DEF VersionsOK
<1>4. Range(bpmQueue) \cup delayed \subseteq UNION {{g} \X (1..seenBpm[g]) : g \in Groups}
    <2>1. ASSUME NEW r, IsRequest(r, seenBpm) PROVE r \in UNION {{g} \X (1..seenBpm[g]) : g \in Groups}
        <3>1. r[1] \in Groups /\ r = <<r[1], r[2]>> /\ r[2] \in 1..seenBpm[r[1]]
            BY <2>1 DEF IsRequest
        <3>2. r \in {r[1]} \X (1..seenBpm[r[1]])
            BY <3>1
        <3> QED BY <3>1, <3>2
    <2>2. \A r \in Range(bpmQueue) : IsRequest(r, seenBpm)
        BY <1>1 DEF Range, RequestsOK
    <2> QED BY <1>1, <2>1, <2>2 DEF RequestsOK
<1>5. WorkerOK
    <2>1. /\ rd.pc \in {"idle", "manifest", "ops", "with-ops", "dm", "ig", "bpm"}
          /\ rd.pc # "idle" => \A p \in DOMAIN rd.got : p \in Parts /\ rd.got[p] \in 1..MaxRev
        BY <1>1 DEF DeployerOK, Resolving, Idle, Contents, Revisions, Parts
    <2>2. rg.pc \in {"idle", "create"} /\ (rg.pc = "create" => rg.todo \subseteq Vars)
        BY <1>1 DEF VariablesOK, Creating, Idle
    <2>3. /\ rb.pc \in {"idle", "dns", "resources", "service", "workload"}
          /\ rb.pc # "idle" => rb.group \in Groups
        BY <1>1 DEF BpmOK, Deploying, Idle
    <2> QED BY <1>1, <2>1, <2>2, <2>3 DEF WorkerOK, BpmOK
<1> QED BY <1>1, <1>2, <1>3, <1>4, <1>5 DEF TypeOK, DomainsOK, InputOK, VariablesOK, VersionsOK

\* Objects, versions, requests and workers keep their types, for any groups,
\* variables, manifests and any number of edits and disturbances: among them that
\* a request names a version that the cache has, and that a worker never looks for
\* a manifest where there is none.
THEOREM TypeCorrect == Spec => []TypeOK
BY Invariant, InvTypeOK, PTL

\* A workload is never built from a desired manifest older than the one its BPM
\* information was rendered from, whatever is delayed, retried or replayed.
THEOREM ManifestIsNotOlder == Spec => []ManifestNotOlder
<1>1. IInv => ManifestNotOlder
    BY DEF IInv, WorkloadOK, ManifestNotOlder
<1> QED BY <1>1, Invariant, PTL
-----------------------------------------------------------------------------
(***************************************************************************)
(* No version of the desired manifest repeats the one before it.           *)
(***************************************************************************)

\* What else than variable interpolation writes a version: nothing.  Its job has
\* run or not, and the deployment reconciler does not make it run again.
LEMMA OnlyInterpolation ==
    ASSUME [Next]_vars
    PROVE  RunInterpolation \/ (desired' = desired /\ (ran' = ran \/ RunBpm))
<1> USE DEF secretVars
<1>1. CASE DeploymentStep
    BY <1>1 DEF DeploymentStep, DeploymentGet, ResolveManifest, ResolveOps, ResolvePart,
        ApplyWithOps, VariableInterpolationJob, InstanceGroupManifestJob, BPMConfigsJob, Apply
<1>2. CASE VariablesStep \/ BpmStep \/ SyncStep
    BY <1>2 DEF VariablesStep, VariablesGet, GenerateVariable, StampWithOps, BpmStep, BpmGet, Take,
        BPMResources, ReconcileDNS, DeployService, DeployWorkload, ApplyBpm,
        SyncStep, SyncPart, SyncObject, SyncDesired, SyncBpm
<1>3. CASE JobStep
    BY <1>3 DEF JobStep, IssueVariable, RunBpm
<1>4. CASE (\E r \in delayed : Redeliver(r)) \/ (\E p \in Parts : UserEdit(p))
           \/ OtherBreaks \/ OtherMended \/ ApiError \/ Crash \/ Restart \/ UNCHANGED vars
    BY <1>4 DEF Redeliver, UserEdit, OtherBreaks, OtherMended, ApiError, Crash, Restart, vars
<1> QED BY <1>1, <1>2, <1>3, <1>4 DEF Next

LEMMA InterpolatedInit == Init => InterpolatedOnce
BY DEF Init, InterpolatedOnce, NoIdleVersions

LEMMA InterpolatedNext ==
    ASSUME IInv, InterpolatedOnce, [Next]_vars PROVE InterpolatedOnce'
<1> DEFINE job == Job("dm")
<1>1. /\ DomainsOK /\ BpmOK /\ JobsOK /\ VersionsOK /\ VariablesOK /\ "dm" \in JobNames
      /\ job \in Objects /\ api[job] \in {None} \cup JobValue
    BY ObjectsDiffer DEF IInv, JobsOK, JobNames
<1>2. CASE RunInterpolation
    <2> DEFINE content == api[WithOps].content
    <2>1. /\ desired' = Append(desired, content) /\ ran' = [ran EXCEPT !["dm"] = content]
          /\ api' = [api EXCEPT ![job].strategy = "done"]
          /\ api[job] # None /\ (api[job].strategy = "once" \/ ran["dm"] # content)
        BY <1>2 DEF RunInterpolation, Triggered, Finish
    <2>2. content \in Contents
        BY <1>1, <1>2 DEF RunInterpolation, VariablesOK, WithOpsValue
    <2> HIDE DEF content
    <2>3. /\ desired' \in Seq(Contents) /\ Len(desired') = Len(desired) + 1 /\ Len(desired) \in Nat
          /\ desired'[Len(desired) + 1] = content /\ \A i \in 1..Len(desired) : desired'[i] = desired[i]
        BY <1>1, <2>1, <2>2, AppendOne DEF VersionsOK
    <2>4. ran'["dm"] = content /\ desired'[Len(desired')] = content
        BY <1>1, <2>1, <2>3 DEF JobsOK
    <2>5. api'[job] # None /\ api'[job].strategy = "done"
        <3>1. api'[job] = [api[job] EXCEPT !.strategy = "done"] /\ api[job] \in JobValue
            BY <1>1, <2>1 DEF DomainsOK
        <3> HIDE DEF job
        <3>2. api'[job] \in JobValue /\ api'[job].strategy = "done"
            BY <3>1 DEF JobValue
        <3> QED BY <3>2, NoneAssumption DEF JobValue
    <2>7. desired # <<>> => desired[Len(desired)] # content
        BY <2>1 DEF InterpolatedOnce
    <2>8. NoIdleVersions'
        <3> SUFFICES ASSUME NEW i \in 1..(Len(desired') - 1) PROVE desired'[i] # desired'[i + 1]
            BY DEF NoIdleVersions
        <3>1. i \in 1..Len(desired)
            BY <2>3
        <3>2. CASE i = Len(desired)
            <4>1. desired # <<>>
                BY <3>1, EmptySeq, <1>1
            <4> QED BY <2>3, <2>7, <3>1, <3>2, <4>1
        <3>3. CASE i # Len(desired)
            <4>1. i \in 1..(Len(desired) - 1) /\ i + 1 \in 1..Len(desired)
                BY <2>3, <3>1, <3>3
            <4> QED BY <2>3, <4>1 DEF InterpolatedOnce, NoIdleVersions
        <3> QED BY <3>2, <3>3
    <2> QED BY <2>4, <2>5, <2>8 DEF InterpolatedOnce
<1>3. CASE desired' = desired /\ (ran' = ran \/ RunBpm)
    <2>1. ran'["dm"] = ran["dm"]
        BY <1>1, <1>3 DEF RunBpm, Finish, JobsOK
    <2>2. NoIdleVersions'
        BY <1>3 DEF InterpolatedOnce, NoIdleVersions
    <2>3. ASSUME desired # <<>> PROVE api'[job] # None /\ api'[job].strategy = "done"
        <3>1. api[job] # None /\ api[job].strategy = "done" /\ api[job] \in JobValue
            BY <1>1, <2>3 DEF InterpolatedOnce
        <3>2. \/ api'[job] = api[job]
              \/ seen[job] = api[job] /\ api'[job] = MutatedJob("dm")
              \/ api'[job] = [api[job] EXCEPT !.strategy = "done"]
            BY <1>1, ObjectsEffect, JobEffect
        <3>4. CASE seen[job] = api[job] /\ api'[job] = MutatedJob("dm")
            <4>1. api'[job] = [template |-> rd.got, strategy |-> "done"]
                BY <3>1, <3>4 DEF MutatedJob
            <4>2. rd.pc = "dm" \/ api'[job] = api[job] \/ api'[job] = [api[job] EXCEPT !.strategy = "done"]
                BY <1>1, ObjectsEffect, JobEffect
            <4>3. rd.pc = "dm" => rd.got \in Contents
                BY ResolvingFacts DEF IInv, DeployerOK
            <4> HIDE DEF job
            <4>4. api'[job] \in JobValue
                BY <3>1, <4>1, <4>2, <4>3 DEF JobValue
            <4> QED BY <4>1, <4>4, NoneAssumption DEF JobValue
        <3>5. CASE api'[job] = [api[job] EXCEPT !.strategy = "done"]
            <4> HIDE DEF job
            <4>1. api'[job] \in JobValue /\ api'[job].strategy = "done"
                BY <3>1, <3>5 DEF JobValue
            <4> QED BY <4>1, NoneAssumption DEF JobValue
        <3> QED BY <3>1, <3>2, <3>4, <3>5
    <2> QED BY <1>3, <2>1, <2>2, <2>3 DEF InterpolatedOnce
<1> QED BY <1>2, <1>3, OnlyInterpolation

\* Retries, conflicts and restarts of the deployment reconciler never make the
\* variable interpolation job run with what it has run with.
THEOREM VersionsAreNew == Spec => []NoIdleVersions
<1>1. InterpolatedOnce => NoIdleVersions
    BY DEF InterpolatedOnce
<1> QED BY <1>1, Invariant, InterpolatedInit, InterpolatedNext, PTL DEF Spec
-----------------------------------------------------------------------------
(***************************************************************************)
(* Without a disturbance, an instance group only goes forward.             *)
(***************************************************************************)

\* The BPM reconciler goes on with its request, has done with it, or does nothing.
KeepsRequest ==
    \/ rb' = Idle \/ rb' = rb
    \/ /\ rb.pc # "idle" /\ rb'.pc # "idle"
       /\ rb'.group = rb.group /\ rb'.version = rb.version

\* A step of a history without a disturbance and without a request put back.
LEMMA SmoothStep ==
    ASSUME IInv, [Next]_vars, Smooth'
    PROVE  /\ Smooth
           /\ InOrder =>
                \/ BpmGet \/ \E g \in Groups : SyncBpm(g)
                \/ UNCHANGED <<bpmQueue, seenBpm, delayed, operator>> /\ KeepsRequest
<1> USE DEF queueVars, workerVars, cacheVars
<1> DEFINE Quiet == UNCHANGED <<bpmQueue, seenBpm, delayed, operator, disturbed, putBack>> /\ KeepsRequest
<1>1. disturbed' = 0 /\ putBack' = FALSE /\ disturbed \in Nat /\ putBack \in BOOLEAN
    <2>1. disturbed \in Nat /\ putBack \in BOOLEAN
        BY DEF IInv, InputOK
    <2>2. disturbed' = 0 /\ ~putBack' /\ putBack' \in BOOLEAN
        BY InvNext DEF Smooth, IInv, InputOK
    <2> QED BY <2>1, <2>2
<1>2. disturbed + 1 # 0
    BY <1>1
<1>3. CASE DeploymentStep
    <2>1. Quiet
        BY <1>3 DEF DeploymentStep, DeploymentGet, ResolveManifest, ResolveOps, ResolvePart,
            ApplyWithOps, VariableInterpolationJob, InstanceGroupManifestJob, BPMConfigsJob, Apply, KeepsRequest
    <2> QED BY <1>1, <2>1 DEF Smooth
<1>4. CASE VariablesStep \/ (\E p \in Parts : SyncPart(p)) \/ (\E o \in Objects : SyncObject(o)) \/ SyncDesired \/ JobStep
    <2>1. Quiet
        BY <1>4 DEF VariablesStep, VariablesGet, GenerateVariable, StampWithOps, SyncPart, SyncObject,
            SyncDesired, JobStep, RunInterpolation, RunBpm, IssueVariable, KeepsRequest
    <2> QED BY <1>1, <2>1 DEF Smooth
<1>5. CASE (\E p \in Parts : UserEdit(p)) \/ OtherMended \/ UNCHANGED vars
    <2>1. Quiet
        BY <1>5 DEF UserEdit, OtherMended, vars, KeepsRequest
    <2> QED BY <1>1, <2>1 DEF Smooth
<1>6. CASE BpmGet
    BY <1>1, <1>6 DEF BpmGet, Take, Smooth
<1>7. CASE \E g \in Groups : SyncBpm(g)
    BY <1>1, <1>7 DEF SyncBpm, Smooth
<1>8. CASE ReconcileDNS \/ BPMResources \/ DeployService \/ DeployWorkload
    <2>1. UNCHANGED <<bpmQueue, seenBpm, operator, disturbed>> /\ rb.pc # "idle"
        BY <1>8 DEF ReconcileDNS, BPMResources, DeployService, DeployWorkload, ApplyBpm
    <2>2. \/ /\ UNCHANGED <<delayed, putBack>>
             /\ rb' = Idle \/ \E pc \in {"resources", "service", "workload"} : rb' = [rb EXCEPT !.pc = pc]
          \/ putBack' = TRUE
        BY <1>8 DEF ReconcileDNS, BPMResources, DeployService, DeployWorkload, ApplyBpm, RequeueBpm
    <2>3. rb \in Deploying
        BY <2>1 DEF IInv, BpmOK, Idle
    <2>4. \A pc \in {"resources", "service", "workload"} :
              rb' = [rb EXCEPT !.pc = pc] => rb'.pc # "idle" /\ rb'.group = rb.group /\ rb'.version = rb.version
        BY <2>3 DEF Deploying
    <2>5. UNCHANGED <<delayed, putBack>> /\ KeepsRequest
        BY <1>1, <2>1, <2>2, <2>4 DEF KeepsRequest
    <2> QED BY <1>1, <2>1, <2>5 DEF Smooth
<1>9. CASE \E r \in delayed : Redeliver(r)
    BY <1>1, <1>9 DEF Redeliver, Smooth, InOrder
<1>10. CASE OtherBreaks \/ ApiError \/ Crash
    BY <1>1, <1>2, <1>10 DEF OtherBreaks, ApiError, Crash, Disturb
<1>11. CASE Restart
    BY <1>1, <1>11 DEF Restart, Smooth, InOrder, Up
<1> QED BY <1>3, <1>4, <1>5, <1>6, <1>7, <1>8, <1>9, <1>10, <1>11 DEF Next, BpmStep, SyncStep

LEMMA OrderTypes ==
    ASSUME IInv
    PROVE  /\ bpmQueue \in Seq(Groups \X Nat) /\ Len(bpmQueue) \in Nat
           /\ \A i \in 1..Len(bpmQueue) : /\ bpmQueue[i][1] \in Groups /\ bpmQueue[i][2] \in Nat
                                          /\ bpmQueue[i][2] <= seenBpm[bpmQueue[i][1]]
           /\ \A g \in Groups : seenBpm[g] \in Nat
           /\ \A g \in Groups : api[Workload(g)] # None => api[Workload(g)].version \in Nat
           /\ rb.pc # "idle" => rb.group \in Groups /\ rb.version \in Nat /\ rb.version <= seenBpm[rb.group]
           /\ rb.pc = "idle" => rb = Idle
<1>1. VersionsOK /\ RequestsOK /\ BpmOK
    BY DEF IInv
<1>2. \A g \in Groups : seenBpm[g] \in Nat
    BY <1>1, VersionsTypes
<1>3. bpmQueue \in Seq(Groups \X Nat) /\ Len(bpmQueue) \in Nat
    BY <1>1, LenProperties DEF RequestsOK
<1>4. \A i \in 1..Len(bpmQueue) : /\ bpmQueue[i][1] \in Groups /\ bpmQueue[i][2] \in Nat
                                  /\ bpmQueue[i][2] <= seenBpm[bpmQueue[i][1]]
    BY <1>1, <1>2 DEF RequestsOK, IsRequest
<1>5. \A g \in Groups : api[Workload(g)] # None => api[Workload(g)].version \in Nat
    <2> SUFFICES ASSUME NEW g \in Groups, api[Workload(g)] # None PROVE api[Workload(g)].version \in Nat
        OBVIOUS
    <2>1. api[Workload(g)] \in Built
        BY DEF IInv, WorkloadOK
    <2> QED BY <2>1 DEF Built
<1>6. rb.pc # "idle" => rb.group \in Groups /\ rb.version \in Nat /\ rb.version \in 1..seenBpm[rb.group]
    BY <1>1 DEF BpmOK, Deploying, Idle
<1>7. rb.pc = "idle" => rb = Idle
    BY <1>1 DEF BpmOK, Deploying
<1> QED BY <1>2, <1>3, <1>4, <1>5, <1>6, <1>7

LEMMA OrderInit == Init => SmoothInOrder
BY ObjectsDiffer DEF Init, SmoothInOrder, InOrder, Up, Idle

\* The workload is what it was or what the worker builds, which is not older.
LEMMA WorkloadForward ==
    ASSUME IInv, InOrder, [Next]_vars, NEW g \in Groups
    PROVE  \/ api'[Workload(g)] = api[Workload(g)]
           \/ /\ rb.pc # "idle" /\ rb.group = g /\ api'[Workload(g)].version = rb.version
              /\ api[Workload(g)] # None => api[Workload(g)].version <= rb.version
<1>1. DomainsOK /\ BpmOK
    BY DEF IInv
<1> QED BY <1>1, ObjectsEffect, WorkloadEffect DEF InOrder, BuiltFrom

LEMMA OrderNext ==
    ASSUME IInv, SmoothInOrder, [Next]_vars PROVE SmoothInOrder'
<1> SUFFICES ASSUME Smooth' PROVE InOrder'
    BY DEF SmoothInOrder
<1>1. InOrder /\ Smooth
    BY SmoothStep DEF SmoothInOrder
<1>2. CASE BpmGet
    <2>1. /\ bpmQueue # <<>> /\ bpmQueue' = RemoveAt(bpmQueue, 1) /\ rb.pc = "idle"
          /\ rb' = [pc |-> "dns", group |-> bpmQueue[1][1], version |-> bpmQueue[1][2], manifest |-> seenDesired]
          /\ UNCHANGED <<api, delayed, operator, seenBpm>>
        BY <1>2 DEF BpmGet, Take, DesiredManifest, objVars, cacheVars
    <2>2. /\ bpmQueue' \in Seq(Groups \X Nat) /\ Len(bpmQueue) = Len(bpmQueue') + 1
          /\ \A i \in 1..Len(bpmQueue') : bpmQueue'[i] = bpmQueue[i + 1]
        <3>1. bpmQueue \in Seq(Groups \X Nat)
            BY OrderTypes
        <3> QED BY <2>1, <3>1, WithoutFirst
    <2>3. Len(bpmQueue') \in Nat
        BY <2>2, LenProperties
    <2>4. \A i \in 1..Len(bpmQueue') : i + 1 \in 1..Len(bpmQueue) /\ 1 < i + 1
        BY <2>2, <2>3
    <2>5. 1 \in 1..Len(bpmQueue)
        BY <2>2, <2>3
    <2>6. rb'.group = bpmQueue[1][1] /\ rb'.version = bpmQueue[1][2]
        BY <2>1
    <2>7. ASSUME NEW i \in 1..Len(bpmQueue'), NEW k \in 1..Len(bpmQueue'),
                 i < k, bpmQueue'[i][1] = bpmQueue'[k][1]
          PROVE  bpmQueue'[i][2] < bpmQueue'[k][2]
        <3>1. i + 1 \in 1..Len(bpmQueue) /\ k + 1 \in 1..Len(bpmQueue) /\ i + 1 < k + 1
            BY <2>3, <2>4, <2>7
        <3>2. bpmQueue'[i] = bpmQueue[i + 1] /\ bpmQueue'[k] = bpmQueue[k + 1]
            BY <2>2
        <3> QED BY <1>1, <2>7, <3>1, <3>2 DEF InOrder
    <2>8. \A i \in 1..Len(bpmQueue') : bpmQueue'[i][1] = rb'.group => rb'.version < bpmQueue'[i][2]
        BY <1>1, <2>2, <2>4, <2>5, <2>6 DEF InOrder
    <2>9. ASSUME NEW g \in Groups, api[Workload(g)] # None
          PROVE  /\ api[Workload(g)].version <= seenBpm[g]
                 /\ \A i \in 1..Len(bpmQueue') : bpmQueue'[i][1] = g => api[Workload(g)].version < bpmQueue'[i][2]
                 /\ rb'.group = g => api[Workload(g)].version <= rb'.version
        <3>1. \A i \in 1..Len(bpmQueue') : bpmQueue'[i][1] = g => api[Workload(g)].version < bpmQueue'[i][2]
            BY <1>1, <2>2, <2>4, <2>9 DEF InOrder
        <3>2. bpmQueue[1][1] = g => api[Workload(g)].version < bpmQueue[1][2]
            BY <1>1, <2>5, <2>9 DEF InOrder
        <3>3. rb'.group = g => api[Workload(g)].version <= rb'.version
            BY <2>5, <2>6, <2>9, <3>2, OrderTypes
        <3> QED BY <1>1, <2>9, <3>1, <3>3 DEF InOrder
    <2>10. delayed' = {} /\ Up'
        BY <1>1, <2>1 DEF InOrder, Up
    <2> QED BY <2>1, <2>7, <2>8, <2>9, <2>10 DEF InOrder, Workload
<1>3. ASSUME NEW h \in Groups, SyncBpm(h) PROVE InOrder'
    <2> DEFINE r == <<h, seenBpm[h] + 1>>
               n == Len(bpmQueue)
    <2>1. /\ bpmQueue' = Append(bpmQueue, r) /\ UNCHANGED <<api, delayed, operator, rb>>
          /\ seenBpm' = [seenBpm EXCEPT ![h] = seenBpm[h] + 1]
        BY <1>3 DEF SyncBpm, objVars, workerVars
    <2>2. r \in Groups \X Nat /\ r[1] = h /\ r[2] = seenBpm[h] + 1
        BY OrderTypes
    <2> HIDE DEF r
    <2>3. /\ Len(bpmQueue') = n + 1 /\ \A i \in 1..n : bpmQueue'[i] = bpmQueue[i]
          /\ bpmQueue'[n + 1] = r /\ n \in Nat
        BY <2>1, <2>2, AppendOne, OrderTypes
    <2> HIDE DEF n
    <2>4. \A i \in 1..Len(bpmQueue') : i \in 1..n \/ i = n + 1
        BY <2>3
    <2>5. ASSUME NEW i \in 1..n, bpmQueue[i][1] = h PROVE bpmQueue[i][2] < seenBpm[h] + 1
        BY <2>5, OrderTypes DEF n
    <2>6. ASSUME NEW i \in 1..Len(bpmQueue'), NEW k \in 1..Len(bpmQueue'), i < k, bpmQueue'[i][1] = bpmQueue'[k][1]
          PROVE  bpmQueue'[i][2] < bpmQueue'[k][2]
        <3>1. i \in 1..n
            BY <2>3, <2>4, <2>6
        <3>2. CASE k \in 1..n
            BY <1>1, <2>3, <2>6, <3>1, <3>2 DEF InOrder, n
        <3>3. CASE k = n + 1
            BY <2>2, <2>3, <2>5, <2>6, <3>1, <3>3
        <3> QED BY <2>4, <3>2, <3>3
    <2>7. ASSUME rb.pc # "idle", NEW i \in 1..Len(bpmQueue'), bpmQueue'[i][1] = rb.group PROVE rb.version < bpmQueue'[i][2]
        <3>1. CASE i \in 1..n
            BY <1>1, <2>3, <2>7, <3>1 DEF InOrder, n
        <3>2. CASE i = n + 1
            BY <2>2, <2>3, <2>7, <3>2, OrderTypes
        <3> QED BY <2>4, <3>1, <3>2
    <2>8. ASSUME NEW g \in Groups, api[Workload(g)] # None
          PROVE  /\ api[Workload(g)].version <= seenBpm'[g]
                 /\ \A i \in 1..Len(bpmQueue') : bpmQueue'[i][1] = g => api[Workload(g)].version < bpmQueue'[i][2]
        <3>1. api[Workload(g)].version <= seenBpm[g] /\ api[Workload(g)].version \in Nat /\ seenBpm[g] \in Nat
            BY <1>1, <2>8, OrderTypes DEF InOrder
        <3>2. seenBpm'[g] \in {seenBpm[g], seenBpm[g] + 1}
            BY <2>1 DEF IInv, VersionsOK
        <3>3. ASSUME NEW i \in 1..Len(bpmQueue'), bpmQueue'[i][1] = g PROVE api[Workload(g)].version < bpmQueue'[i][2]
            <4>1. CASE i \in 1..n
                BY <1>1, <2>3, <2>8, <3>3, <4>1 DEF InOrder, n
            <4>2. CASE i = n + 1
                BY <2>2, <2>3, <3>1, <3>3, <4>2
            <4> QED BY <2>4, <4>1, <4>2
        <3> QED BY <3>1, <3>2, <3>3
    <2>9. \A g \in Groups : (api[Workload(g)] # None /\ rb.pc # "idle" /\ rb.group = g) => api[Workload(g)].version <= rb.version
        BY <1>1 DEF InOrder
    <2>10. delayed' = {} /\ Up'
        BY <1>1, <2>1 DEF InOrder, Up
    <2> QED BY <2>1, <2>6, <2>7, <2>8, <2>9, <2>10 DEF InOrder, Workload
<1>4. CASE UNCHANGED <<bpmQueue, seenBpm, delayed, operator>> /\ KeepsRequest
    <2>1. rb'.pc # "idle" => rb.pc # "idle" /\ rb'.group = rb.group /\ rb'.version = rb.version
        BY <1>4 DEF KeepsRequest, Idle
    <2>2. delayed' = {} /\ Up'
        BY <1>1, <1>4 DEF InOrder, Up
    <2>3. ASSUME NEW g \in Groups, api'[Workload(g)] # None
          PROVE  /\ api'[Workload(g)].version <= seenBpm[g]
                 /\ \A i \in 1..Len(bpmQueue) : bpmQueue[i][1] = g => api'[Workload(g)].version < bpmQueue[i][2]
                 /\ (rb.pc # "idle" /\ rb.group = g) => api'[Workload(g)].version <= rb.version
        <3>1. CASE api'[Workload(g)] = api[Workload(g)]
            BY <1>1, <2>3, <3>1 DEF InOrder
        <3>2. CASE rb.pc # "idle" /\ rb.group = g /\ api'[Workload(g)].version = rb.version
            BY <1>1, <3>2, OrderTypes DEF InOrder
        <3> QED BY <1>1, <3>1, <3>2, WorkloadForward
    <2>4. /\ \A i, k \in 1..Len(bpmQueue) :
                (i < k /\ bpmQueue[i][1] = bpmQueue[k][1]) => bpmQueue[i][2] < bpmQueue[k][2]
          /\ rb'.pc # "idle" => \A i \in 1..Len(bpmQueue) : bpmQueue[i][1] = rb'.group => rb'.version < bpmQueue[i][2]
        BY <1>1, <2>1 DEF InOrder
    <2>5. \A g \in Groups : (api'[Workload(g)] # None /\ rb'.pc # "idle" /\ rb'.group = g) => api'[Workload(g)].version <= rb'.version
        BY <2>1, <2>3
    <2> QED BY <1>4, <2>2, <2>3, <2>4, <2>5 DEF InOrder, Workload
<1> QED BY <1>1, <1>2, <1>3, <1>4, SmoothStep

\* As long as nothing is disturbed and no BPM request is put back, the workload of
\* an instance group never goes back to older BPM information: the queue hands
\* out the versions in the order in which they were written.
THEOREM WorkloadsGoForward == Spec => OnlyForward
<1> DEFINE Forward == Smooth' => \A g \in Groups : api[Workload(g)] # None =>
                          api[Workload(g)].version <= api'[Workload(g)].version
<1>1. ASSUME IInv, SmoothInOrder, [Next]_vars PROVE [Forward]_vars
    <2> SUFFICES ASSUME Smooth', NEW g \in Groups, api[Workload(g)] # None
                 PROVE  api[Workload(g)].version <= api'[Workload(g)].version
        OBVIOUS
    <2>1. InOrder
        BY <1>1, SmoothStep DEF SmoothInOrder
    <2>2. api[Workload(g)].version \in Nat
        BY <1>1, OrderTypes
    <2> QED BY <1>1, <2>1, <2>2, WorkloadForward
<1>2. IInv /\ SmoothInOrder /\ [Next]_vars => SmoothInOrder' /\ [Forward]_vars
    BY <1>1, OrderNext
<1> QED BY <1>2, Invariant, OrderInit, PTL DEF Spec, OnlyForward
=============================================================================
