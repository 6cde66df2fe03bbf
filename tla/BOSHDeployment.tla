--------------------------- MODULE BOSHDeployment ---------------------------
(***************************************************************************)
(* The pipeline of one BOSHDeployment (pkg/kube/controllers/               *)
(* boshdeployment): the deployment reconciler resolves the manifest and    *)
(* creates the "with-ops" Secret and three ExtendedJobs, the generated     *)
(* variable reconciler creates an ExtendedSecret per variable, the jobs    *)
(* write the desired manifest and the BPM information as versioned         *)
(* Secrets, and the BPM reconciler turns each version of the BPM           *)
(* information into the workload of its instance group.                    *)
(*                                                                         *)
(* The three reconcilers share nothing but the Kubernetes API, which they  *)
(* read through caches that lag behind and write with CreateOrUpdate.      *)
(* Each has one worker, the default.  A request inside a meltdown window   *)
(* is put back with a delay; requests wait arbitrarily long here anyway.   *)
(*                                                                         *)
(* External parts, modelled from their use: Kubernetes, controller-        *)
(* runtime, quarks-job, the versioned secret store; and the ExtendedSecret *)
(* controller, of which only the result is needed.                         *)
(***************************************************************************)
EXTENDS Naturals, FiniteSets, Sequences, SequencesExt

CONSTANTS
    Groups,          \* the instance groups
    Errands,         \* the ones with an errand life cycle
    Vars,            \* the explicit variables
    None,            \* no such object
    MaxRev,          \* bound: revisions of an object the user edits
    MaxEdits,        \* bound: edits of all of them together
    ManifestGroups,  \* the instance groups of each revision of the manifest
    ManifestVars,    \* the variables of each revision of the manifest
    MaxLag,          \* bound: objects of which the cache is not up to date
    Disturbances,    \* the kinds of disturbance there are
    MaxDisturbances  \* bound: how many of them

ASSUME ConstantsAssumption ==
    /\ IsFiniteSet(Groups) /\ Errands \subseteq Groups
    /\ MaxRev \in Nat \ {0} /\ MaxEdits \in Nat /\ MaxDisturbances \in Nat /\ MaxLag \in Nat \ {0}
    /\ Disturbances \subseteq {"crash", "error", "other"}
    /\ ManifestGroups \in [1..MaxRev -> SUBSET Groups]
    /\ ManifestVars \in [1..MaxRev -> SUBSET Vars]

\* What the user edits: the BOSHDeployment, the ConfigMap with the manifest and
\* the Secret with the ops file.
Parts == {"spec", "configmap", "secret"}

VARIABLES
    input,     \* the revision of each part in the API
    cached,    \* the revision of each part in the cache (0: not there)
    api,       \* the objects the reconcilers write
    seen,      \* the same in the cache
    variables, \* the variables that have an ExtendedSecret
    issued,    \* the variables whose Secret is there
    desired,   \* the versions of the desired manifest Secret: their content
    bpm,       \* per group, the versions of the BPM Secret: the version of the
               \* desired manifest they come from
    seenDesired, \* versions of the desired manifest in the cache
    seenBpm,   \* versions of the BPM Secrets in the cache
    ran,       \* what the jobs last ran with
    queue,     \* work queues of the first two controllers
    bpmQueue,  \* work queue of the BPM controller
    delayed,   \* requests waiting to be put back in it
    rd,        \* the worker of the deployment reconciler
    rg,        \* the worker of the generated variable reconciler
    rb,        \* the worker of the BPM reconciler
    operator,  \* "running" or "down"
    broken,    \* is there another BOSHDeployment that does not resolve
    disturbed, \* disturbances so far
    putBack    \* history: has a BPM request been put back

userVars == <<input, broken>>
objVars == <<api, seen>>
secretVars == <<variables, issued, desired, bpm, ran>>
cacheVars == <<cached, seenDesired, seenBpm>>
queueVars == <<queue, bpmQueue, delayed, putBack>>
workerVars == <<rd, rg, rb>>
vars == <<userVars, objVars, secretVars, cacheVars, queueVars, workerVars,
          operator, disturbed>>

Up == operator = "running"

(***************************************************************************)
(* The objects.                                                            *)
(***************************************************************************)
WithOps == <<"with-ops", None>>
JobNames == {"dm", "ig", "bpm"}
Job(j) == <<j, None>>
DNS == <<"dns", None>>
Service(g) == <<"service", g>>
Workload(g) == <<"workload", g>>

Objects ==
    {WithOps, DNS} \cup {Job(j) : j \in JobNames}
    \cup {Service(g) : g \in Groups} \cup {Workload(g) : g \in Groups}

Contents == [Parts -> 1..MaxRev]

\* A job that is there is told from one that is not.
ASSUME NoneAssumption == None \notin [template : Contents, strategy : {"once", "done"}]

GroupsOf(content) == ManifestGroups[content["configmap"]]
VarsOf(content) == ManifestVars[content["configmap"]]

\* CreateOrUpdate of o with the mutated value: nothing to do when it is what the
\* cache has, a conflict when the cache is not up to date, a write otherwise.
Conflict(o, new) == new # seen[o] /\ seen[o] # api[o]

\* The bound on the lag: the next write waits until the cache has caught up.
CanLag(o) == Cardinality({x \in Objects : seen[x] # api[x]} \cup {o}) <= MaxLag

CreateOrUpdate(o, new) ==
    /\ ~Conflict(o, new)
    /\ new = seen[o] \/ CanLag(o)
    /\ api' = IF new = seen[o] THEN api ELSE [api EXCEPT ![o] = new]

(***************************************************************************)
(* The deployment reconciler.                                              *)
(***************************************************************************)
Idle == [pc |-> "idle"]

\* An error puts the request back.
RequeueDeployment ==
    /\ rd' = Idle
    /\ queue' = queue \cup {"deployment"}

DeploymentGet ==
    /\ Up /\ "deployment" \in queue /\ rd.pc = "idle"
    /\ queue' = queue \ {"deployment"}
    /\ rd' = [pc |-> "manifest", got |-> [p \in {"spec"} |-> cached["spec"]]]
    /\ UNCHANGED <<userVars, objVars, secretVars, cacheVars, bpmQueue, delayed, putBack,
                   rg, rb, operator, disturbed>>

\* WithOpsManifest reads the referenced objects one after the other; one that is
\* not there is an error.
ResolvePart(p, next) ==
    /\ Up
    /\ IF cached[p] = 0
       THEN RequeueDeployment
       ELSE /\ rd' = [pc |-> next,
                      got |-> [q \in DOMAIN rd.got \cup {p} |->
                                 IF q = p THEN cached[p] ELSE rd.got[q]]]
            /\ UNCHANGED queue
    /\ UNCHANGED <<userVars, objVars, secretVars, cacheVars, bpmQueue, delayed, putBack,
                   rg, rb, operator, disturbed>>

ResolveManifest == rd.pc = "manifest" /\ ResolvePart("configmap", "ops")

ResolveOps == rd.pc = "ops" /\ ResolvePart("secret", "with-ops")

\* The mutate functions: the with-ops Secret loses its annotations, a job keeps
\* its trigger strategy.
MutatedWithOps == [content |-> rd.got, stamped |-> FALSE]

\* Faulty variant: the strategy is reset.
MutatedJobReset(j) == [template |-> rd.got, strategy |-> "once"]

MutatedJob(j) ==
    [template |-> rd.got,
     strategy |-> IF seen[Job(j)] = None THEN "once" ELSE seen[Job(j)].strategy]

\* One CreateOrUpdate of the reconciler, then the next.
Apply(o, new, next) ==
    /\ Up
    /\ \/ /\ CreateOrUpdate(o, new)
          /\ rd' = IF next = "idle" THEN Idle ELSE [rd EXCEPT !.pc = next]
          /\ UNCHANGED queue
       \/ Conflict(o, new) /\ RequeueDeployment /\ UNCHANGED api
    /\ UNCHANGED <<userVars, seen, secretVars, cacheVars, bpmQueue, delayed, putBack,
                   rg, rb, operator, disturbed>>

ApplyWithOps == rd.pc = "with-ops" /\ Apply(WithOps, MutatedWithOps, "dm")

VariableInterpolationJob == rd.pc = "dm" /\ Apply(Job("dm"), MutatedJob("dm"), "ig")

InstanceGroupManifestJob == rd.pc = "ig" /\ Apply(Job("ig"), MutatedJob("ig"), "bpm")

\* The status update that follows is logged, not retried, when it fails.
BPMConfigsJob == rd.pc = "bpm" /\ Apply(Job("bpm"), MutatedJob("bpm"), "idle")

(***************************************************************************)
(* The generated variable reconciler.                                      *)
(***************************************************************************)
VariablesGet ==
    /\ Up /\ "variables" \in queue /\ rg.pc = "idle"
    /\ queue' = queue \ {"variables"}
    /\ rg' = IF VarsOf(seen[WithOps].content) = {}
             THEN Idle
             ELSE [pc |-> "create", secret |-> seen[WithOps],
                   todo |-> VarsOf(seen[WithOps].content)]
    /\ UNCHANGED <<userVars, objVars, secretVars, cacheVars, bpmQueue, delayed, putBack,
                   rd, rb, operator, disturbed>>

\* The next ExtendedSecret is created or updated.
GenerateVariable(v) ==
    /\ Up /\ rg.pc = "create" /\ v \in rg.todo
    /\ variables' = variables \cup {v}
    /\ rg' = [rg EXCEPT !.todo = @ \ {v}]
    /\ UNCHANGED <<userVars, objVars, issued, desired, bpm, ran, cacheVars, queueVars,
                   rd, rb, operator, disturbed>>

\* The Secret gets the timestamp, unless it changed since it was read.
StampWithOps ==
    /\ Up /\ rg.pc = "create" /\ rg.todo = {}
    /\ api' = IF api[WithOps] = rg.secret
              THEN [api EXCEPT ![WithOps].stamped = TRUE] ELSE api
    /\ rg' = Idle
    /\ UNCHANGED <<userVars, seen, secretVars, cacheVars, queueVars, rd, rb,
                   operator, disturbed>>

(***************************************************************************)
(* The BPM reconciler.  A request is a version of the BPM Secret of a      *)
(* group.                                                                  *)
(***************************************************************************)
RequeueBpm(r) ==
    /\ rb' = Idle
    /\ delayed' = delayed \cup {r}
    /\ putBack' = TRUE

\* Faulty variant: the oldest version.
FirstManifest == 1

\* The desired manifest is the latest version there is.
DesiredManifest == seenDesired

\* Takes a request and reads the desired manifest.
Take(i) ==
    /\ Up /\ rb.pc = "idle"
    /\ i \in DOMAIN bpmQueue
    /\ bpmQueue' = RemoveAt(bpmQueue, i)
    /\ rb' = [pc |-> "dns", group |-> bpmQueue[i][1], version |-> bpmQueue[i][2],
              manifest |-> DesiredManifest]
    /\ UNCHANGED <<userVars, objVars, secretVars, cacheVars, queue, delayed, putBack,
                   rd, rg, operator, disturbed>>

\* Faulty variant: any request.
BpmGetAny == \E i \in DOMAIN bpmQueue : Take(i)

\* The oldest request comes first.
BpmGet == bpmQueue # <<>> /\ Take(1)

BpmRequest == <<rb.group, rb.version>>

\* One CreateOrUpdate of the reconciler, then the next.
ApplyBpm(o, new, next) ==
    /\ Up
    /\ \/ /\ CreateOrUpdate(o, new)
          /\ rb' = IF next = "idle" THEN Idle ELSE [rb EXCEPT !.pc = next]
          /\ UNCHANGED <<delayed, putBack>>
       \/ Conflict(o, new) /\ RequeueBpm(BpmRequest) /\ UNCHANGED api
    /\ UNCHANGED <<userVars, seen, secretVars, cacheVars, queue, bpmQueue, rd, rg,
                   operator, disturbed>>

\* manifest.DNS.Reconcile: the ConfigMap, Deployment and Service of the BOSH DNS
\* of the whole deployment.
ReconcileDNS ==
    /\ rb.pc = "dns"
    /\ ApplyBpm(DNS, [manifest |-> rb.manifest], "resources")

\* applyBPMResources: the group must be in the latest manifest.
BPMResources ==
    /\ Up /\ rb.pc = "resources"
    /\ IF rb.group \in GroupsOf(desired[rb.manifest])
       THEN /\ rb' = [rb EXCEPT !.pc = IF rb.group \in Errands THEN "workload" ELSE "service"]
            /\ UNCHANGED <<delayed, putBack>>
       ELSE RequeueBpm(BpmRequest)
    /\ UNCHANGED <<userVars, objVars, secretVars, cacheVars, queue, bpmQueue, rd, rg,
                   operator, disturbed>>

BuiltFrom == [manifest |-> rb.manifest, version |-> rb.version]

\* deployInstanceGroups: Services (and claims, created if missing), then the
\* ExtendedStatefulSet; an errand is an ExtendedJob only.  The timestamp on the
\* BPM Secret comes last and raises no request.
DeployService == rb.pc = "service" /\ ApplyBpm(Service(rb.group), BuiltFrom, "workload")

DeployWorkload == rb.pc = "workload" /\ ApplyBpm(Workload(rb.group), BuiltFrom, "idle")

\* A request whose delay is over.
Redeliver(r) ==
    /\ Up /\ r \in delayed
    /\ delayed' = delayed \ {r}
    /\ bpmQueue' = Append(bpmQueue, r)
    /\ UNCHANGED <<userVars, objVars, secretVars, cacheVars, queue, putBack, workerVars,
                   operator, disturbed>>

(***************************************************************************)
(* Event handlers.                                                         *)
(***************************************************************************)

\* Faulty variant: Secrets are not watched.
PassesNoSecret(p) == p = "spec" \/ (p = "configmap" /\ cached["spec"] > 0)

\* Which events of the user's objects reach the deployment reconciler: those of a
\* Secret are mapped by resolving every BOSHDeployment there is, and its create
\* event must concern more than one of them.
Passes(p) ==
    \/ p = "spec"
    \/ p = "configmap" /\ cached["spec"] > 0
    \/ p = "secret" /\ cached["secret"] > 0 /\ cached["spec"] > 0
       /\ cached["configmap"] > 0 /\ ~broken

SyncPart(p) ==
    /\ Up /\ cached[p] < input[p]
    /\ cached' = [cached EXCEPT ![p] = @ + 1]
    /\ queue' = IF Passes(p) THEN queue \cup {"deployment"} ELSE queue
    /\ UNCHANGED <<userVars, objVars, secretVars, seenDesired, seenBpm, bpmQueue, delayed,
                   putBack, workerVars, operator, disturbed>>

\* An object reaches the cache.  The create event of the with-ops Secret starts
\* the generated variable reconciler, its updates do not.
SyncObject(o) ==
    /\ Up /\ seen[o] # api[o]
    /\ seen' = [seen EXCEPT ![o] = api[o]]
    /\ queue' = IF o = WithOps /\ seen[o] = None THEN queue \cup {"variables"} ELSE queue
    /\ UNCHANGED <<userVars, api, secretVars, cacheVars, bpmQueue, delayed, putBack,
                   workerVars, operator, disturbed>>

SyncDesired ==
    /\ Up /\ seenDesired < Len(desired)
    /\ seenDesired' = seenDesired + 1
    /\ UNCHANGED <<userVars, objVars, secretVars, cached, seenBpm, queueVars, workerVars,
                   operator, disturbed>>

\* The desired manifest version the next BPM Secret of g comes from.
NextBpm(g) == bpm[g][seenBpm[g] + 1]

Behind == {g \in Groups : seenBpm[g] < Len(bpm[g])}

\* Faulty variant: the BPM Secret overtakes the manifest it comes from.
SyncBpmEarly(g) ==
    /\ Up /\ g \in Behind
    /\ seenBpm' = [seenBpm EXCEPT ![g] = @ + 1]
    /\ bpmQueue' = Append(bpmQueue, <<g, seenBpm[g] + 1>>)
    /\ UNCHANGED <<userVars, objVars, secretVars, cached, seenDesired, queue, delayed,
                   putBack, workerVars, operator, disturbed>>

\* A version of a BPM Secret arrives: a create event.  Secrets arrive in the
\* order in which they were written.
SyncBpm(g) ==
    /\ Up /\ g \in Behind
    /\ NextBpm(g) <= seenDesired
    /\ \A h \in Behind : NextBpm(g) <= NextBpm(h)
    /\ seenBpm' = [seenBpm EXCEPT ![g] = @ + 1]
    /\ bpmQueue' = Append(bpmQueue, <<g, seenBpm[g] + 1>>)
    /\ UNCHANGED <<userVars, objVars, secretVars, cached, seenDesired, queue, delayed,
                   putBack, workerVars, operator, disturbed>>

(***************************************************************************)
(* The jobs and the ExtendedSecrets.  A job runs once, and again when a    *)
(* Secret it mounts changed since (UpdateOnConfigChange); its pod waits    *)
(* until the Secrets are there.                                            *)
(***************************************************************************)
IssueVariable(v) ==
    /\ v \in variables \ issued
    /\ issued' = issued \cup {v}
    /\ UNCHANGED <<userVars, objVars, variables, desired, bpm, ran, cacheVars, queueVars,
                   workerVars, operator, disturbed>>

Triggered(j, mounted) ==
    /\ api[Job(j)] # None
    /\ api[Job(j)].strategy = "once" \/ ran[j] # mounted

Finish(j, mounted) ==
    /\ ran' = [ran EXCEPT ![j] = mounted]
    /\ api' = [api EXCEPT ![Job(j)].strategy = "done"]

\* Variable interpolation writes the next version of the desired manifest.
RunInterpolation ==
    /\ api[WithOps] # None
    /\ Triggered("dm", api[WithOps].content)
    /\ VarsOf(api[Job("dm")].template) \cup VarsOf(api[WithOps].content) \subseteq issued
    /\ Finish("dm", api[WithOps].content)
    /\ desired' = Append(desired, api[WithOps].content)
    /\ UNCHANGED <<userVars, seen, variables, issued, bpm, cacheVars, queueVars, workerVars,
                   operator, disturbed>>

\* The BPM job writes a version of the BPM Secret per group of its template.
RunBpm ==
    /\ desired # <<>>
    /\ Triggered("bpm", Len(desired))
    /\ GroupsOf(api[Job("bpm")].template) \subseteq GroupsOf(Last(desired))
    /\ Finish("bpm", Len(desired))
    /\ bpm' = [g \in Groups |-> IF g \in GroupsOf(api[Job("bpm")].template)
                                THEN Append(bpm[g], Len(desired)) ELSE bpm[g]]
    /\ UNCHANGED <<userVars, seen, variables, issued, desired, cacheVars, queueVars,
                   workerVars, operator, disturbed>>

(***************************************************************************)
(* The user, other deployments, API errors and restarts.                   *)
(***************************************************************************)
Edits == input["spec"] + input["configmap"] + input["secret"] - 3

UserEdit(p) ==
    /\ input[p] < MaxRev /\ Edits < MaxEdits
    /\ input' = [input EXCEPT ![p] = @ + 1]
    /\ UNCHANGED <<broken, objVars, secretVars, cacheVars, queueVars, workerVars,
                   operator, disturbed>>

Disturb(kind) ==
    /\ kind \in Disturbances
    /\ disturbed < MaxDisturbances
    /\ disturbed' = disturbed + 1

OtherBreaks ==
    /\ Disturb("other")
    /\ ~broken /\ broken' = TRUE
    /\ UNCHANGED <<input, objVars, secretVars, cacheVars, queueVars, workerVars, operator>>

OtherMended ==
    /\ broken /\ broken' = FALSE
    /\ UNCHANGED <<input, objVars, secretVars, cacheVars, queueVars, workerVars, operator,
                   disturbed>>

\* A call to the API fails in one of the reconcilers.
ApiError ==
    /\ Disturb("error") /\ Up
    /\ \/ /\ rd.pc # "idle" /\ RequeueDeployment
          /\ UNCHANGED <<bpmQueue, delayed, putBack, rg, rb>>
       \/ /\ rg.pc # "idle" /\ rg' = Idle
          /\ queue' = queue \cup {"variables"}
          /\ UNCHANGED <<bpmQueue, delayed, putBack, rd, rb>>
       \/ /\ rb.pc # "idle" /\ RequeueBpm(BpmRequest)
          /\ UNCHANGED <<queue, bpmQueue, rd, rg>>
    /\ UNCHANGED <<userVars, objVars, secretVars, cacheVars, operator>>

Crash ==
    /\ Disturb("crash") /\ Up
    /\ operator' = "down"
    /\ rd' = Idle /\ rg' = Idle /\ rb' = Idle
    /\ queue' = {} /\ bpmQueue' = <<>> /\ delayed' = {}
    /\ UNCHANGED <<userVars, objVars, secretVars, cacheVars, putBack>>

\* Everything there is arrives as a create event, every version of every BPM
\* Secret among it, in no particular order.
Restart ==
    /\ ~Up
    /\ operator' = "running"
    /\ cached' = input /\ seen' = api
    /\ seenDesired' = Len(desired)
    /\ seenBpm' = [g \in Groups |-> Len(bpm[g])]
    /\ queue' = {"deployment"} \cup (IF api[WithOps] = None THEN {} ELSE {"variables"})
    /\ bpmQueue' \in SetToSeqs(UNION {{g} \X (1..Len(bpm[g])) : g \in Groups})
    /\ UNCHANGED <<userVars, api, secretVars, delayed, putBack, workerVars, disturbed>>

-----------------------------------------------------------------------------

Init ==
    /\ input = [p \in Parts |-> 1] /\ cached = [p \in Parts |-> 0]
    /\ api = [o \in Objects |-> None] /\ seen = api
    /\ variables = {} /\ issued = {}
    /\ desired = <<>> /\ bpm = [g \in Groups |-> <<>>]
    /\ seenDesired = 0 /\ seenBpm = [g \in Groups |-> 0]
    /\ ran = [j \in {"dm", "bpm"} |-> None]
    /\ queue = {} /\ bpmQueue = <<>> /\ delayed = {}
    /\ rd = Idle /\ rg = Idle /\ rb = Idle
    /\ operator = "running" /\ broken = FALSE
    /\ disturbed = 0 /\ putBack = FALSE

DeploymentStep ==
    \/ DeploymentGet \/ ResolveManifest \/ ResolveOps \/ ApplyWithOps
    \/ VariableInterpolationJob \/ InstanceGroupManifestJob \/ BPMConfigsJob

VariablesStep == VariablesGet \/ (\E v \in Vars : GenerateVariable(v)) \/ StampWithOps

BpmStep ==
    \/ BpmGet \/ ReconcileDNS \/ BPMResources \/ DeployService \/ DeployWorkload

SyncStep ==
    \/ \E p \in Parts : SyncPart(p)
    \/ \E o \in Objects : SyncObject(o)
    \/ SyncDesired
    \/ \E g \in Groups : SyncBpm(g)

JobStep == RunInterpolation \/ RunBpm \/ \E v \in Vars : IssueVariable(v)

Next ==
    \/ DeploymentStep \/ VariablesStep \/ BpmStep \/ SyncStep \/ JobStep
    \/ \E r \in delayed : Redeliver(r)
    \/ \E p \in Parts : UserEdit(p)
    \/ OtherBreaks \/ OtherMended \/ ApiError \/ Crash \/ Restart

Spec == Init /\ [][Next]_vars

(***************************************************************************)
(* Fairness: the workers work, what happened is delivered, a delay ends,   *)
(* jobs that can run do, and the operator is restarted.                    *)
(***************************************************************************)
Fairness ==
    /\ WF_vars(DeploymentStep) /\ WF_vars(VariablesStep) /\ WF_vars(BpmStep)
    /\ \A p \in Parts : WF_vars(SyncPart(p))
    /\ WF_vars(\E o \in Objects : SyncObject(o))
    /\ WF_vars(SyncDesired) /\ WF_vars(\E g \in Groups : SyncBpm(g))
    /\ WF_vars(RunInterpolation) /\ WF_vars(RunBpm)
    /\ WF_vars(\E v \in Vars : IssueVariable(v))
    /\ \A g \in Groups : WF_vars(\E r \in delayed : r[1] = g /\ Redeliver(r))
    /\ WF_vars(Restart)

FairSpec == Spec /\ Fairness
-----------------------------------------------------------------------------

WorkerOK ==
    /\ rd.pc \in {"idle", "manifest", "ops", "with-ops", "dm", "ig", "bpm"}
    /\ rd.pc # "idle" => \A p \in DOMAIN rd.got : p \in Parts /\ rd.got[p] \in 1..MaxRev
    /\ rg.pc \in {"idle", "create"} /\ (rg.pc = "create" => rg.todo \subseteq Vars)
    /\ rb.pc \in {"idle", "dns", "resources", "service", "workload"}
    /\ rb.pc # "idle" => /\ rb.group \in Groups
                         /\ rb.version \in 1..seenBpm[rb.group]
                         /\ rb.manifest \in 1..seenDesired

TypeOK ==
    /\ input \in Contents /\ cached \in [Parts -> 0..MaxRev]
    /\ DOMAIN api = Objects /\ DOMAIN seen = Objects
    /\ \A g \in Groups : api[Workload(g)] \in
          {None} \cup [manifest : 1..Len(desired), version : 1..Len(bpm[g])]
    /\ issued \subseteq variables /\ variables \subseteq Vars
    /\ desired \in Seq(Contents) /\ bpm \in [Groups -> Seq(1..Len(desired))]
    /\ seenDesired \in 0..Len(desired)
    /\ \A g \in Groups : seenBpm[g] \in 0..Len(bpm[g])
    /\ queue \subseteq {"deployment", "variables"}
    /\ Range(bpmQueue) \cup delayed \subseteq UNION {{g} \X (1..seenBpm[g]) : g \in Groups}
    /\ WorkerOK
    /\ operator \in {"running", "down"}
    /\ broken \in BOOLEAN /\ putBack \in BOOLEAN
    /\ disturbed \in 0..MaxDisturbances

\* A workload is never built from a manifest older than the one its BPM
\* information was rendered from, although the BPM reconciler looks for the
\* manifest on its own, in a cache, by "latest", and its requests are delayed,
\* retried and replayed.
ManifestNotOlder ==
    \A g \in Groups : api[Workload(g)] # None =>
        bpm[g][api[Workload(g)].version] <= api[Workload(g)].manifest

\* No version of the desired manifest repeats the one before it: retries,
\* conflicts and restarts of the deployment reconciler never set off a job that
\* has nothing new to do.
NoIdleVersions ==
    \A i \in 1..(Len(desired) - 1) : desired[i] # desired[i + 1]

Smooth == disturbed = 0 /\ ~putBack

\* As long as no BPM request had to be put back, an instance group never goes
\* back to older BPM information.
OnlyForward ==
    [][Smooth' => \A g \in Groups : api[Workload(g)] # None =>
          api[Workload(g)].version <= api'[Workload(g)].version]_vars

\* The last input is what the desired manifest holds and what every instance
\* group of it runs, with BPM information rendered from it.
Current ==
    /\ desired # <<>> /\ Last(desired) = input
    /\ \A g \in GroupsOf(input) :
          /\ bpm[g] # <<>> /\ Last(bpm[g]) = Len(desired)
          /\ \A o \in {Workload(g)} \cup {Service(h) : h \in {g} \ Errands} :
                api[o] = [manifest |-> Len(desired), version |-> Len(bpm[g])]

\* Nothing is disturbed and no BPM request of a group that the manifest has is
\* put back.
Undisturbed == disturbed = 0 /\ \A r \in delayed : r[1] \notin GroupsOf(input)

\* The edits have added no variable to those of the first manifest.
SameVariables == VarsOf(input) \subseteq ManifestVars[1]

\* The last edit of the BOSHDeployment, its ConfigMap or its Secret is deployed,
\* however the edits interleave with the reconcilers, the jobs and the caches, and
\* while the requests of a group that left the manifest fail and are put back for
\* good; if nothing else is disturbed and the edits add no variable, which the
\* generated variable controller would not see: it ignores the update of the Secret
\* with the manifest, against docs/controllers/boshdeployment.md ("Create and Update").
SmoothDeploys == [](Undisturbed /\ SameVariables) => <>[]Current

\* docs: "The _current version_ of the manifest is the greatest version", and it
\* is "the actual final state that the user wishes his software to be in": it is
\* what ends up deployed.
CurrentDeployed == <>[]Current
=============================================================================
