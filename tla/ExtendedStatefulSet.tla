------------------------ MODULE ExtendedStatefulSet ------------------------
(***************************************************************************)
(* The rollout of one ExtendedStatefulSet (pkg/kube/controllers/           *)
(* extendedstatefulset): the reconciler that creates versioned             *)
(* StatefulSets and the volume-management StatefulSets, the cleanup        *)
(* reconciler that deletes both, and the pod mutator, run against the      *)
(* Kubernetes API through an informer cache that lags behind it.           *)
(*                                                                         *)
(* External parts (Kubernetes, controller-runtime) are modelled from the   *)
(* way the code uses them: the API server applies one Create, Delete or    *)
(* Update at a time and refuses to create a name twice; an informer        *)
(* delivers the changes of one kind in order and late; a work queue hands  *)
(* a key to one worker at a time and keeps a key added meanwhile.          *)
(*                                                                         *)
(* Only the operator creates and deletes the StatefulSets it owns, and the *)
(* ExtendedStatefulSet itself is not deleted.                              *)
(***************************************************************************)
EXTENDS Naturals, Sequences

CONSTANTS
    NZones,          \* len(Spec.Zones); 0: the spec lists no zone
    MaxRev,          \* bound: revisions of the spec the user applies
    Revisions,       \* revision -> [replicas, volumes] of Spec.Template
    MayCrash,        \* may the operator process die
    MaxDisturbances, \* bound: API errors, pod failures, crashes, config changes
    MaxLag           \* bound: StatefulSet changes the informer may be behind

ASSUME ConstantsAssumption ==
    /\ NZones \in Nat
    /\ MaxRev \in Nat \ {0}
    /\ Revisions \in [1..MaxRev -> [replicas : Nat \ {0}, volumes : BOOLEAN]]
    /\ MayCrash \in BOOLEAN
    /\ MaxDisturbances \in Nat
    /\ MaxLag \in Nat \ {0}

VARIABLES
    spec,       \* revision of the ExtendedStatefulSet in the API
    melt,       \* Status.LastReconcile: "no" (window over), "written", "seen"
    sts,        \* the StatefulSets in the API
    pods,       \* the ready pods in the API
    claims,     \* the PersistentVolumeClaims in the API
    seenSpec,   \* informer cache of the ExtendedStatefulSet (0: not there)
    seenSts,    \* informer cache of the StatefulSets
    pending,    \* the API's StatefulSets after each change not yet delivered
    seenPods,   \* informer cache of the ready pods
    queue,      \* work queues: the controllers the key is waiting for
    rc,         \* the ExtendedStatefulSet controller's worker
    cl,         \* the cleanup controller's worker
    operator,   \* the operator process: "running" or "down"
    ran,        \* history: the StatefulSets that have had a ready pod
    disturbed   \* disturbances so far

Up == operator = "running"

apiVars == <<spec, melt, sts, pods, claims, ran>>
cacheVars == <<seenSpec, seenSts, pending, seenPods>>
vars == <<spec, melt, sts, pods, claims, seenSpec, seenSts, pending, seenPods,
          queue, rc, cl, operator, ran, disturbed>>

(***************************************************************************)
(* StatefulSets.  A version annotation is a positive number; the           *)
(* volume-management StatefulSet has none, which is version 0 here.  The   *)
(* zone and the version make the name, <name>[-z<zone>]-v<version> or      *)
(* volume-management-<name>[-z<zone>].                                     *)
(***************************************************************************)
Zones == IF NZones = 0 THEN {0} ELSE 0..(NZones - 1)

LastZone == IF NZones = 0 THEN 0 ELSE NZones - 1

StatefulSet == [zone : Zones, version : Nat, rev : 1..MaxRev]

IsVolumeManagement(s) == s.version = 0

SameName(s, t) == s.zone = t.zone /\ s.version = t.version

Versions(S) == {s.version : s \in {t \in S : ~IsVolumeManagement(t)}}

Pod(s, i) == <<s.zone, s.version, i>>

Ordinals(s) == 0..(Revisions[s.rev].replicas - 1)

\* The workers between two requests.
NoReconcile ==
    [pc |-> "idle", rev |-> 0, status |-> "no", version |-> 0, zone |-> 0]

NoCleanup == [pc |-> "idle", todo |-> {}, max |-> 0]

(***************************************************************************)
(* The reconciler.                                                         *)
(***************************************************************************)

\* Faulty variant: the error is swallowed.
SwallowReconcileError ==
    /\ rc' = NoReconcile
    /\ UNCHANGED queue

\* The worker returns an error: the key goes back to its queue.
RequeueReconcile ==
    /\ rc' = NoReconcile
    /\ queue' = queue \cup {"reconcile"}

\* A write of StatefulSets reaches the API; the informer will hear of it.
WriteSts(S) ==
    /\ Len(pending) < MaxLag
    /\ sts' = S
    /\ pending' = Append(pending, S)

\* Takes the key and reads the ExtendedStatefulSet from the cache.  Inside the
\* meltdown window the request is put back with a delay: it stays queued.
ReconcileGet ==
    /\ Up /\ "reconcile" \in queue /\ rc.pc = "idle"
    /\ melt # "seen"
    /\ queue' = queue \ {"reconcile"}
    /\ rc' = [NoReconcile EXCEPT !.pc = "list", !.rev = seenSpec, !.status = melt]
    /\ UNCHANGED <<apiVars, cacheVars, cl, operator, disturbed>>

\* Faulty variant: the version comes from the last listed StatefulSet too.
GetLastStatefulSet(S, version, current) ==
    /\ current \in S
    /\ version = current.version

\* What getCurrentStatefulSet returns: the highest version among the listed
\* StatefulSets, and the one the loop variable ends at.  "result = &ss" keeps
\* the address of that variable, and the cache lists in no particular order.
GetCurrentStatefulSet(S, version, current) ==
    /\ version \in Versions(S)
    /\ \A v \in Versions(S) : v <= version
    /\ current \in S

\* Does alterVolumeManagementStatefulSet create volume-management StatefulSets?
AltersVolumes(rev, version, currentReplicas) ==
    /\ Revisions[rev].volumes
    /\ version = 0 \/ Revisions[rev].replicas > currentReplicas

\* Lists the owned StatefulSets and decides what to create.
ReconcileList ==
    /\ Up /\ rc.pc = "list"
    /\ \A s \in seenSts : ~IsVolumeManagement(s)
    /\ \/ /\ seenSts = {}
          /\ rc' = [rc EXCEPT !.pc = IF AltersVolumes(rc.rev, 0, 0)
                                     THEN "volumes" ELSE "create"]
       \/ \E version \in Versions(seenSts), current \in seenSts :
             /\ GetCurrentStatefulSet(seenSts, version, current)
             /\ rc' = [rc EXCEPT
                          !.pc = IF AltersVolumes(rc.rev, version,
                                                  Revisions[current.rev].replicas)
                                 THEN "volumes" ELSE "create",
                          !.version = version]
    /\ UNCHANGED <<apiVars, cacheVars, queue, cl, operator, disturbed>>

\* A listed StatefulSet without version annotation is an error.
ReconcileListFails ==
    /\ Up /\ rc.pc = "list"
    /\ \E s \in seenSts : IsVolumeManagement(s)
    /\ RequeueReconcile
    /\ UNCHANGED <<apiVars, cacheVars, cl, operator, disturbed>>

\* The StatefulSet the worker creates next.
Desired ==
    [zone |-> rc.zone, rev |-> rc.rev,
     version |-> IF rc.pc = "volumes" THEN 0 ELSE rc.version + 1]

Exists(s) == \E t \in sts : SameName(s, t)

\* Faulty variant: the loop runs one zone too far.
NextZoneTooFar ==
    IF rc.zone <= LastZone
    THEN [rc EXCEPT !.zone = rc.zone + 1]
    ELSE [rc EXCEPT !.zone = 0,
                    !.pc = IF rc.pc = "volumes" THEN "create" ELSE "status"]

\* The loops over the zones: the next zone, or the next phase.
NextZone ==
    IF rc.zone < LastZone
    THEN [rc EXCEPT !.zone = rc.zone + 1]
    ELSE [rc EXCEPT !.zone = 0,
                    !.pc = IF rc.pc = "volumes" THEN "create" ELSE "status"]

\* Faulty variant: create or update instead of create.
CreateOrUpdateStatefulSet ==
    /\ Up /\ rc.pc \in {"volumes", "create"}
    /\ WriteSts({t \in sts : ~SameName(Desired, t)} \cup {Desired})
    /\ rc' = NextZone
    /\ UNCHANGED <<spec, melt, pods, claims, ran, seenSpec, seenSts, seenPods,
                   queue, cl, operator, disturbed>>

\* createVolumeManagementStatefulSets and createStatefulSet: one Create.
CreateStatefulSet ==
    /\ Up /\ rc.pc \in {"volumes", "create"}
    /\ ~Exists(Desired)
    /\ WriteSts(sts \cup {Desired})
    /\ rc' = NextZone
    /\ UNCHANGED <<spec, melt, pods, claims, ran, seenSpec, seenSts, seenPods,
                   queue, cl, operator, disturbed>>

\* The name is taken: AlreadyExists ends the reconcile with an error.
CreateAlreadyExists ==
    /\ Up /\ rc.pc \in {"volumes", "create"}
    /\ Exists(Desired)
    /\ RequeueReconcile
    /\ UNCHANGED <<apiVars, cacheVars, cl, operator, disturbed>>

\* Status().Update of LastReconcile.  The object read at the start must still
\* be the one in the API; a conflict is logged and not retried.
UpdateStatus ==
    /\ Up /\ rc.pc = "status"
    /\ melt' = IF rc.status = "no" /\ rc.rev = spec THEN "written" ELSE melt
    /\ rc' = NoReconcile
    /\ UNCHANGED <<spec, sts, pods, claims, ran, cacheVars, queue, cl, operator, disturbed>>

(***************************************************************************)
(* The cleanup reconciler.                                                 *)
(***************************************************************************)

RequeueCleanup ==
    /\ cl' = NoCleanup
    /\ queue' = queue \cup {"cleanup"}

\* Takes the key and lists the volume-management StatefulSets.
CleanupGet ==
    /\ Up /\ "cleanup" \in queue /\ cl.pc = "idle"
    /\ queue' = queue \ {"cleanup"}
    /\ cl' = [NoCleanup EXCEPT !.pc = "volumes",
                               !.todo = {s \in seenSts : IsVolumeManagement(s)}]
    /\ UNCHANGED <<apiVars, cacheVars, rc, operator, disturbed>>

\* Faulty variant: one ready pod is enough.
OneVolumeReady(s) == \E i \in Ordinals(s) : Pod(s, i) \in seenPods

\* isVolumeManagementStatefulSetReady, looked up by pod name in the cache.
VolumesReady(s) == \A i \in Ordinals(s) : Pod(s, i) \in seenPods

\* isStatefulSetReady: at least one pod.
IsReady(s) == \E i \in Ordinals(s) : Pod(s, i) \in seenPods

\* Delete goes by name.  A StatefulSet that is gone already is an error.
DeleteStatefulSet(s) ==
    IF Exists(s)
    THEN /\ WriteSts({t \in sts : ~SameName(s, t)})
         /\ cl' = [cl EXCEPT !.todo = @ \ {s}]
         /\ UNCHANGED queue
    ELSE /\ RequeueCleanup
         /\ UNCHANGED <<sts, pending>>

CleanupVolumes(s) ==
    /\ Up /\ cl.pc = "volumes" /\ s \in cl.todo
    /\ VolumesReady(s)
    /\ DeleteStatefulSet(s)
    /\ UNCHANGED <<spec, melt, pods, claims, ran, seenSpec, seenSts, seenPods,
                   rc, operator, disturbed>>

\* A pod that is not ready leaves the StatefulSet alone; one that the cache
\* does not have at all is an error.
CleanupVolumesNotReady(s) ==
    /\ Up /\ cl.pc = "volumes" /\ s \in cl.todo
    /\ ~VolumesReady(s)
    /\ \/ cl' = [cl EXCEPT !.todo = @ \ {s}] /\ UNCHANGED queue
       \/ RequeueCleanup
    /\ UNCHANGED <<apiVars, cacheVars, rc, operator, disturbed>>

\* Faulty variant: the highest version, available or not.
MaxVersionAnyway(chosen, max) ==
    \A s \in chosen : s.version <= max

\* GetMaxAvailableVersion of the version -> ready map, of which "chosen" holds,
\* per version, the StatefulSet the listing loop met last.
MaxAvailableVersion(chosen, max) ==
    /\ max \in {0} \cup {s.version : s \in {t \in chosen : IsReady(t)}}
    /\ \A s \in chosen : IsReady(s) => s.version <= max

\* One StatefulSet of S for every version in S.
LastListed(S) ==
    {T \in SUBSET S : /\ Versions(T) = Versions(S)
                      /\ \A s, t \in T : s.version = t.version => s = t}

\* listStatefulSetVersions, then the decision whether there is more than one.
CleanupVersions ==
    /\ Up /\ cl.pc = "volumes" /\ cl.todo = {}
    /\ \A s \in seenSts : ~IsVolumeManagement(s)
    /\ \E chosen \in LastListed(seenSts) :
          \E max \in {0} \cup Versions(chosen) :
             /\ MaxAvailableVersion(chosen, max)
             /\ cl' = IF \E v, w \in Versions(seenSts) : v # w
                      THEN [NoCleanup EXCEPT !.pc = "list", !.max = max]
                      ELSE NoCleanup
    /\ UNCHANGED <<apiVars, cacheVars, queue, rc, operator, disturbed>>

CleanupVersionsFails ==
    /\ Up /\ cl.pc = "volumes" /\ cl.todo = {}
    /\ \E s \in seenSts : IsVolumeManagement(s)
    /\ RequeueCleanup
    /\ UNCHANGED <<apiVars, cacheVars, rc, operator, disturbed>>

\* cleanupStatefulSets lists again; what is at least as new is skipped.
CleanupList ==
    /\ Up /\ cl.pc = "list"
    /\ cl' = [cl EXCEPT !.pc = "delete",
                        !.todo = {s \in seenSts : \/ IsVolumeManagement(s)
                                                  \/ s.version < cl.max}]
    /\ UNCHANGED <<apiVars, cacheVars, queue, rc, operator, disturbed>>

CleanupDelete(s) ==
    /\ Up /\ cl.pc = "delete" /\ s \in cl.todo
    /\ IF IsVolumeManagement(s)
       THEN RequeueCleanup /\ UNCHANGED <<sts, pending>>
       ELSE DeleteStatefulSet(s)
    /\ UNCHANGED <<spec, melt, pods, claims, ran, seenSpec, seenSts, seenPods,
                   rc, operator, disturbed>>

CleanupDone ==
    /\ Up /\ cl.pc = "delete" /\ cl.todo = {}
    /\ cl' = NoCleanup
    /\ UNCHANGED <<apiVars, cacheVars, queue, rc, operator, disturbed>>

(***************************************************************************)
(* Event handlers: what the informers deliver and what it enqueues.        *)
(***************************************************************************)

\* A revision of the ExtendedStatefulSet arrives.  The first is a create event,
\* enqueued when the API holds no StatefulSet of this owner; a later one is an
\* update event with a changed spec.
SyncSpec ==
    /\ Up /\ seenSpec < spec
    /\ seenSpec' = seenSpec + 1
    /\ queue' = IF seenSpec > 0 \/ sts = {} THEN queue \cup {"reconcile"} ELSE queue
    /\ UNCHANGED <<apiVars, seenSts, pending, seenPods, rc, cl, operator, disturbed>>

\* The status change arrives; an update event with the same spec is dropped.
SyncStatus ==
    /\ Up /\ melt = "written"
    /\ melt' = "seen"
    /\ UNCHANGED <<spec, sts, pods, claims, ran, cacheVars, queue, rc, cl, operator, disturbed>>

\* The next change of the StatefulSets arrives.
SyncSts ==
    /\ Up /\ pending # <<>>
    /\ seenSts' = Head(pending)
    /\ pending' = Tail(pending)
    /\ UNCHANGED <<apiVars, seenSpec, seenPods, queue, rc, cl, operator, disturbed>>

SyncPod(p) ==
    /\ Up /\ (p \in pods) # (p \in seenPods)
    /\ seenPods' = IF p \in pods THEN seenPods \cup {p} ELSE seenPods \ {p}
    /\ UNCHANGED <<apiVars, seenSpec, seenSts, pending, queue, rc, cl, operator, disturbed>>

\* A create or update event of a StatefulSet that reports ready replicas: its
\* status changed, or the informer resynchronised.
StsEvent(s) ==
    /\ Up /\ s \in seenSts \cap sts
    /\ \E i \in Ordinals(s) : Pod(s, i) \in pods
    /\ "cleanup" \notin queue
    /\ queue' = queue \cup {"cleanup"}
    /\ UNCHANGED <<apiVars, cacheVars, rc, cl, operator, disturbed>>

\* The meltdown window of the last reconcile is over.
MeltdownEnds ==
    /\ melt # "no"
    /\ melt' = "no"
    /\ UNCHANGED <<spec, sts, pods, claims, ran, cacheVars, queue, rc, cl, operator, disturbed>>

(***************************************************************************)
(* The cluster: the user, the StatefulSet controller and the pods.         *)
(***************************************************************************)

UserUpdate ==
    /\ spec < MaxRev
    /\ spec' = spec + 1
    /\ UNCHANGED <<melt, sts, pods, claims, ran, cacheVars, queue, rc, cl, operator, disturbed>>

\* The pod mutator admits a pod of s.  It reads the StatefulSet from the cache,
\* and finds the ExtendedStatefulSet by dropping the last two parts of the pod's
\* name: with zones what is left is <name>-z<zone>, which does not exist.
AdmitsPod(s) ==
    /\ Up
    /\ \/ IsVolumeManagement(s)
       \/ /\ \E t \in seenSts : SameName(s, t)
          /\ NZones = 0 /\ seenSpec > 0

\* The claim a pod mounts is the one the volume-management StatefulSet makes
\* for the same zone and ordinal.
Claim(s, i) == <<s.zone, i>>

\* Pod i of s is created, admitted and becomes ready.  A volume-management pod
\* gets a claim of its own; another one needs the claim to exist.
PodReady(s, i) ==
    /\ s \in sts /\ i \in Ordinals(s) /\ Pod(s, i) \notin pods
    /\ AdmitsPod(s)
    /\ IF IsVolumeManagement(s)
       THEN claims' = claims \cup {Claim(s, i)}
       ELSE /\ Revisions[seenSpec].volumes => Claim(s, i) \in claims
            /\ UNCHANGED claims
    /\ pods' = pods \cup {Pod(s, i)}
    /\ ran' = ran \cup {<<s.zone, s.version>>}
    /\ UNCHANGED <<spec, melt, sts, cacheVars, queue, rc, cl, operator, disturbed>>

Disturb ==
    /\ disturbed < MaxDisturbances
    /\ disturbed' = disturbed + 1

\* A pod of a deleted StatefulSet is collected.
PodCollected(p) ==
    /\ p \in pods
    /\ \A s \in sts : <<s.zone, s.version>> # <<p[1], p[2]>>
    /\ pods' = pods \ {p}
    /\ UNCHANGED <<spec, melt, sts, claims, ran, cacheVars, queue, rc, cl, operator, disturbed>>

\* A pod fails.
PodFails(p) ==
    /\ Disturb
    /\ p \in pods
    /\ \E s \in sts : <<s.zone, s.version>> = <<p[1], p[2]>>
    /\ pods' = pods \ {p}
    /\ UNCHANGED <<spec, melt, sts, claims, ran, cacheVars, queue, rc, cl, operator>>

\* A watched ConfigMap or Secret changed: the ExtendedStatefulSet that
\* references it is enqueued.
ConfigChange ==
    /\ Disturb
    /\ Up /\ seenSpec > 0
    /\ queue' = queue \cup {"reconcile"}
    /\ UNCHANGED <<apiVars, cacheVars, rc, cl, operator>>

\* A call to the API fails.  Any error but a failed status update is retried.
ApiErrorInReconcile ==
    /\ Disturb
    /\ Up
    /\ \/ rc.pc \in {"list", "volumes", "create"} /\ RequeueReconcile
       \/ rc.pc = "status" /\ rc' = NoReconcile /\ UNCHANGED queue
    /\ UNCHANGED <<apiVars, cacheVars, cl, operator>>

ApiErrorInCleanup ==
    /\ Disturb
    /\ Up /\ cl.pc # "idle"
    /\ RequeueCleanup
    /\ UNCHANGED <<apiVars, cacheVars, rc, operator>>

(***************************************************************************)
(* The operator process dies and is started again.  Workers and queues are *)
(* lost; the new process lists everything and sees each object as a create *)
(* event.                                                                  *)
(***************************************************************************)
Crash ==
    /\ MayCrash /\ Disturb
    /\ Up
    /\ operator' = "down"
    /\ rc' = NoReconcile /\ cl' = NoCleanup
    /\ queue' = {}
    /\ UNCHANGED <<apiVars, cacheVars>>

Restart ==
    /\ ~Up
    /\ operator' = "running"
    /\ seenSpec' = spec /\ seenSts' = sts /\ pending' = <<>> /\ seenPods' = pods
    /\ melt' = IF melt = "written" THEN "seen" ELSE melt
    /\ queue' = {q \in {"reconcile", "cleanup"} :
                   IF q = "reconcile" THEN sts = {}
                   ELSE \E s \in sts, p \in pods : <<s.zone, s.version>> = <<p[1], p[2]>>}
    /\ UNCHANGED <<spec, sts, pods, claims, ran, rc, cl, disturbed>>

-----------------------------------------------------------------------------

Init ==
    /\ spec = 1 /\ melt = "no"
    /\ sts = {} /\ pods = {} /\ claims = {} /\ ran = {}
    /\ seenSpec = 0 /\ seenSts = {} /\ pending = <<>> /\ seenPods = {}
    /\ queue = {}
    /\ rc = NoReconcile /\ cl = NoCleanup
    /\ operator = "running"
    /\ disturbed = 0

ReconcileStep ==
    \/ ReconcileGet \/ ReconcileList \/ ReconcileListFails
    \/ CreateStatefulSet \/ CreateAlreadyExists \/ UpdateStatus

CleanupStep ==
    \/ CleanupGet
    \/ \E s \in cl.todo : \/ CleanupVolumes(s) \/ CleanupVolumesNotReady(s)
                          \/ CleanupDelete(s)
    \/ CleanupVersions \/ CleanupVersionsFails
    \/ CleanupList \/ CleanupDone

ClusterStep ==
    \/ UserUpdate
    \/ MeltdownEnds
    \/ \E s \in sts : \E i \in Ordinals(s) : PodReady(s, i)
    \/ \E p \in pods : PodCollected(p)

InformerStep ==
    \/ SyncSpec \/ SyncStatus \/ SyncSts
    \/ \E p \in pods \cup seenPods : SyncPod(p)
    \/ \E s \in seenSts : StsEvent(s)

Disturbance ==
    \/ \E p \in pods : PodFails(p)
    \/ ConfigChange \/ ApiErrorInReconcile \/ ApiErrorInCleanup
    \/ Crash

Next == ReconcileStep \/ CleanupStep \/ ClusterStep \/ InformerStep \/ Disturbance \/ Restart

Spec == Init /\ [][Next]_vars

(***************************************************************************)
(* Fairness: a worker with a request keeps working on it; what happened is *)
(* eventually delivered; a StatefulSet with ready replicas raises another  *)
(* event at the informer's next resynchronisation; pods that can start do; *)
(* the meltdown window ends; a dead operator is restarted.                 *)
(***************************************************************************)
Fairness ==
    /\ WF_vars(ReconcileStep) /\ WF_vars(CleanupStep)
    /\ WF_vars(SyncSpec) /\ WF_vars(SyncStatus) /\ WF_vars(SyncSts)
    /\ WF_vars(\E p \in pods \cup seenPods : SyncPod(p))
    /\ WF_vars(\E s \in seenSts : StsEvent(s))
    /\ WF_vars(\E s \in sts : \E i \in Ordinals(s) : PodReady(s, i))
    /\ WF_vars(MeltdownEnds)
    /\ WF_vars(Restart)

FairSpec == Spec /\ Fairness

-----------------------------------------------------------------------------

ApiTypeOK ==
    /\ spec \in 1..MaxRev /\ melt \in {"no", "written", "seen"}
    /\ sts \subseteq StatefulSet
    /\ pods \subseteq Zones \X Nat \X Nat
    /\ claims \subseteq Zones \X Nat
    /\ ran \subseteq Zones \X Nat

CacheTypeOK ==
    /\ seenSpec \in 0..MaxRev
    /\ seenSts \subseteq StatefulSet
    /\ pending \in Seq(SUBSET StatefulSet)
    /\ seenPods \subseteq Zones \X Nat \X Nat

WorkerTypeOK ==
    /\ queue \subseteq {"reconcile", "cleanup"}
    /\ rc \in [pc : {"idle", "list", "volumes", "create", "status"}, rev : 0..MaxRev,
              status : {"no", "written", "seen"}, version : Nat, zone : Zones]
    /\ cl \in [pc : {"idle", "volumes", "list", "delete"}, todo : SUBSET StatefulSet,
              max : Nat]
    /\ operator \in {"running", "down"}
    /\ disturbed \in 0..MaxDisturbances

TypeOK == ApiTypeOK /\ CacheTypeOK /\ WorkerTypeOK

\* A StatefulSet is never created below a version that exists, however old the
\* list is from which the reconciler took "currentVersion + 1".
VersionsOnlyGrow ==
    [][\A s \in sts' \ sts : ~IsVolumeManagement(s) =>
          \A t \in sts : t.version <= s.version]_vars

\* A version number names one revision of the template, in every zone and in
\* the cache as well as in the API: no retry, restart or reuse of a name gives
\* two StatefulSets of the same version different templates.
VersionIsOneRevision ==
    \A s, t \in sts \cup seenSts :
        ~IsVolumeManagement(s) /\ s.version = t.version => s.rev = t.rev

\* Cleanup deletes a version only while a newer one is left that has had a
\* ready pod (docs: "only after the new statefulset version instances are up
\* and running"), although lists, pods and deletes are read at different times.
CleanupKeepsNewer ==
    [][\A s \in sts \ sts' : ~IsVolumeManagement(s) =>
          \E t \in sts' : t.version > s.version /\ <<t.zone, t.version>> \in ran]_vars

\* Every pod of a versioned StatefulSet finds its claim, now or once the
\* volume-management StatefulSet of its zone has its pods: cleanup never deletes
\* that one too early and the replica difference never skips it wrongly.
VolumesCovered ==
    \A s \in sts : ~IsVolumeManagement(s) /\ Revisions[s.rev].volumes =>
        \A i \in Ordinals(s) :
            \/ Claim(s, i) \in claims
            \/ \E t \in sts : /\ IsVolumeManagement(t) /\ t.zone = s.zone
                              /\ i \in Ordinals(t)

\* When the changes stop, one version of the last revision is left in every
\* zone and the volume-management StatefulSets are gone (docs: "The controller
\* continues to reconcile until there's only one version").
Converged ==
    \E s \in sts : sts = [zone : Zones, version : {s.version}, rev : {spec}]

Converges == <>[]Converged

\* docs: "When an update needs to happen, a second StatefulSet for the new
\* version is deployed": the last revision is deployed, operator restarts
\* included.
UpdateDeployed == <>[](\E s \in sts : s.rev = spec)
=============================================================================
