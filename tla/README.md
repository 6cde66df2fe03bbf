# cf-operator in TLA+

cf-operator runs BOSH deployments on Kubernetes. This directory holds TLA+
models of its controllers, of the conversion of a manifest to pods and of
`container-run`, TLC configurations that check
them on small instances, and TLAPS proofs of their central safety properties for
every instance. `PROJECT.json` lists the components, the runs, the mutants (a
plausible bug for every property of a passing run, which the run finds), the
source lines behind every definition, the hazards the properties are aimed at
and the theorems. This file explains them.

Run a model with `tlc -config <run>.cfg <module>` and the proofs with
`tlapm <module>.tla`.

## 1. The system

A user creates a `BOSHDeployment` that names a manifest and ops files in
ConfigMaps, Secrets or URLs. The operator is one process with several
controllers (no leader election). Controllers never call each other: one writes
an object through the Kubernetes API, the informer of another delivers it later,
a predicate decides whether it becomes a request in a work queue, and a worker
reconciles the request, reading mostly from the informer caches.

```
BOSHDeployment, ConfigMap, Secret        (user)
   | deployment reconciler
   v
with-ops Secret ---- generated variable reconciler --> ExtendedSecrets
ExtendedJobs dm, ig, bpm                                  | ExtendedSecret and
   | quarks-job runs them                                 | CSR reconcilers
   v                                                      v
desired manifest, ig-resolved and BPM Secrets (versioned) <-- variable Secrets
   | BPM reconciler
   v
Services, ExtendedStatefulSets, errand ExtendedJobs, BOSH DNS
   | ExtendedStatefulSet and cleanup reconcilers, pod mutator
   v
StatefulSets, volume claims, pods --> container-run in every BPM container
```

| Component (under `src/`) | State it keeps | Operations | What makes it correct |
|---|---|---|---|
| BOSHDeployment controllers, `pkg/kube/controllers/boshdeployment` | with-ops Secret, three ExtendedJobs, ExtendedSecrets, Services, workloads, DNS | three reconcilers, their predicates and event mappings | the last edit is deployed; a workload does not mix rounds or go back; retries do not run jobs again |
| Reference tracking, `pkg/kube/util/reference` | none | which events concern which objects | no event of a referenced object is lost |
| Manifest resolution, `pkg/bosh/converter/resolver.go`, `interpolator.go` | none | read manifest and ops, implicit variables, addons | the result is of the objects as they were; a missing one is retried |
| ExtendedStatefulSet controllers, `pkg/kube/controllers/extendedstatefulset` | versioned StatefulSets, volume-management StatefulSets, status | reconcile, cleanup, pod mutation | versions grow and name one template; cleanup never deletes what is needed; every pod finds its claims; one version is left |
| ExtendedSecret controllers, `pkg/kube/controllers/extendedsecret` | Secrets, private key Secrets, CSRs, `Status.Generated` | generate, approve, merge | credentials are generated once and match; Secrets of the user are kept |
| container-run, `container-run/` | process registry, channels | start, wait, signal, post-start condition | ends with the main process, forwards signals |
| Validating webhook, `boshdeployment/validating_webhook.go` | none | polls for the referenced objects for 5 s, then resolves | admits what will resolve, answers every request |
| Webhook server certificates, `pkg/kube/controllers/webhook_configuration.go` | certificate Secret and files, webhook configurations | set up at every start | server and configurations agree over restarts and with two operators |
| BOSH manifest, `pkg/bosh/manifest` | none | addons, variables, the YAML between two stages | every value arrives where the user put it |
| Links and job rendering, `cmd_instance_group_resolver.go`, `job_provider_links.go`, `cmd_render_job_tmpls.go`, `cmd/internal` | files in Secrets and in the pod | resolve links, BPM information, render templates in the pod | a consumer reaches its provider; a pod is the same instance each time it starts |
| Kubernetes converter, `pkg/bosh/converter` | none | objects, containers and volumes of an instance group | Services select the right pods, Kubernetes accepts the pods, preparation comes first |
| Credential generation, `pkg/credsgen` | none | keys, passwords, certificates | cryptography |
| Log tailing, `cmd/internal/tlogs.go` | watched files | walk and watch run beside each other | every file is tailed once |
| Start-up, `pkg/kube/operator`, `cmd/internal/root.go` | CRDs, namespace label | applied in order at every start | a failed start is repeated until all operators serve |
| Generated clients, deep copies, fakes | none | none | generated code |

Outside the repository, and modelled from the way the code uses them: the
Kubernetes API (one write at a time, a name is created once, a write of an old
version is refused), controller-runtime (informers deliver the changes of a kind
in order and late; a queue hands a key to one worker and keeps a key added
meanwhile; an error puts the key back; after a restart every object is a create
event), quarks-job (a job runs once and again when what it mounts changes), the
versioned secret store, the kubelet, the operating system.

Where it is hard: caches that lag behind the API the same reconciler writes to;
controllers that write and delete the same objects; decisions taken from one
list and carried out after another; requests that are retried from the start
after some writes succeeded; a crash that loses the queues, with create events
after it; meltdown windows that delay requests; in container-run, goroutines
that block on unbuffered channels, a mutex, and signals.

## 2. The modules

| Module | Models | Lines in the code |
|---|---|---|
| `ExtendedStatefulSet` | rollout of one ExtendedStatefulSet | reconciler, volumes, cleanup, predicates, pod mutator |
| `ExtendedStatefulSetProofs`, `RevisionProofs` | theorems about it | |
| `ExtendedSecret` | ExtendedSecret and CSR controllers | reconcilers, predicates |
| `ExtendedSecretProofs` | theorems about it | |
| `BOSHDeployment` | pipeline of one BOSHDeployment | three reconcilers, predicates, references, resolver, job factory, mutate functions |
| `BOSHDeploymentProofs` | theorems about it | |
| `Manifest` | manifest, addons, variables, YAML between stages | `manifest.go`, `addon_placement.go`, `cmd_interpolate.go`, `resolver.go` |
| `InstanceGroupResolver` | links, properties, BPM information; extends `Manifest` | `cmd_instance_group_resolver.go`, `job_provider_links.go`, `instance_group.go` |
| `KubeConverter` | objects of an instance group; extends `InstanceGroupResolver` | `bpm_resources.go`, `container_factory.go`, `volume_factory.go`, `disk.go` |
| `LogTailer` | the goroutines of tail-logs | `cmd/internal/tlogs.go` |
| `Rendering` | composes the last four: commands, pods, failures | `cmd/internal`, `cmd_render_job_tmpls.go` |
| `InstanceIdentity` | abstract: what an instance is | implemented by `Rendering` |
| `RenderingProofs`, `FoldProofs` | theorems about the last five; induction over lists | |
| `WebhookServer` | start of operators, certificates, validator | `root.go`, `operator.go`, `webhook_configuration.go`, `validating_webhook.go` |
| `WebhookServerProofs` | theorems about it | |
| `ContainerRun` | `Run` and its goroutines | `containerrun.go` |
| `ContainerRunProofs` | theorems about it | |
| `MC...` | constants for the runs | |

The `map` of `PROJECT.json` gives each definition its source lines; actions keep
the names of the functions where there is one function. Definitions commented
"Faulty variant" are the plausible bugs the mutants put in; nothing uses them.

### ExtendedStatefulSet

`sts`, `pods`, `claims` and `spec` are the objects in the API, `seenSts`,
`seenPods` and `seenSpec` the caches; `pending` is the queue of StatefulSet
states the informer has still to deliver, `MaxLag` long at most. `rc` and `cl`
are the two workers with their program counter and what they remember between
two calls. One call to the API or one read of the cache is one action:
`ReconcileGet`, `ReconcileList` (list, current version, are volumes to be
prepared), `CreateStatefulSet` per zone, `UpdateStatus`; `CleanupGet`,
`CleanupVolumes`, `CleanupVersions`, `CleanupList`, `CleanupDelete`; and the
failures of each. A StatefulSet is a zone, a version and the revision of the
template it was made from; volume-management StatefulSets have version 0, which
is what a missing annotation means. The order of a list is not fixed, so the
loops that keep the last match (`getCurrentStatefulSet` returns the address of
its loop variable, `listStatefulSetVersions` overwrites its entry) choose among
the matches.

Not in the model: the ExtendedStatefulSet's deletion, injected affinity, secret
references in the pod template. The environment it injects is used in
`Rendering` (`azIndex`).

### ExtendedSecret

Each object is the sequence of its versions from the one in the cache to the one
in the API, so "read from the cache, write against the API" is reading the first
and comparing with the last. A worker `w[n]` generates (`EsecGenerate`), writes
(`EsecWrite`, or `EsecWriteKey` and the request for the cluster's signer),
stores the completed spec (`EsecUpdate`) and the status (`EsecStatus`), each a
call of its own; `c[n]` is the CSR worker: approve, merge certificate and key,
delete the key. Key material is a number, the n-th key made for a name, so that
"the certificate is for this key" can be said. `Deployments` gives the sets of
names that are created together; the initial state picks one.

Not in the model: deletion, the contents of certificates, the workaround for
EKS.

### BOSHDeployment

`input` holds the revision of the BOSHDeployment, its ConfigMap and its Secret,
`cached` what the informers have of them; `api` and `seen` the objects the
reconcilers write and their cached state; `desired` and `bpm` the versioned
Secrets the jobs wrote, each with what it was made from. `rd`, `rg` and `rb` are
the workers. Each `CreateOrUpdate` is one action with three outcomes: nothing to
do, a conflict with the API (the request is put back), a write. The mutate
functions are modelled by what they keep: a job keeps its trigger strategy, the
with-ops Secret loses its annotations. `Passes` is the mapping of events:
Secrets are mapped by resolving every BOSHDeployment there is. The jobs are
external: `RunInterpolation` appends the with-ops content as the next desired
manifest, `RunBpm` appends a version per instance group of its template.

Not in the model: deletion, references by URL, the meltdown
times (a request may wait arbitrarily long in any case); the ig job's output,
which only pods use; the BOSH DNS is one object instead of three.

### Manifest, InstanceGroupResolver, KubeConverter

Operators, named after the functions they translate. Code that can fail returns
a set: its result, or nothing. A property is a leaf, a path with a value, and a
value is a text or one reference to a variable, so that replacing variables,
merging defaults and the walk over nested maps can be said. A document is a list
of lines, one for each leaf. `markDuplicateValues` renames the key of the first
line of a long text to key=hash and turns the later ones into aliases; `Marshal`
then replaces the bytes `key=hash: ` by the key and an anchor (`replacedMark`),
which does not find a key that YAML writes in quotes (`QuotedKeys`): such a leaf
stays renamed, and its aliases are an error for `LoadYAML`. The same trip through
YAML of the resolved properties of one group is not repeated in the model. Job
specs and templates come from release images: `Specs` is a constant. A name that
is put together from others is the sequence of their parts, and two are equal
when all their parts are (`Sanitize`, `NameParts`: "a-b" with "c" is "a" with
"b-c"). A path is the sequence of its directories below `/var/vcap`, or "other" and
where it is; `BeginsWith` gives the directories whose name has that of a shared one
for a prefix, which is what `HasPrefix` compares (`prefixDir`), and the path check
accepts a path that has a shared directory anywhere (`additionalVolumeAllowed`). The
converter keeps which objects, containers, volumes and mounts there are and in
which order, and leaves out commands, environment, probes and limits.

### LogTailer

Three goroutines (walk, events, receiver) over a directory tree in which
directories and files appear. The walk reads a directory when it enters it; the
watcher reports what appears in a directory after it was watched. `owed` is
history: the files that were there when the command started or were reported.

### Rendering

A manifest is picked, the `variable-interpolation` command writes the desired
manifest, per instance group `instance-group` and `bpm-configs` write their
outputs, the BPM reconciler converts them, and the pods of a group are created
in order. Each init container is a step (`CopyContainerRun`, `CopySpecs`,
`RenderJobTemplates` job by job, `CreateDirs`, `PreStart`), then processes run.
Containers fail, a sandbox is lost (new IP, the directories stay), a pod is lost
(the directories go). `identity` is history: the instance whose index the pod
rendered. Errands are converted and have no pods here.

`InstanceIdentity` says what BOSH promises of an instance: a slot that starts is
an instance that no other slot is, and stays that instance. `KeepsIdentity` is
the refinement: `identity` maps to itself, `up` to the pods whose processes run.

### WebhookServer

`op[o]` is the phase of the start an operator is in; each call of the API is an
action: apply a CRD, read and write the namespace, read or create the Secret
with the certificate, delete and create each configuration. A CA is a number. A
failed call ends the process, which starts again. The validator reads from the
caches of its manager: `cache[o]` is what operator `o` has of the objects in
`resources`, filled when it starts to serve (`Start`), and `watch[o]` has, kind by
kind, the changes that `Deliver` has still to bring, as late as it likes. A
request goes to an operator whose CA the configuration has; the poll lists
ConfigMaps, then Secrets, at each tick, and looks for the ops files only; the
manifest and the Secrets of implicit variables are not polled for and have to be
in the cache when the resolution reads each object. `excuse` is history: since
the last poll of the request began, something it needs was missing in the cache
of its operator, or a call failed. In the namespace of the operator itself its own pods need the mutating
webhook: `CreateOperator` waits, and `RemoveConfigurations` is what the user does
then ("Recovering from a crash" in the repository's README).

### ContainerRun

Every goroutine is a program counter, the channels are buffers of their size
(a send on the unbuffered `errors` is a step together with the receive), the
registry's mutex is `lock`. Processes are running, zombies or reaped; the exit
of any child raises SIGCHLD, which `signal.Notify` without a list of signals
relays like any other.

## 3. The runs

| Run | Result | Question |
|---|---|---|
| `ests_rollout` | holds | versions only grow, name one revision, and cleanup keeps a newer version that ran, with crashes, API errors, failing pods |
| `ests_live` | holds | scaling down with volumes: every pod finds its claim, and the rollout converges |
| `ests_volume_race` | violated | the same when scaling up |
| `ests_restart` | violated | an update made around a restart is deployed |
| `esec` | holds | a certificate is signed by the CA that is stored, key and certificate match while nothing but crashes disturbs the request for the certificate, status and Secret agree, the user's Secret is kept where the cluster signs, all Secrets come to exist |
| `esec_stale` | violated | nothing is generated again once the status says generated |
| `bdpl_pipeline` | holds | manifest and BPM information of a workload fit, jobs run only for new input, workloads move forward, the last edit is deployed if it adds no variable |
| `bdpl_restart` | violated | the newest version ends up deployed, restarts included |
| `crun_run` | holds | success means that the main process ended; `Run` and the post-start goroutine end |
| `crun_signal` | violated | a SIGTERM is forwarded |
| `rendering` | holds | values, links and addresses arrive; pods are accepted, prepared before anything runs, keep their identity and run in the end; logs are tailed |
| `webhook` | holds | certificates are trusted, all operators serve in the end, requests are rejected only for a reason, with caches that lag, and all are answered |

Bounds, and why they are enough:

- *Revisions and edits*: two revisions of an ExtendedStatefulSet make two
  versions and, with retries, a third; one edit of any of the three parts makes
  two rounds of the jobs. Every property compares two rounds at a time.
- *Lag*: a cache one change behind is stale; `ests_*` also uses two changes, so
  that a list can miss a create and the delete after it. In `BOSHDeployment` one
  object lags at a time in the runs; with two the same properties were found to
  hold without disturbances.
- *Disturbances* (crashes, API errors, failing pods, configuration changes):
  one or two. One cuts a reconcile between any two calls, a second cuts the
  retry.
- *Zones*: none in the runs. With zones the pod mutator refuses the pods
  (`AdmitsPod`), so that such rollouts never get to cleanup. That a version half
  created for some zones is not completed from another revision is a theorem, as
  the others for every number of zones.
- *Names*: a CA with a certificate below it, or a certificate of the cluster; an
  instance group that another one, an errand, replaces.
- *Manifests*: some 500, one for each combination of the things that meet in an
  operator (ways to provide and to consume a link, addons before and after the
  provider, texts and variables in three places of a document, under plain and
  quoted keys, volumes of two processes and jobs, paths that only begin or end like
  a shared directory, names that are equal once put together, disks), most of them
  errands so that no pods multiply them; four with pods: two zones with two replicas, two zones, two replicas, and one
  pod with logs and every kind of volume. One fault, two for the last; a second
  fault of a pod meets the directories the first one left.
- *Operators*: two, as in an update, with one fault, which may leave an operator's
  namespace to a configuration nobody serves, or cut a start or a request. One edit
  makes an object come or go between any two reads; changes of several objects
  that arrive in different orders are left to the theorem, as are more operators
  and faults. Two polls stand for ten: the first fails or succeeds, the second
  follows a change.

Deadlock is not checked in the runs, because these systems come to rest when the
user stops editing (or `Run` has returned); that they do not rest too early is
what the liveness properties say.

### Fairness

Weak fairness only. A worker with a request goes on (each controller has its own
workers and every call has a deadline); an informer delivers what happened; a
delayed request returns, and one per instance group does (`Redeliver`), since
delays end independently; the meltdown window ends; the kubelet starts pods that
can start; jobs whose Secrets are there run; a dead operator is restarted by its
Deployment; in `ContainerRun` a goroutine that can run does, a deadline passes,
and the context kills a command past it. In `Rendering` the kubelet tries again
what failed, the goroutines of the log tailer run, and `[]<>PipelineDone` is the
weak fairness of the jobs and the BPM reconciler, whose steps only disable
themselves. In `WebhookServer` an operator that ended is started again, the timer
fires, and the caches may lag for good: a request is answered all the same.

One thing is assumed of the user: that the configurations that keep an operator
out of its own namespace are removed, as the repository's README says under
"Recovering from a crash" (`RemoveConfigurations`, for `OperatorsServe`). No edit
and no request has to come. Nothing is assumed of API errors (which are bounded)
or of the main process, which may run for good. `SmoothDeploys` promises delivery
only if no disturbance happened, no BPM request of a group that the manifest still
has was put back and no variable was added: the code does not promise more, as `bdpl_restart` shows of restarts and the
next section says of variables.

### What the violated runs show

- `ests_volume_race`: cleanup deletes volume-management StatefulSets by name and
  judges their readiness by an old list; the reconciler may just have created
  the next one under the same name. The new version's pods then wait for claims
  that nobody makes (`volumes.go:194`).
- `ests_restart`: after a restart the create predicate drops an
  ExtendedStatefulSet that owns StatefulSets, so an update made meanwhile is not
  seen (`extendedstatefulset_controller.go:60`).
- `esec_stale`: the update of the completed spec raises a request that may run
  before the status is in the cache, and the credential is generated again
  (`extendedsecret_reconciler.go:161`).
- `bdpl_restart`: every version of a BPM Secret is a request, old ones included;
  after a restart the last one handled wins (`bpm_controller.go:55`).
- `crun_signal`: `HandleSignals` handles one signal in its life, and the SIGCHLD
  of a condition command may be that one (`containerrun.go:320`).

Seen while modelling, without a run of their own (the hazards in `PROJECT.json`
have the lines): a BOSHDeployment that does not resolve, in any namespace, makes
the Secret events of all others get lost; a Secret's create event counts only if
it concerns more than one BOSHDeployment; instance groups that leave the manifest
are not deleted; `container-run` may report the error of a signal to a process
that was reaped between the two calls of `Signal`; with zones the pod mutator
derives the wrong ExtendedStatefulSet name; claims that an update adds without
more replicas are not prepared.

In the following cases a property of a passing run would fail; it has a hypothesis
that leaves them out, in its definition and not only in the choice of the
constants. TLC finds each of them when the hypothesis is taken away (the first
with the name in `MayFail`, the third with a second manifest that has a variable
more than the first):

- *Retry of a CSR* (`CertificateMatchesKey`, hypothesis `Steady`). When a call fails
  after the request was created, the reconcile starts again and writes another
  private key before it finds the request there (it looks for an ExtendedSecret
  instead, `extendedsecret_reconciler.go:491`); the certificate of the first key is
  stored beside the second.
- *Secret of the user* (`UserSecretKept`, of certificates the cluster signs). For the
  other kinds, one that appears between `canBeGenerated` and `CreateOrUpdate` is
  replaced (`extendedsecret_reconciler.go:346`).
- *New variables* (`SmoothDeploys`, hypothesis `SameVariables`). The generated variable
  controller ignores updates of the with-ops Secret
  (`generated_variable_controller.go:68`; the docs have "Create and Update"): a
  variable that an edit adds is not generated until the operator restarts, and
  the jobs wait for it.
- *Quoted keys* (`ValuesDelivered`). The anchor of a long text is put in by replacing
  the bytes `key=hash: `, which a key in quotes does not have (`manifest.go:223`);
  the property arrives under another key, and a second use of the text is an
  error.
- *Fields of implicit variables* (`ValuesDelivered`). `((implicit.field))` is never
  replaced (`resolver.go:265`), though its Secret is required (`FieldOfImplicit`).
- *Renamed providers* (`LinksResolved`). Without an override the docs look for a
  provider of the same type, the code for the type and the name in the consumer's
  spec (`job_provider_links.go:13`); one that is renamed with `as` is not found
  (`OnlyRenamed`).
- *Pods that Kubernetes refuses* (`PodsAccepted`, hypothesis `~Clash`). Two jobs with
  persistent disks; a volume below `/var/vcap/store` without a disk; two jobs of one
  name; two containers or pre-start hooks whose names are equal once they are put
  together; a volume outside all shared directories, `/x/var/vcap/data/y`, which
  passes because the expression that checks it is not anchored
  (`volume_factory.go:174`) and becomes a mount without a volume.
- *Ops files at a URL* (`GoodRequestAdmitted`, hypothesis `Listed`). The poll looks among
  ConfigMaps and Secrets only (`validating_webhook.go:127`), and a deployment with one
  at a URL, which the CRD allows, is always rejected; run `webhook` has one.
- *Index of a pod* (`OwnAddress`). `jobInstances` and the Services count replica by replica
  (`instance_group.go:56`, `bpm_resources.go:196`), `template-render` zone by zone
  (`trender.go:76`): with zones and replicas a pod is rendered with another's
  address. `docs/rendering_templates.md` has both, a formula and an example.

And without a property:

- *Crash between key and CSR.* The create predicate takes the private key's Secret
  for the result, and the request is never made (`extendedsecret_controller.go:76`).
- *`from` of a link.* `generateJobConsumersData` looks a link up by the type and
  name in the job spec whatever `from` says, and stores it under the name in
  `from` (`cmd_instance_group_resolver.go:308`), unlike "Resolving Links" in the
  docs. A `consumes` of `nil` panics.
- *Variables.* An implicit variable whose value is a reference to another one is
  replaced or not depending on the order.
- *Addons.* The rule `jobs` is read from the key `release` (`manifest.go:119`); an
  addon's job with the name of another job replaces its files.
- *Others.* A number in the name of a group is taken for the ordinal of the pod
  (`trender.go:22`); zero instances without preset BPM information are a nil
  dereference in `BPMConfigs`; Services do not select by deployment; the validator
  does not wait for the manifest itself; a log file that appears between walk and
  watch is lost, or tailed twice.

## 4. The proofs

| Theorem | States | For |
|---|---|---|
| `TypeCorrect` | `ExtendedStatefulSet` keeps its types | all zones, revisions, lags, disturbances |
| `VersionsGrow` | `VersionsOnlyGrow` | the same |
| `VersionNamesRevision` | `VersionIsOneRevision` | the same |
| `CleanupLeavesNewer` | `CleanupKeepsNewer` | the same |
| `VolumesAreCovered` | `VolumesCovered` | the same, if no revision scales up (`NeverScalesUp`) |
| `RunTypeCorrect` | `ContainerRun` keeps its types; the signal buffer holds one at most | all commands, any number of signals |
| `SuccessIsMainsEnd` | `SuccessMeansEnded` | the same |
| `ExtendedSecretProofs!TypeCorrect` | `ExtendedSecret` keeps its types | all credentials, lags, keys, disturbances |
| `UserSecretIsKept` | `UserSecretKept` | the same |
| `GeneratedSecretIsThere` | `GeneratedIsThere` | the same |
| `ChainIsKept` | `ChainMatches` | the same, if the CA is steady |
| `CertificateIsForItsKey` | `CertificateMatchesKey`, which asks of a name the cluster signs that it is steady | the same |
| `GeneratedOnce` | `GeneratedIsFinal` | the same, if what the operator generates is steady |
| `BOSHDeploymentProofs!TypeCorrect` | `BOSHDeployment` keeps its types | all groups, variables, manifests, lags, edits and disturbances |
| `ManifestIsNotOlder` | `ManifestNotOlder` | the same |
| `VersionsAreNew` | `NoIdleVersions` | the same |
| `WorkloadsGoForward` | `OnlyForward` | the same |
| `WebhookServerProofs!TypeCorrect` | `WebhookServer` keeps its types | any number of operators, requests and faults |
| `CertificateIsTrusted` | `CertificateTrusted` | any number of operators and faults |
| `GoodRequestIsAdmitted` | `GoodRequestAdmitted` | any operators, requests, resources, polls, edits, faults and lags of the caches |
| `RenderingProofs!TypeCorrect` | `Rendering` and `LogTailer` keep their types | all manifests, job specs, log directories and numbers of faults |
| `PreparedBeforeUse` | `PreparedFirst` | the same |
| `PodsKeepIdentity` | `KeepsIdentity`, the refinement of `InstanceIdentity` | the same |
| `AddressesAreOwn` | `OwnAddress` | the same |
| `LinksReachProviders` | `LinkReachesProvider` | the same, if the groups of a manifest have different names (`NamesDiffer`) |
| `WrittenIsRead` | a manifest is read as it was written, keys renamed and renamed back, anchors and aliases resolved | all manifests, whatever is set at their leaves, if no long text is under a quoted key (`Lost`) and the BOSH DNS addon can be decoded (`loadDNS`) |
| `ValuesAreDelivered` | `ValuesDelivered` | all manifests, if their variables are there (`VariablesThere`) |

The only assumptions on constants are the named ones of the modules
(`ConstantsAssumption`, `WebhookAssumption`, `RenderingAssumption`,
`LongTextsAssumption`, that the empty text is not long, and
`NoneAssumption`, that no object is mistaken for a missing one), which TLC
evaluates in every run.  `RenderingAssumption` is what parsing leaves of a
manifest: groups, jobs, zones and addons are lists, the number of instances is
natural, a job has finitely many properties, each a text or a reference, the
links of a `job.MF` and the processes of a `bpm.yml` are lists. The Secrets of explicit variables are there,
since the interpolation job mounts them and does not start without.  Three statements
about Secrets have a hypothesis: a name is *steady* when no user edits it, no
reconcile completes its spec and none of its own API calls fail (it is in none of
`MayEdit`, `Completes`, `MayFail`).  Crashes, restarts and stale caches stay.  Run
`esec` satisfies the hypotheses of the first two, the second of which is part of
the property; `esec_stale` drops that of the third and shows why it is there.  `VolumesAreCovered` has one too: the volume
claims are there from the first revision on, and a revision that has volumes does
not have more replicas than those before it.  Run `ests_live` satisfies it, run
`ests_volume_race` drops it and finds the race of the two controllers.
`ValuesAreDelivered` supposes that an implicit variable is a text or names an
explicit variable, since a reference to another implicit one would be replaced or
not with the order of a Go map, and that the Secret of an explicit variable has
the file a reference asks for, which interpolation leaves alone otherwise. The
manifests of run `rendering` satisfy both; implicit values that refer to explicit
variables are among them, and so are the references and the quoted keys that the
property leaves out. `GoodRequestIsAdmitted` has no hypothesis but the one of its
property.
`LinksReachProviders` supposes that the groups of a manifest have different names,
as BOSH demands and nothing here checks: the resolver gives a link the instances of
the group that provides it, the converter finds the first group of that name. The
manifests of run `rendering` satisfy it.

*Versions grow.* The reconciler takes "current version + 1" from a list that
may be old, so the property is not inductive. `GrowInv` adds an order on the
lists: for cache, undelivered changes and API, in this order, each has a version
at least as high as every version of the ones before (`ListsOrdered`), because
cleanup deletes a version only below one its list shows; the API is at most one
version ahead of the cache (`CacheOneBehind`), because the name of the next
version is taken once it is created; and the numbers the two workers hold are
reached by the cache (`ReconcilerVersion`, `CleanupVersion`).

*A version is one revision.* The zones of a version are created one by one, and
the loop may be cut off anywhere. `RevisionInv` adds to `GrowInv` that the
highest version has its first zone (`TopHasFirstZone`) and that a reconciler past
the first zone created it from its own revision (`FirstZoneCreated`): another
reconcile starts at the first zone and finds the name taken. It also covers the
lists still on their way to the cache (`ListedOneRevision`).

*Cleanup.* It deletes by a list it took before, so the version it keeps may be
gone when it deletes. `KeepInv` says of that version that, if it is gone, an
earlier cleanup deleted it and left a newer one that has run (`GoneHaveNewer`):
cache, undelivered changes and API are compared list by list, as for the order of
versions; what a list shows as ready has run (`ReadyHasRun`), and so has the
highest version the worker has found (`MaxHasRun`).

*Volumes.* The claims are made by the pods of another StatefulSet, the
volume-management one, and the reconciler looks for ready pods in its cache. `VolumeInv` says
that a volume-management StatefulSet seen ready has made its claims (`ClaimsMade`),
that the one of that name in the API is of the same or a later revision
(`RevisionsInOrder`, `VolumesLatest`), which needs no other claims if nothing
scales up, and that what is covered stays covered, from the worker that is about
to create a version (`WorkerCovers`) to the version (`VersionsCovered`). TLC
confirmed `KeepInv` and `VolumeInv`, the latter with two zones and crashes, before
they were proved.

*Success.* `RunInv` adds what is on its way to `Run`: a goroutine about to send
to `done` and a full buffer both mean that the main process is reaped.

*Secrets.* The proofs go object by object: an effect lemma for each object and
each of its two workers says what a step can make of it (`SecretEffect`,
`CsrEffect`, `WorkerEffect`, `CsrWorkerEffect`), and a frame lemma that a step of
one name leaves the others alone. `ThereInv` follows one name through
both controllers: a status that says generated, stored or about to be stored,
means a Secret, or a request whose private key is stored; the key is deleted only
once the Secret is there. For a steady name `SteadyInv` says that it is
reconciled once per create event: its spec never changes, and while it is queued
or worked on the cache has the only version there is. From it follow `OnceInv`
(when a Secret is generated its name is not queued, and no create event that is
still to come finds the Secret missing in the cache), `ChainInv` (the CA a worker
has read is the one stored, since a steady CA is written once) and `OneKeyInv`
with `MatchInv` (until the Secret is there, one private key is written, the
request is for it, and it is what the CSR controller reads).

After a restart the private key's Secret, deleted and synced, may be missing in
the cache before the generated Secret is there: a name without a stored status is
then reconciled again and fails for good, at the request that exists. The
certificate still matches its key.

*The pipeline.* `IInv` is the types with what relates them across the three
reconcilers: every BPM version comes from a desired manifest there is, and no BPM
version is in the cache before its manifest (`VersionsOK`); a request, queued,
delayed or at work, names a version in the cache (`RequestsOK`, `BpmOK`); so what
the worker reads is not older than its BPM information, nor is what it has built
(`WorkloadOK`). `ManifestNotOlder` is `WorkloadOK` for the API.
`InterpolatedOnce` says why a version is new: the job that interpolates has run
with the last version, is done, and is only set off again with another template.
`SmoothInOrder` is the order in which versions of a group are found without
disturbance: workload, worker, queue from front to back.

*Certificates.* What an operator serves with was decided when it started:
`StoreInv` says that the Secret is created once, that an operator past
`setupCertificate` has the CA of the Secret (`CertifiedByStore`), and that a
configuration has that CA or is not there (`BundlesFromStore`).

*Requests.* `RequestInv` says what the validator knows between two calls: while a
request without an excuse is at work, the cache of its operator has all it needs,
the list of ConfigMaps has its ConfigMaps, and what is left to read is in the
cache; so no poll without an excuse failed. The caches need no relation to the
API: a change that `Deliver` brings either keeps what the request needs or excuses
it.

*Types of the webhook server.* `TypeInv` adds to `TypeOK` that every CA that
somebody holds was generated (`CAsKnown`), that the start is at a CRD of the list
(`StepsInList`) and that a request at work is served by an operator that serves
(`ServedByOne`).

*Rendering.* A pod depends on what five operators before it computed: variables,
addons, resolver, BPM information, converter. The first part of
`RenderingProofs` follows the shape of the data through them: the desired
manifest has the groups of the user's, with their names, zones and instances
(`DesiredShape`), a resolved group has the jobs of the desired one with the
instances of `jobInstances` (`ResolvedJobs`), and the init containers of a
template are, in this order, the copier of container-run, the copiers of specs,
template-render, the directories and the pre-starts (`InitOrdered`). These
operators are folds. `FoldProofs` shows by induction that a fold is defined and
keeps what its operator keeps, with the operator as a constant, and is
instantiated for each fold; its induction is a fact about sets of numbers, so
that no lemma has an operator for a parameter.

`Inv` has four parts. `OutputsInv`: what is written was made from what was read,
and is written once. `PodsInv` says of a pod at an init container that what the
ones before it do is done (`PodUp`); that the first jobs, up to the one
template-render is at, are rendered with the address the pod has now
(`RenderedNow`); and that whatever is rendered, by whichever sandbox, is for the
instance with the pod's index (`RenderedFor`). Directories survive a sandbox and
old files may be in them, which is why the last two differ. `IdentityInv`: a slot
that ever started a process did so as its own instance. `TailInv` is about the
log tailer. TLC confirmed `Inv` on the manifests of `MCRendering` before it was proved.

*Instances.* The refinement needs that no two slots of a group have one index:
zone times replicas plus ordinal determines both (`Digits`); and that the index
is one of the group: the group has as many slots as zones times replicas, and
finitely many (`EnoughSlots`, `SlotsFinite`). A fault is a `Stop` or a stuttering
step, the first process of a pod is a `Start`, the others stutter.

*Values.* A manifest is a shape and the values at its leaves (`SetLeaves`).
What is written keeps the shape but for the keys that stay renamed
(`WrittenParts`, `WrittenLeaves`). `WrittenIsRead` compares the document line by line
(`LinesAre`): an alias has the hash of a long text, an earlier line has its anchor
if no long text is `Lost` (`AliasResolved`), and a long text says all of the value,
which is then no reference (`LongIsText`). A document that can be read at all keeps
every leaf that is not lost (`ReadKept`), which is what `ValuesAreDelivered` uses,
twice; a long text is no reference, and interpolation leaves it long
(`LongStays`). The fold over
the implicit variables is followed step by step (`FoldSteps`): after k variables
the references to those are replaced and no others (`AllReplaced`), whichever
order the map gave; a value that is put in brings no new implicit reference. Addons
append jobs and leave the leaves that are there (`AddonsShape`); interpolation
does the same to all leaves at once (`Interpolated`). `OutputsInv` carries the result
(`Delivered`) from the command that computes it to every later state.

*Links.* What is collected from the jobs, and what a job then consumes, is no link or
has the name and the instances of one group of the desired manifest
(`CollectedLinked`, `ConsumedLinked`; two nested folds and a third), and
`GroupOutputs` keeps it for the resolved jobs. The instance with number k has the
address of the one Service with that number (`ServiceThere`), which selects the pod
in zone k mod z with the ordinal k div z; division makes this one to one and onto
the pods of the group (`DivisionIs`, `DivisionOf`, `InstancesReach`).

Only model-checked: everything about liveness (`Converges`, `SecretsIssued`,
`SmoothDeploys`, `RunEnds`, `PostStartEnds`, `PodsRun`, `LogsTailed`,
`OperatorsServe`, `RequestsAnswered`), since the prover has no fairness; and of
`Rendering`, `LinksResolved` and `PodsAccepted`: the first depends on which
properties the links of a `job.MF` list (a path above another one overwrites it),
the second on the volumes that a `bpm.yml` asks for, and they are stated for the specs
of run `rendering` only.

## 5. What is left

Not modelled:

- Secret references of an ExtendedStatefulSet (`SetSecretReferences` changes the
  object after its StatefulSets were copied from it): one step, no interleaving.
- Deletion of the custom resources: the code has no finalizers and leaves it to
  the garbage collection of Kubernetes.
- Cryptography (`pkg/credsgen`), the YAML parser, ops file syntax, ERB templates:
  libraries, whose results are constants or numbers here.
- Commands, probes, environment, affinity and labels of containers: data that no
  control depends on.
- Generated clients, deep copies and fakes; flags and logging.
