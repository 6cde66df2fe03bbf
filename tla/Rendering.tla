----------------------------- MODULE Rendering -----------------------------
(***************************************************************************)
(* From a manifest to running processes.  The variable-interpolation job   *)
(* writes the desired manifest; for each instance group one container of   *)
(* the data gathering job writes the resolved properties and another the   *)
(* BPM information; the BPM reconciler converts them; Kubernetes runs the  *)
(* pods of the service groups.  In every pod the init containers copy the  *)
(* job specs and render the templates for the instance that the pod is     *)
(* (template-render), then the processes start.                            *)
(*                                                                         *)
(* One version of the manifest is followed: new versions, and when they    *)
(* are picked up, are the subject of BOSHDeployment and                    *)
(* ExtendedStatefulSet.  Errands are converted; quarks-job runs them.      *)
(*                                                                         *)
(* Kubernetes is external: a StatefulSet starts its pods in order, init    *)
(* containers run one after the other and are restarted until they         *)
(* succeed, the directories of a pod outlive its sandbox and its           *)
(* containers but not the pod.                                             *)
(***************************************************************************)
EXTENDS KubeConverter, LogTailer

CONSTANTS
    Manifests,   \* the manifests to start from, ops files applied
    Secrets,     \* the Secrets of implicit variables: their values
    Files,       \* the Secrets of explicit variables: their files
    NameNumbers, \* the number that is a part of a group's name, where there is one
    None,        \* no instance
    MaxFaults(_) \* bound: failures of containers, sandboxes and pods, per manifest

\* What a manifest has when it is parsed, as far as the rest depends on it.
JobOK(job) ==
    /\ {"name", "props", "addon", "preset"} \subseteq DOMAIN job
    /\ \A p \in job.preset : IsList(p)
    /\ IsFiniteSet(DOMAIN job.props) /\ \A p \in DOMAIN job.props : IsValue(job.props[p])
JobsOK(jobs) == IsList(jobs) /\ \A i \in DOMAIN jobs : JobOK(jobs[i])
GroupOK(g) ==
    /\ {"name", "instances", "azs", "lifecycle", "jobs"} \subseteq DOMAIN g
    /\ g.instances \in Nat /\ IsList(g.azs) /\ JobsOK(g.jobs)
AddonOK(addon) == {"name", "aliasesDecode", "jobs"} \subseteq DOMAIN addon /\ JobsOK(addon.jobs)
ManifestOK(m) ==
    /\ {"groups", "addons", "applied"} \subseteq DOMAIN m
    /\ IsList(m.groups) /\ \A i \in DOMAIN m.groups : GroupOK(m.groups[i])
    /\ IsList(m.addons) /\ \A i \in DOMAIN m.addons : AddonOK(m.addons[i])
    /\ m.variables \subseteq DOMAIN Files

SpecOK(spec) ==
    /\ IsList(spec.provides) /\ IsList(spec.consumes)
    /\ \A b \in spec.bpm : \A first \in BOOLEAN : IsList(b[first])

ASSUME RenderingAssumption ==
    /\ IsFiniteSet(Manifests)
    /\ \A m \in Manifests : ManifestOK(m) /\ MaxFaults(m) \in Nat
    /\ \A v \in DOMAIN Secrets : IsValue(Secrets[v])
    /\ \A v \in DOMAIN Files : \A f \in DOMAIN Files[v] : IsValue(Files[v][f])
    /\ \A job \in DOMAIN Specs : SpecOK(Specs[job])

VARIABLES
    manifest,  \* the user's manifest
    desired,   \* the desired manifest
    resolved,  \* per group: the resolved jobs, written by the instance-group command
    bpmInfo,   \* per group: the BPM information, written by the bpm-configs command
    resource,  \* per group: the ExtendedStatefulSet or ExtendedJob, with Services
    pods,      \* per slot: the pod
    identity,  \* history: the instance the pod of a slot last started as
    faults     \* faults so far

outputs == <<desired, resolved, bpmInfo, resource>>
vars == <<manifest, outputs, pods, identity, faults, disk, tail>>

\* The output of a command: not there yet, or there, with nothing in it when the
\* command failed.  It is run again, with the same input and the same result.
Pending == [done |-> FALSE, value |-> {}]
Output(results) == {[done |-> TRUE, value |-> {r}] : r \in results}
                   \cup (IF results = {} THEN {[done |-> TRUE, value |-> {}]} ELSE {})
IsOutput(out) == out.done \in BOOLEAN /\ Cardinality(out.value) <= (IF out.done THEN 1 ELSE 0)
The(output) == CHOOSE v \in output.value : TRUE

GroupNames == UNION {{m.groups[i].name : i \in DOMAIN m.groups} : m \in Manifests}
GroupsIn(m) == {m.groups[i].name : i \in DOMAIN m.groups}
ASSUME NoneAssumption == None \notin GroupNames \X Nat

GroupOf(m, name) == CHOOSE g \in ByName(m.groups, name) : TRUE

\* The places of pods: group, zone (from 0) and ordinal.
SlotsOf(g) ==
    {s \in {g.name} \X (0..(Len(Zones(g)) - 1)) \X (0..(g.instances - 1)) : g.lifecycle \in Services}
Slots == UNION {UNION {SlotsOf(m.groups[i]) : i \in DOMAIN m.groups} : m \in Manifests}

NoPod(ip) == [phase |-> "none", at |-> 0, job |-> 0, ip |-> ip, tools |-> FALSE, specs |-> {},
              rendered |-> <<>>, dirs |-> FALSE, running |-> {}]

Init ==
    /\ manifest \in Manifests
    /\ desired = Pending
    /\ resolved = [g \in GroupNames |-> Pending]
    /\ bpmInfo = [g \in GroupNames |-> Pending]
    /\ resource = [g \in GroupNames |-> Pending]
    /\ pods = [s \in Slots |-> NoPod(1)]
    /\ identity = [s \in Slots |-> None]
    /\ faults = 0
    /\ disk = {} /\ tail = Off

-----------------------------------------------------------------------------
(* The commands and the conversion.                                        *)

Interpolate ==
    /\ ~desired.done
    /\ desired' \in Output(DesiredManifest(manifest, Secrets, [v \in manifest.variables |-> Files[v]]))
    /\ UNCHANGED <<manifest, resolved, bpmInfo, resource, pods, identity, faults, disk, tail>>

ResolveGroup(g) ==
    /\ desired.value # {} /\ g \in GroupsIn(The(desired)) /\ ~resolved[g].done
    /\ \E out \in Output(ResolvedProperties(The(desired), g)) : resolved' = [resolved EXCEPT ![g] = out]
    /\ UNCHANGED <<manifest, desired, bpmInfo, resource, pods, identity, faults, disk, tail>>

ConfigureGroup(g) ==
    /\ desired.value # {} /\ g \in GroupsIn(The(desired)) /\ ~bpmInfo[g].done
    /\ \E out \in Output(BPMConfigs(The(desired), g)) : bpmInfo' = [bpmInfo EXCEPT ![g] = out]
    /\ UNCHANGED <<manifest, desired, resolved, resource, pods, identity, faults, disk, tail>>

DeployGroup(g) ==
    /\ bpmInfo[g].value # {} /\ ~resource[g].done
    /\ \E out \in Output(BPMResources(The(desired), g, The(bpmInfo[g]))) :
          resource' = [resource EXCEPT ![g] = out]
    /\ UNCHANGED <<manifest, desired, resolved, bpmInfo, pods, identity, faults, disk, tail>>

-----------------------------------------------------------------------------
(* Pods.                                                                   *)

\* What the API demands of a pod: names of volumes and of containers differ, and
\* a container mounts volumes that there are, each at a path of its own.
PodValid(template) ==
    LET containers == template.init \o template.containers
        volumes == [i \in DOMAIN template.volumes |-> Sanitize(template.volumes[i])]
    IN /\ IsInjective(volumes)
       /\ IsInjective([i \in DOMAIN containers |-> Sanitize(containers[i].name)])
       /\ \A i \in DOMAIN containers :
             LET mounts == containers[i].mounts
             IN /\ IsInjective([k \in DOMAIN mounts |-> mounts[k].path])
                /\ \A k \in DOMAIN mounts : Sanitize(mounts[k].volume) \in ToSet(volumes)

Deployed(s) ==
    /\ s[1] \in GroupsIn(manifest) /\ resource[s[1]].value # {}
    /\ s \in SlotsOf(GroupOf(manifest, s[1]))

Template(s) == The(resource[s[1]]).template
JobsOf(s) == The(resolved[s[1]])
ContainerNames(s) == {Template(s).containers[i].name : i \in DOMAIN Template(s).containers}
Logs == <<"logs">>
Running(s) == pods[s].phase = "run" /\ pods[s].running = ContainerNames(s)

\* The pod that the log tailer runs in.
Logged(s) == Deployed(s) /\ Logs \in ContainerNames(s)

\* The StatefulSet creates the next pod when the ones before it run; the Secret
\* with the resolved properties has to be there to be mounted.
CreatePod(s) ==
    /\ pods[s].phase = "none"
    /\ Deployed(s) /\ PodValid(Template(s)) /\ resolved[s[1]].value # {}
    /\ \A o \in 0..(s[3] - 1) : Running(<<s[1], s[2], o>>)
    /\ pods' = [pods EXCEPT ![s].phase = "init", ![s].at = 1]
    /\ UNCHANGED <<manifest, outputs, identity, faults, disk, tail>>

InitContainer(s) == Template(s).init[pods[s].at]
RunsInit(s, kind) == pods[s].phase = "init" /\ InitContainer(s).name[1] = kind

\* The pod after its init container has succeeded.
Finished(s, pod) ==
    IF pod.at = Len(Template(s).init) THEN [pod EXCEPT !.phase = "run"]
    ELSE [pod EXCEPT !.at = @ + 1]

CopyContainerRun(s) ==
    /\ RunsInit(s, "container-run-copier")
    /\ pods' = [pods EXCEPT ![s] = Finished(s, [pods[s] EXCEPT !.tools = TRUE])]
    /\ UNCHANGED <<manifest, outputs, identity, faults, disk, tail>>

CopySpecs(s) ==
    /\ RunsInit(s, "spec-copier")
    /\ pods' = [pods EXCEPT ![s] = Finished(s, [pods[s] EXCEPT !.specs = @ \cup {InitContainer(s).name[2]}])]
    /\ UNCHANGED <<manifest, outputs, identity, faults, disk, tail>>

\* AZ_INDEX, which injectContainerEnv sets in every container of a zone.
azIndex(zone) == zone + 1

\* The pod's ordinal is the first part of the host name that is a number.
podOrdinal(s) == IF s[1] \in DOMAIN NameNumbers THEN NameNumbers[s[1]] ELSE s[3]

\* Faulty variants: the zone is not counted from zero, is left out, or counts one.
specIndexFromOne(s) == azIndex(s[2]) * The(resource[s[1]]).replicas + podOrdinal(s)
specIndexOfOrdinal(s) == podOrdinal(s)
specIndexOfSum(s) == (azIndex(s[2]) - 1) + podOrdinal(s)

specIndex(s) == (azIndex(s[2]) - 1) * The(resource[s[1]]).replicas + podOrdinal(s)

\* The instance of a job that template-render renders for.
CurrentInstance(s, job) ==
    {job.instances[i] : i \in {k \in DOMAIN job.instances : job.instances[k].index = specIndex(s)}}

\* Faulty variant: files that are there already are not rendered again.
RenderOnce(s) ==
    /\ RunsInit(s, "template-render")
    /\ LET k == pods[s].job + 1
           job == JobsOf(s)[k]
       IN \E instance \in CurrentInstance(s, job) :
             LET files == [n \in DOMAIN pods[s].rendered \cup {job.job.name} |->
                             IF n \notin DOMAIN pods[s].rendered THEN [spec |-> instance, ip |-> pods[s].ip]
                             ELSE pods[s].rendered[n]]
                 pod == [pods[s] EXCEPT !.rendered = files, !.job = k]
             IN pods' = [pods EXCEPT ![s] = IF k < Len(JobsOf(s)) THEN pod
                                            ELSE Finished(s, [pod EXCEPT !.job = 0])]
    /\ UNCHANGED <<manifest, outputs, identity, faults, disk, tail>>

\* The templates of one more job.  Its spec has to be there, and the instance;
\* the pre-render scripts have run before.
RenderJobTemplates(s) ==
    /\ RunsInit(s, "template-render")
    /\ \A i \in DOMAIN JobsOf(s) : JobsOf(s)[i].job.scriptsWork
    /\ LET k == pods[s].job + 1
           job == JobsOf(s)[k]
       IN /\ job.job.release \in pods[s].specs
          /\ \E instance \in CurrentInstance(s, job) :
                LET files == [n \in DOMAIN pods[s].rendered \cup {job.job.name} |->
                                IF n = job.job.name THEN [spec |-> instance, ip |-> pods[s].ip]
                                ELSE pods[s].rendered[n]]
                    pod == [pods[s] EXCEPT !.rendered = files, !.job = k]
                IN pods' = [pods EXCEPT ![s] = IF k < Len(JobsOf(s)) THEN pod
                                               ELSE Finished(s, [pod EXCEPT !.job = 0])]
    /\ UNCHANGED <<manifest, outputs, identity, faults, disk, tail>>

\* The directories of all jobs, the one for their logs among them.
CreateDirs(s) ==
    /\ RunsInit(s, "create-dirs")
    /\ pods' = [pods EXCEPT ![s] = Finished(s, [pods[s] EXCEPT !.dirs = TRUE])]
    /\ disk' = IF Logged(s)
               THEN disk \cup {Root} \cup (LogDirs \cap {JobsOf(s)[i].job.name : i \in DOMAIN JobsOf(s)})
               ELSE disk
    /\ UNCHANGED <<manifest, outputs, identity, faults, tail>>

\* The pre-start scripts of the jobs and the pre-start hooks of the processes.
PreStarts == {"bosh-pre-start", "bpm-pre-start"}
PreStart(s) ==
    /\ \E kind \in PreStarts : RunsInit(s, kind)
    /\ pods' = [pods EXCEPT ![s] = Finished(s, pods[s])]
    /\ UNCHANGED <<manifest, outputs, identity, faults, disk, tail>>

\* A container starts; a process as the instance its templates are rendered for.
StartContainer(s) ==
    /\ pods[s].phase = "run"
    /\ \E c \in ContainerNames(s) \ pods[s].running :
          /\ pods' = [pods EXCEPT ![s].running = @ \cup {c}]
          /\ identity' = IF c = Logs THEN identity
                         ELSE [identity EXCEPT ![s] = <<s[1], pods[s].rendered[c[1]].spec.index>>]
    /\ UNCHANGED <<manifest, outputs, faults, disk, tail>>

-----------------------------------------------------------------------------
(* Logs.                                                                   *)

\* A process writes to a new file or makes a directory for its logs.
WriteLog(s) ==
    /\ Logged(s) /\ pods[s].running \ {Logs} # {}
    /\ \E x \in LogDirs \cup LogFiles : Appears(x)
    /\ UNCHANGED <<manifest, outputs, pods, identity, faults>>

TailLogs(s) ==
    /\ Logged(s) /\ Logs \in pods[s].running
    /\ TailStep
    /\ UNCHANGED <<manifest, outputs, pods, identity, faults>>

-----------------------------------------------------------------------------
(* Faults.                                                                 *)

CanFail == faults < MaxFaults(manifest) /\ faults' = faults + 1
StopsTail(s) == tail' = IF Logged(s) THEN Off ELSE tail

\* template-render fails half way and is run again.
RenderFails(s) ==
    /\ CanFail /\ RunsInit(s, "template-render") /\ pods[s].job > 0
    /\ pods' = [pods EXCEPT ![s].job = 0]
    /\ UNCHANGED <<manifest, outputs, identity, disk, tail>>

ContainerFails(s) ==
    /\ CanFail
    /\ \E c \in pods[s].running :
          /\ pods' = [pods EXCEPT ![s].running = @ \ {c}]
          /\ IF c = Logs THEN StopsTail(s) ELSE UNCHANGED tail
    /\ UNCHANGED <<manifest, outputs, identity, disk>>

\* The sandbox is lost: the pod gets a new address and starts with its first init
\* container, in directories that still have everything.
SandboxFails(s) ==
    /\ CanFail /\ pods[s].phase # "none"
    /\ pods' = [pods EXCEPT ![s] = [pods[s] EXCEPT !.phase = "init", !.at = 1, !.job = 0,
                                                   !.ip = @ + 1, !.running = {}]]
    /\ StopsTail(s)
    /\ UNCHANGED <<manifest, outputs, identity, disk>>

\* The pod is deleted, or its node is lost.
PodFails(s) ==
    /\ CanFail /\ pods[s].phase # "none"
    /\ pods' = [pods EXCEPT ![s] = NoPod(pods[s].ip + 1)]
    /\ disk' = IF Logged(s) THEN {} ELSE disk
    /\ StopsTail(s)
    /\ UNCHANGED <<manifest, outputs, identity>>

-----------------------------------------------------------------------------
Pipeline == Interpolate \/ \E g \in GroupNames : ResolveGroup(g) \/ ConfigureGroup(g) \/ DeployGroup(g)

PodStep(s) ==
    \/ CreatePod(s) \/ CopyContainerRun(s) \/ CopySpecs(s) \/ RenderJobTemplates(s)
    \/ CreateDirs(s) \/ PreStart(s) \/ StartContainer(s)

Fault(s) == RenderFails(s) \/ ContainerFails(s) \/ SandboxFails(s) \/ PodFails(s)

Next == Pipeline \/ \E s \in Slots : PodStep(s) \/ WriteLog(s) \/ TailLogs(s) \/ Fault(s)

Spec == Init /\ [][Next]_vars

\* No command is left to run.
PipelineDone ==
    /\ desired.done
    /\ \A d \in desired.value : \A g \in GroupsIn(d) :
          resolved[g].done /\ bpmInfo[g].done /\ (bpmInfo[g].value # {} => resource[g].done)

\* Jobs, reconcilers and the kubelet try until they succeed; the goroutines of the
\* log tailer are scheduled; nothing has to fail and no process has to log.  The
\* first conjunct is weak fairness of Pipeline: its steps only ever disable
\* themselves.
FairSpec ==
    /\ Spec
    /\ []<>PipelineDone
    /\ WF_vars(\E s \in Slots : PodStep(s)) /\ WF_vars(\E s \in Slots : TailLogs(s))

-----------------------------------------------------------------------------
(* Properties.                                                             *)

\* Type invariant of the outputs, the pods and the log tailer.
TypeOK ==
    /\ GroupsIn(manifest) \subseteq GroupNames
    /\ IsOutput(desired)
    /\ \A g \in GroupNames : IsOutput(resolved[g]) /\ IsOutput(bpmInfo[g]) /\ IsOutput(resource[g])
    /\ \A s \in Slots : /\ pods[s].phase \in {"none", "init", "run"}
                        /\ pods[s].ip \in 1..(MaxFaults(manifest) + 1)
                        /\ pods[s].phase # "none" => pods[s].at \in 1..Len(Template(s).init)
                        /\ pods[s].phase = "run" => pods[s].running \subseteq ContainerNames(s)
                        /\ pods[s].phase # "run" => pods[s].running = {}
    /\ faults \in 0..MaxFaults(manifest)
    /\ TailTypeOK

\* An implicit variable is a Secret with one value; a reference to a field of it
\* says nothing, but makes the operator ask for the Secret, and stays as it is.
IsImplicit(v) == IsRef(v) /\ v.var \notin manifest.variables
FieldOfImplicit(v) == IsImplicit(v) /\ v.field # ""

\* The value that the user of the manifest expects in the place of v: implicit
\* variables first, then explicit ones, which an implicit one may name.
Expected(v) ==
    LET first == IF IsImplicit(v) THEN Secrets[v.var] ELSE v
        file == IF first.field = "" THEN "password" ELSE first.field
    IN IF IsRef(first) /\ first.var \in manifest.variables THEN Files[first.var][file] ELSE first

\* The property at l reaches the desired manifest, in its place and with its
\* variables replaced.
DeliveredAt(l) ==
    \A d \in desired.value : l \in Leaves(d) /\ At(d, l) = Expected(At(manifest, l))

\* Every property of a job of the manifest reaches the desired manifest with its
\* variables replaced, however long, repeated or nested the values are and in
\* whatever order the implicit variables are taken: the document is written and
\* read twice on the way, with anchors and aliases for long texts (Marshal).  Left
\* out are references to a field of an implicit variable, and long texts under a
\* key that YAML quotes: Marshal does not put their anchor in, they arrive under
\* another key or not at all.
ValuesDelivered ==
    \A l \in Leaves(manifest) :
        LET v == At(manifest, l)
        IN ~FieldOfImplicit(v) /\ ~(Quoted(l) /\ Expected(v).text \in LongTexts) => DeliveredAt(l)

\* Does the job provide a link of this type under this name?
ProvidesLink(job, type, name) ==
    \E k \in DOMAIN Specs[<<job.release, job.name>>].provides :
        LET link == Specs[<<job.release, job.name>>].provides[k]
        IN link.type = type /\ {name} \in providedName(job, link)

\* The jobs of the desired manifest that provide it, with their groups.
ProvidersOf(type, name) ==
    {gj \in ToSet(GroupJobs(The(desired))) : ProvidesLink(gj.job, type, name)}

\* What the manifest sets wins over the default of the spec, path by path.
LinkValuesRight(link, job, type, name) ==
    LET spec == Specs[<<job.release, job.name>>]
        k == CHOOSE x \in DOMAIN spec.provides :
                spec.provides[x].type = type /\ {name} \in providedName(job, spec.provides[x])
    IN \A p \in ToSet(spec.provides[k].properties) :
          Property(link.properties, p) =
              IF DOMAIN Property(job.props, p) # {} THEN Property(job.props, p)
              ELSE [q \in {<<>>} |-> RetrievePropertyDefault(spec, p)]

\* link is what a consumer of (type, name) is to get: nothing if nobody provides
\* it, otherwise the instances and properties of a provider, and not of an addon
\* while an ordinary job provides it too.
RightLink(link, type, name) ==
    IF ProvidersOf(type, name) = {} THEN link = NoLink
    ELSE \E gj \in ProvidersOf(type, name) :
            /\ gj.job.addon => \A other \in ProvidersOf(type, name) : other.job.addon
            /\ link.address = gj.group.name
            /\ link.instances = jobInstances(gj.group)
            /\ LinkValuesRight(link, gj.job, type, name)

\* The links that are consumed: group, job and number of the link.
ConsumersIn(g) ==
    LET wanted(job) == Specs[<<job.release, job.name>>].consumes
    IN UNION {{<<g, i, k>> : k \in DOMAIN wanted(The(resolved[g])[i].job)} : i \in DOMAIN The(resolved[g])}
Consumers == UNION {ConsumersIn(g) : g \in {x \in GroupNames : resolved[x].value # {}}}
ConsumingJob(c) == The(resolved[c[1]])[c[2]]
ConsumedLink(c) ==
    Specs[<<ConsumingJob(c).job.release, ConsumingJob(c).job.name>>].consumes[c[3]]

\* The names under which the jobs of the deployment provide a link of this type.
NamesOfType(type) ==
    UNION {UNION {UNION providedName(gj.job, link) :
                    link \in {x \in ToSet(Specs[<<gj.job.release, gj.job.name>>].provides) : x.type = type}}
             : gj \in ToSet(GroupJobs(The(desired)))}

\* The links of this type are all provided under other names.
OnlyRenamed(type, name) == NamesOfType(type) # {} /\ name \notin NamesOfType(type)

\* A job that does not say where its link comes from gets the link of the
\* deployment with that type, with its provider's instances and properties, and
\* not an addon's while a job of the manifest provides it
\* (collectReleaseSpecsAndProviderLinks, Lookup).  This is
\* docs/rendering_templates.md but for a provider renamed with `as`: the document
\* looks for the type, Lookup also for the consumer's name of the link, and finds
\* nothing.
LinksResolved ==
    \A c \in Consumers :
        LET link == ConsumedLink(c) IN
        link.name \notin DOMAIN ConsumingJob(c).job.consumes /\ ~OnlyRenamed(link.type, link.name)
            => RightLink(ConsumingJob(c).links[link.name], link.type, link.name)

\* The slots whose pods a Service selects.
Selected(service) ==
    {s \in Slots : /\ Deployed(s) /\ s[1] = service.selector.group
                   /\ "zone" \in DOMAIN service.selector
                   /\ s[2] = service.selector.zone /\ s[3] = service.selector.ordinal}
ServicesNamed(group, name) ==
    {x \in ToSet(The(resource[group]).services) : x.name = name}

\* A consumer that goes through the instances of a link reaches every pod of the
\* provider once, in the zone it was told: the instances are numbered by one
\* command, the Services by another part of the operator (jobInstances and
\* serviceToKubeServices), the pods by Kubernetes.
LinkReachesProvider ==
    \A c \in Consumers : \A n \in DOMAIN ConsumingJob(c).links :
        LET link == ConsumingJob(c).links[n]
            reached(i) == UNION {Selected(x) : x \in ServicesNamed(link.address, link.instances[i].address)}
        IN (link # NoLink /\ resource[link.address].value # {} /\ The(resource[link.address]).services # <<>>)
           => /\ UNION {reached(i) : i \in DOMAIN link.instances} = {s \in Slots : Deployed(s) /\ s[1] = link.address}
              /\ \A i \in DOMAIN link.instances : \E s \in Slots :
                    /\ reached(i) = {s}
                    /\ Zones(GroupOf(manifest, s[1]))[s[2] + 1] = link.instances[i].az
              /\ \A i, k \in DOMAIN link.instances : i # k => reached(i) \cap reached(k) = {}

\* The Service whose name a pod finds as its own address selects the pod.
AddressIsOwn(s) ==
    \A n \in DOMAIN pods[s].rendered :
        \A x \in ServicesNamed(s[1], pods[s].rendered[n].spec.address) : Selected(x) = {s}

NamedSlots == {s \in Slots : s[1] \notin DOMAIN NameNumbers}

\* In a group with one zone or one replica every pod is rendered with the address
\* of the Service that selects it (template-render's index, jobInstances' order).
\* With more of both, jobInstances counts replica by replica and template-render
\* zone by zone, and the two differ.
OwnAddress ==
    \A s \in NamedSlots : (pods[s].phase # "none"
          /\ (Len(Zones(GroupOf(manifest, s[1]))) = 1 \/ The(resource[s[1]]).replicas = 1))
        => AddressIsOwn(s)

\* The pods that run a script or a process.
Active(s) ==
    \/ pods[s].running \ {Logs} # {}
    \/ pods[s].phase = "init" /\ InitContainer(s).name[1] \in PreStarts

\* Pre-start scripts, hooks and processes find container-run, their directories
\* and the templates of all jobs, rendered for one instance and with the address
\* the pod has now, although directories outlive a sandbox and template-render
\* may fail half way (JobsToInitContainers, RenderJobTemplates).
PreparedFirst ==
    \A s \in Slots : Active(s) =>
        /\ pods[s].tools /\ pods[s].dirs
        /\ \A i \in DOMAIN JobsOf(s) :
              /\ JobsOf(s)[i].job.name \in DOMAIN pods[s].rendered
              /\ pods[s].rendered[JobsOf(s)[i].job.name].ip = pods[s].ip
        /\ \A n, k \in DOMAIN pods[s].rendered :
              pods[s].rendered[n].spec = pods[s].rendered[k].spec

\* The processes of a group of the desired manifest, with their jobs.
ProcessesOf(g) ==
    LET jobs == GroupOf(The(desired), g).jobs
        procs(i) == Processes(The(bpmInfo[g]), jobs[i].name)
    IN UNION {{[job |-> i, name |-> jobs[i].name, number |-> k, process |-> procs(i)[k]] : k \in DOMAIN procs(i)}
              : i \in DOMAIN jobs}
AdditionalPaths(g) ==
    UNION {{v.path : v \in ToSet(treatedAsAdditional(p.process))} : p \in ProcessesOf(g)}

\* The groups for which the converter is known to build a pod that Kubernetes
\* refuses: two jobs with a persistent disk (each brings the volume store-dir), a
\* volume below store without one, a volume that is elsewhere although its path
\* was allowed, two jobs of the same name, and names that are the same once they
\* are put together: of two processes, or of the pre-start hooks of two processes.
Clash(g) ==
    LET all == ProcessesOf(g)
        jobs == GroupOf(The(desired), g).jobs
        persistent == {p.job : p \in {x \in all : x.process.persistent}}
        named(p) == Sanitize(<<p.name, p.process.name>>)
        hook(p) == Sanitize(<<p.process.name>>)
    IN \/ Cardinality(persistent) > 1
       \/ persistent = {} /\ \E path \in AdditionalPaths(g) : prefixDir(path) = "store"
       \/ \E path \in AdditionalPaths(g) : path[1] = "other"
       \/ \E i, k \in DOMAIN jobs : i # k /\ jobs[i].name = jobs[k].name
       \/ \E p, q \in all : p # q /\ named(p) = named(q)
       \/ \E p, q \in all : p # q /\ p.process.prestart # "" /\ q.process.prestart # "" /\ hook(p) = hook(q)

\* Otherwise the pod is one that Kubernetes accepts, whatever volumes the processes
\* of its jobs ask for: below the shared directories, the same one twice, or
\* elsewhere (GenerateBPMDisks, deduplicateVolumeMounts).
PodsAccepted ==
    \A g \in GroupNames : (resource[g].value # {} /\ ~Clash(g)) => PodValid(The(resource[g]).template)

\* The instances that the pod of a slot may be.
InstancesFor(s) ==
    {<<s[1], i>> : i \in 0..(Cardinality({x \in Slots : x[1] = s[1]}) - 1)}

Identity == INSTANCE InstanceIdentity WITH
    Slots <- NamedSlots,
    InstanceOf <- [s \in NamedSlots |-> InstancesFor(s)],
    identity <- [s \in NamedSlots |-> identity[s]],
    up <- {s \in NamedSlots : pods[s].running \ {Logs} # {}}

\* The pods implement the instances of BOSH: each runs as an instance that no
\* other pod of its group is, and through every restart and replacement it stays
\* that instance (template-render's index).
KeepsIdentity == Identity!Spec

\* In the end all pods of every group that can be deployed run, with every process
\* in them, and stay so: rendering never gets stuck for good, whatever failed.
PodsRun ==
    <>[](\A s \in NamedSlots :
            (Deployed(s) /\ PodValid(Template(s)) /\ resolved[s[1]].value # {}) => Running(s))

\* In the end every log file that was there when tail-logs started, or that its
\* watcher reported, is tailed (TailLogsFromDir's walk and its watches).
LogsTailed == <>[](tail.owed \subseteq tail.tailed)
=============================================================================
