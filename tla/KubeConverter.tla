--------------------------- MODULE KubeConverter ---------------------------
(***************************************************************************)
(* pkg/bosh/converter: one instance group of the desired manifest and its  *)
(* BPM configs become an ExtendedStatefulSet with its Services, or an      *)
(* ExtendedJob, both with a pod template whose init containers prepare the *)
(* shared directories for the containers of the BPM processes.             *)
(*                                                                         *)
(* A path is the sequence of its parts below /var/vcap, or <<"other", p>>  *)
(* for one elsewhere, followed by the parts below a /var/vcap further down *)
(* in it.  The name of a container or volume is the sequence of the names  *)
(* it is made of, which are in their sanitized form.  Images, commands,    *)
(* environment and probes are left out unless the pod's steps depend on    *)
(* them.                                                                   *)
(***************************************************************************)
EXTENDS InstanceGroupResolver

CONSTANTS
    BeginsWith,  \* names of directories that begin with the name of a shared one
    NameParts    \* the parts of the names that have dashes in them

-----------------------------------------------------------------------------
(* Disks: a volume, a mount, or both, with labels to filter them by.       *)

Mount(volume, path, readOnly) == [volume |-> volume, path |-> path, readOnly |-> readOnly]

NoLabels == [job |-> "", process |-> "", kind |-> ""]
Disk(volumes, mounts, labels) == [volumes |-> volumes, mounts |-> mounts, labels |-> labels]

VolumeMounts(disks) == FlattenSeq([i \in DOMAIN disks |-> disks[i].mounts])
Volumes(disks) == FlattenSeq([i \in DOMAIN disks |-> disks[i].volumes])
Filter(disks, key, value) == SelectSeq(disks, LAMBDA d : d.labels[key] = value)

\* The name that is made of other names, with dashes between them.
Sanitize(name) ==
    FlattenSeq([k \in DOMAIN name |-> IF name[k] \in DOMAIN NameParts THEN NameParts[name[k]] ELSE <<name[k]>>])

\* A directory of the pod that all its containers share.
sharedDisk(volume, path) == Disk(<<volume>>, <<Mount(volume, path, FALSE)>>, NoLabels)

GenerateDefaultDisks(groupName) ==
    <<sharedDisk(<<"rendering-data">>, <<"all-releases">>), sharedDisk(<<"jobs-dir">>, <<"jobs">>),
      sharedDisk(<<"data-dir">>, <<"data">>), sharedDisk(<<"sys-dir">>, <<"sys">>),
      Disk(<<<<"desired-manifest">>>>, <<>>, NoLabels),
      Disk(<<<<"resolved-properties">>>>, <<>>, NoLabels)>>

\* AdditionalVolumesRegex: a path inside data, store or sys/run.  The expression
\* is not anchored: any part of the path may match.
insideShared(parts) ==
    \/ Len(parts) > 1 /\ parts[1] \in {"data", "store"}
    \/ Len(parts) > 2 /\ parts[1] = "sys" /\ parts[2] = "run"
additionalVolumeAllowed(path) ==
    insideShared(path) \/ (path[1] = "other" /\ insideShared(SubSeq(path, 3, Len(path))))

\* The directory of /var/vcap that the path has as a prefix, by characters.
prefixDir(path) == IF path[1] \in DOMAIN BeginsWith THEN BeginsWith[path[1]] ELSE path[1]

\* The volume of a shared directory; any other mount has no volume name.
dirVolume(root) ==
    CASE root = "data" -> <<"data-dir">> [] root = "store" -> <<"store-dir">>
      [] root = "sys" -> <<"sys-dir">> [] OTHER -> <<"">>

\* An unrestricted volume below a directory that every container shares is an
\* additional volume; below /var/vcap/jobs it is dropped.
treatedAsAdditional(process) ==
    process.additional
    \o SelectSeq(process.unrestricted, LAMBDA v : prefixDir(v.path) \in {"data", "store", "sys"})
filteredUnrestrictedVolumes(process) ==
    SelectSeq(process.unrestricted, LAMBDA v : prefixDir(v.path) \notin {"data", "store", "sys", "jobs"})

processDisks(jobName, process) ==
    LET labels == [job |-> jobName, process |-> process.name, kind |-> ""]
        additional == treatedAsAdditional(process)
        unrestricted == filteredUnrestrictedVolumes(process)
        own(i) == <<"bpm-unrestricted-volume", jobName, process.name, ToString(i)>>
    IN [i \in DOMAIN additional |->
           Disk(<<>>, <<Mount(dirVolume(prefixDir(additional[i].path)), additional[i].path,
                              ~additional[i].writable)>>, labels)]
       \o
       [i \in DOMAIN unrestricted |->
           Disk(<<own(i)>>, <<Mount(own(i), unrestricted[i].path, ~unrestricted[i].writable)>>, labels)]

\* The disks of a job: those of its processes, then one for its ephemeral and
\* one for its persistent data.
jobDisks(jobName, processes) ==
    LET needs(flag(_)) == \E i \in DOMAIN processes : flag(processes[i])
        own(root, volumes, kind) ==
            <<Disk(volumes, <<Mount(dirVolume(root), <<root, jobName>>, FALSE)>>,
                   [job |-> jobName, process |-> "", kind |-> kind])>>
    IN FlattenSeq([i \in DOMAIN processes |-> processDisks(jobName, processes[i])])
       \o (IF needs(LAMBDA p : p.ephemeral) THEN own("data", <<>>, "ephemeral") ELSE <<>>)
       \o (IF needs(LAMBDA p : p.persistent) THEN own("store", <<<<"store-dir">>>>, "persistent") ELSE <<>>)

Processes(bpmConfigs, jobName) == IF jobName \in DOMAIN bpmConfigs THEN bpmConfigs[jobName] ELSE <<>>

GenerateBPMDisks(g, bpmConfigs) ==
    LET procs(i) == Processes(bpmConfigs, g.jobs[i].name)
    IN IF \E i \in DOMAIN g.jobs : \E k \in DOMAIN procs(i) :
             \/ \E v \in ToSet(treatedAsAdditional(procs(i)[k])) : ~additionalVolumeAllowed(v.path)
             \/ procs(i)[k].persistent /\ g.disk = 0
       THEN {}
       ELSE {FlattenSeq([i \in DOMAIN g.jobs |-> jobDisks(g.jobs[i].name, procs(i))])}

\* Faulty variant: every mount stays.
allVolumeMounts(mounts) == mounts

\* Of the mounts with the same path the first one stays.
deduplicateVolumeMounts(mounts) ==
    LET first == {i \in DOMAIN mounts : \A k \in 1..(i - 1) : mounts[k].path # mounts[i].path}
    IN [i \in 1..Cardinality(first) |->
          mounts[CHOOSE k \in first : Cardinality({x \in first : x <= k}) = i]]

-----------------------------------------------------------------------------
(* Containers.                                                             *)

Container(name, image, mounts) == [name |-> name, image |-> image, mounts |-> mounts, postStart |-> FALSE]
operatorImage == [release |-> "", os |-> ""]
mountOf(volume, path) == Mount(volume, path, FALSE)

containerRunCopier ==
    Container(<<"container-run-copier">>, operatorImage, <<mountOf(<<"rendering-data">>, <<"all-releases">>)>>)
jobSpecCopierContainer(release, image) ==
    Container(<<"spec-copier", release>>, image, <<mountOf(<<"rendering-data">>, <<"all-releases">>)>>)
templateRenderingContainer(groupName) ==
    Container(<<"template-render">>, operatorImage,
              <<mountOf(<<"rendering-data">>, <<"all-releases">>), mountOf(<<"jobs-dir">>, <<"jobs">>),
                Mount(<<"resolved-properties">>, <<"resolved-properties", groupName>>, TRUE)>>)
createDirContainer ==
    Container(<<"create-dirs">>, operatorImage,
              <<mountOf(<<"data-dir">>, <<"data">>), mountOf(<<"sys-dir">>, <<"sys">>)>>)
boshPreStartInitContainer(jobName, image, mounts) ==
    Container(<<"bosh-pre-start", jobName>>, image, deduplicateVolumeMounts(mounts))
bpmPreStartInitContainer(process, image, mounts) ==
    Container(<<"bpm-pre-start", process.name>>, image, deduplicateVolumeMounts(mounts))
bpmProcessContainer(jobName, process, image, mounts, post) ==
    [Container(<<jobName, process.name>>, image, deduplicateVolumeMounts(mounts)) EXCEPT !.postStart = post]
logsTailerContainer ==
    Container(<<"logs">>, operatorImage, <<mountOf(<<"sys-dir">>, <<"sys">>)>>)

\* What a process sees: the shared directories, its own volumes, and the
\* ephemeral and the persistent directory of its job.
processVolumeMounts(defaults, disks, jobName, process) ==
    LET ofJob == Filter(disks, "job", jobName)
        first(kind) == LET found == VolumeMounts(Filter(ofJob, "kind", kind))
                       IN SubSeq(found, 1, IF found = <<>> THEN 0 ELSE 1)
    IN defaults \o VolumeMounts(Filter(ofJob, "process", process.name))
                \o first("ephemeral") \o first("persistent")

\* The images of all jobs, or nothing: both lists of containers need them and the
\* BPM config of every job.
jobImages(m, g, bpmConfigs) ==
    LET images == [i \in DOMAIN g.jobs |-> GetReleaseImage(m, g.name, g.jobs[i].name)]
    IN IF \E i \in DOMAIN g.jobs : images[i] = {} \/ g.jobs[i].name \notin DOMAIN bpmConfigs THEN {}
       ELSE {[i \in DOMAIN g.jobs |-> CHOOSE x \in images[i] : TRUE]}

JobsToInitContainers(g, images, bpmConfigs, defaults, disks) ==
    LET jobs == g.jobs
        newRelease(i) == \A k \in 1..(i - 1) : jobs[k].release # jobs[i].release
        copiers == FlattenSeq([i \in DOMAIN jobs |->
            IF newRelease(i) THEN <<jobSpecCopierContainer(jobs[i].release, images[i])>> ELSE <<>>])
        boshPreStarts == [i \in DOMAIN jobs |->
            boshPreStartInitContainer(jobs[i].name, images[i], defaults \o VolumeMounts(disks))]
        procs(i) == bpmConfigs[jobs[i].name]
        hook(i, p) == IF p.prestart = "" THEN <<>>
                      ELSE <<bpmPreStartInitContainer(p, images[i],
                                 processVolumeMounts(defaults, disks, jobs[i].name, p))>>
        bpmPreStarts == FlattenSeq([i \in DOMAIN jobs |->
            FlattenSeq([k \in DOMAIN procs(i) |-> hook(i, procs(i)[k])])])
    IN <<containerRunCopier>> \o copiers \o <<templateRenderingContainer(g.name), createDirContainer>>
       \o boshPreStarts \o bpmPreStarts

\* A container for each process; the first one of a job runs its post-start.
JobsToContainers(g, images, bpmConfigs, defaults, disks) ==
    LET procs(i) == bpmConfigs[g.jobs[i].name]
        ofJob(i) == [k \in DOMAIN procs(i) |->
            bpmProcessContainer(g.jobs[i].name, procs(i)[k], images[i],
                processVolumeMounts(defaults, disks, g.jobs[i].name, procs(i)[k]), k = 1)]
    IN FlattenSeq([i \in DOMAIN g.jobs |-> ofJob(i)]) \o (IF g.logs THEN <<logsTailerContainer>> ELSE <<>>)

-----------------------------------------------------------------------------
(* Resources of an instance group.                                         *)

\* The pod template; an instance group has to have jobs.
podTemplate(m, g, bpmConfigs, disks) ==
    LET defaults == VolumeMounts(GenerateDefaultDisks(g.name))
    IN IF g.jobs = <<>> THEN {}
       ELSE {[volumes |-> Volumes(GenerateDefaultDisks(g.name)) \o Volumes(disks),
              init |-> JobsToInitContainers(g, images, bpmConfigs, defaults, disks),
              containers |-> JobsToContainers(g, images, bpmConfigs, defaults, disks)]
                : images \in jobImages(m, g, bpmConfigs)}

\* The selector of an indexed Service and the labels of the pods it selects.
podLabels(g, zone, ordinal) == [group |-> g.name, zone |-> zone, ordinal |-> ordinal]

\* Faulty variant: the instances of one zone after those of the other.
servicesByZone(g) ==
    IF \A i \in DOMAIN g.jobs : g.jobs[i].ports = {} THEN <<>>
    ELSE [k \in 1..(g.instances * Len(Zones(g))) |->
            [name |-> <<g.name, k - 1>>,
             selector |-> podLabels(g, (k - 1) \div g.instances, (k - 1) % g.instances)]]
         \o <<[name |-> <<g.name>>, selector |-> [group |-> g.name]]>>

\* One Service for each instance and zone, numbered in that order, and the
\* headless one; none when no job has a port.
serviceToKubeServices(g) ==
    LET zones == Len(Zones(g))
    IN IF \A i \in DOMAIN g.jobs : g.jobs[i].ports = {} THEN <<>>
       ELSE [k \in 1..(g.instances * zones) |->
               [name |-> <<g.name, k - 1>>, selector |-> podLabels(g, (k - 1) % zones, (k - 1) \div zones)]]
            \o <<[name |-> <<g.name>>, selector |-> [group |-> g.name]]>>

\* With BOSH DNS the pods use its Service, whose address Reconcile has found
\* before the resources are built.
DNSSetting(m) == IF ByName(m.addons, BoshDNSAddOnName) = {} THEN "ClusterFirst" ELSE "None"

serviceToExtendedSts(m, g, template) ==
    [kind |-> "ExtendedStatefulSet", name |-> g.name, zones |-> g.azs, replicas |-> g.instances,
     template |-> template, dns |-> DNSSetting(m), services |-> serviceToKubeServices(g), trigger |-> ""]

errandToExtendedJob(m, g, template) ==
    [kind |-> "ExtendedJob", name |-> g.name, zones |-> <<>>, replicas |-> 1,
     template |-> template, dns |-> DNSSetting(m), services |-> <<>>,
     trigger |-> IF g.lifecycle = "auto-errand" THEN "once" ELSE "manual"]

BPMResources(m, groupName, bpmConfigs) ==
    UNION {{IF g.lifecycle \in Services THEN serviceToExtendedSts(m, g, template)
            ELSE errandToExtendedJob(m, g, template)
            : template \in Then(GenerateBPMDisks(g, bpmConfigs),
                                LAMBDA disks : podTemplate(m, g, bpmConfigs, disks))}
           : g \in ByName(m.groups, groupName)}
=============================================================================
