----------------------- MODULE InstanceGroupResolver -----------------------
(***************************************************************************)
(* The instance-group and bpm-configs commands of the data gathering jobs  *)
(* (pkg/bosh/manifest/cmd_instance_group_resolver.go): every container     *)
(* reads the whole desired manifest, gives every job of every group its    *)
(* instances, collects the links they provide, fills in the links that the *)
(* jobs of its own group consume and renders their bpm.yml.                *)
(*                                                                         *)
(* The job specs (job.MF) and templates are part of the release images:    *)
(* Specs[<<release, job>>] has the properties with their defaults, the     *)
(* links provided and consumed, and the processes bpm.yml renders to for   *)
(* the bootstrap instance and for the others.                              *)
(***************************************************************************)
EXTENDS Manifest

CONSTANT Specs

NoValue == Text("")  \* a property without a default

-----------------------------------------------------------------------------
(* Nested properties.                                                      *)

\* The leaves at or below a path; Job.Property finds one or a whole subtree.
Property(props, path) ==
    [q \in {q \in {SubSeq(x, Len(path) + 1, Len(x)) : x \in DOMAIN props} : path \o q \in DOMAIN props}
        |-> props[path \o q]]

\* Walking down to a path makes every level above it a map.
Descend(props, path) ==
    [q \in {x \in DOMAIN props : ~IsStrictPrefix(x, path)} |-> props[q]]

SetAt(props, path, tree) ==
    LET rest == {x \in DOMAIN Descend(props, path) : ~IsPrefix(path, x)}
        new == {path \o q : q \in DOMAIN tree}
    IN [x \in rest \cup new |-> IF x \in new THEN tree[SubSeq(x, Len(path) + 1, Len(x))] ELSE props[x]]

RetrievePropertyDefault(spec, path) ==
    IF path \in DOMAIN spec.props THEN spec.props[path] ELSE NoValue

RetrieveNestedProperty(props, spec, path) ==
    SetAt(props, path, [q \in {<<>>} |-> RetrievePropertyDefault(spec, path)])

mergeNestedExplicitProperty(props, job, path) ==
    LET explicit == Property(job.props, path)
    IN IF DOMAIN explicit = {} THEN Descend(props, path) ELSE SetAt(props, path, explicit)

\* The properties of a provided link: all defaults first, then what the
\* manifest sets.
LinkProperties(job, spec, link) ==
    LET defaults == FoldLeft(LAMBDA ps, p : RetrieveNestedProperty(ps, spec, p), <<>>, link.properties)
    IN FoldLeft(LAMBDA ps, p : mergeNestedExplicitProperty(ps, job, p), defaults, link.properties)

-----------------------------------------------------------------------------
(* Instances and provided links.                                           *)

Zones(g) == IF g.azs = <<>> THEN <<"">> ELSE g.azs

\* jobInstances goes through the instances and, for each, through the zones.
\* The address is the name of the Service with that index.
jobInstances(g) ==
    [k \in 1..(g.instances * Len(Zones(g))) |->
        [index |-> k - 1, az |-> Zones(g)[((k - 1) % Len(Zones(g))) + 1],
         bootstrap |-> k = 1, instance |-> (k - 1) \div Len(Zones(g)),
         address |-> <<g.name, k - 1>>]]

\* The name a job provides a link under: its own, or the "as" of the manifest's
\* map, or no name when it is blocked; no result when the manifest's value for it
\* is neither a map nor "nil".
providedName(job, link) ==
    IF link.name \notin DOMAIN job.provides THEN {{link.name}}
    ELSE CASE job.provides[link.name].kind = "as" -> {{job.provides[link.name].as}}
           [] job.provides[link.name].kind = "map" -> {{link.name}}
           [] job.provides[link.name].kind = "nil" -> {{}}
           [] OTHER -> {}

\* Faulty variant: the last provider wins.
AddLinkReplaces(links, g, job, link) ==
    LET value == [address |-> g.name, instances |-> jobInstances(g),
                  properties |-> LinkProperties(job, Specs[<<job.release, job.name>>], link)]
        add(name) == {[k \in DOMAIN links \cup {<<link.type, name>>} |->
                         IF k = <<link.type, name>> THEN value ELSE links[k]]}
    IN Then(providedName(job, link),
            LAMBDA names : IF names = {} THEN {links} ELSE Then(names, add))

\* One link of a job is added to the links found so far (a function on type and
\* name).  A second provider is an error, unless this job comes from an addon.
AddLink(links, g, job, link) ==
    LET value == [address |-> g.name, instances |-> jobInstances(g),
                  properties |-> LinkProperties(job, Specs[<<job.release, job.name>>], link)]
        add(name) == IF <<link.type, name>> \notin DOMAIN links
                     THEN {[k \in DOMAIN links \cup {<<link.type, name>>} |->
                              IF k \in DOMAIN links THEN links[k] ELSE value]}
                     ELSE IF job.addon THEN {links} ELSE {}
    IN Then(providedName(job, link),
            LAMBDA names : IF names = {} THEN {links} ELSE Then(names, add))

AddNextLink(results, next) == Then(results, LAMBDA links : AddLink(links, next.group, next.job, next.link))

\* All links that a job provides, one after the other.
Add(links, g, job) ==
    LET provides == Specs[<<job.release, job.name>>].provides
    IN FoldLeft(AddNextLink, {links}, [k \in DOMAIN provides |-> [group |-> g, job |-> job, link |-> provides[k]]])

\* Every job of every group, in the order of the manifest.
GroupJobs(m) == FlattenSeq([g \in DOMAIN m.groups |->
    [j \in DOMAIN m.groups[g].jobs |-> [group |-> m.groups[g], job |-> m.groups[g].jobs[j]]]])

AddNextJob(results, next) == Then(results, LAMBDA links : Add(links, next.group, next.job))

collectReleaseSpecsAndProviderLinks(m) ==
    IF \E i \in DOMAIN GroupJobs(m) :
          <<GroupJobs(m)[i].job.release, GroupJobs(m)[i].job.name>> \notin DOMAIN Specs
    THEN {}
    ELSE FoldLeft(AddNextJob, {<<>>}, GroupJobs(m))

-----------------------------------------------------------------------------
(* Consumed links.                                                         *)

\* The name the link is stored under: the "from" of the manifest, or its own.
\* A value that is not a map, such as "nil", is a failed type assertion.
consumedName(job, provider) ==
    IF provider.name \notin DOMAIN job.consumes THEN {provider.name}
    ELSE CASE job.consumes[provider.name].kind = "from" -> {job.consumes[provider.name].from}
           [] job.consumes[provider.name].kind = "map" -> {provider.name}
           [] OTHER -> {}

NoLink == [address |-> "", instances |-> <<>>, properties |-> <<>>]

\* Lookup takes type and name from the job's spec, whatever "from" says.
Lookup(links, provider) ==
    IF <<provider.type, provider.name>> \in DOMAIN links
    THEN {links[<<provider.type, provider.name>>]} ELSE {}

consumeLink(consumed, job, provider, links) ==
    LET found == Lookup(links, provider)
        link == IF found = {} THEN NoLink ELSE CHOOSE l \in found : TRUE
    IN IF found = {} /\ ~provider.optional THEN {}
       ELSE {[k \in DOMAIN consumed \cup {n} |-> IF k = n THEN link ELSE consumed[k]]
                : n \in consumedName(job, provider)}

consumeNextLink(results, next) ==
    Then(results, LAMBDA consumed : consumeLink(consumed, next.job, next.provider, next.links))

generateJobConsumersData(job, links) ==
    LET consumes == Specs[<<job.release, job.name>>].consumes
    IN FoldLeft(consumeNextLink, {<<>>},
                [k \in DOMAIN consumes |-> [job |-> job, provider |-> consumes[k], links |-> links]])

-----------------------------------------------------------------------------
(* BPM.                                                                    *)

\* mergo.MergeWithOverwrite: what the preset sets wins, an empty value does not.
mergeProcess(dst, src) ==
    [dst EXCEPT !.prestart = IF src.prestart = "" THEN @ ELSE src.prestart,
                !.ephemeral = @ \/ src.ephemeral,
                !.persistent = @ \/ src.persistent,
                !.additional = IF src.additional = <<>> THEN @ ELSE src.additional,
                !.unrestricted = IF src.unrestricted = <<>> THEN @ ELSE src.unrestricted]

\* One more process of the preset: into the one of that name, or after the others.
mergeBPMProcess(procs, p) ==
    LET at == {i \in DOMAIN procs : procs[i].name = p.name}
        i == CHOOSE k \in at : \A x \in at : k <= x
    IN IF at = {} THEN Append(procs, p) ELSE [procs EXCEPT ![i] = mergeProcess(procs[i], p)]

mergeBPMProcesses(rendered, preset) == FoldLeft(mergeBPMProcess, rendered, preset)

\* renderJobBPM: the processes of the first instance stand for all.  Without a
\* template the preset has to be there; without instances the template is not
\* rendered and the preset, if any, stays.
renderJobBPM(job, instances) ==
    LET spec == Specs[<<job.release, job.name>>]
    IN IF spec.bpm # {} /\ instances # <<>>
       THEN {{mergeBPMProcesses(b[instances[1].bootstrap], IF job.preset = {} THEN <<>>
                                                          ELSE CHOOSE p \in job.preset : TRUE)
                : b \in spec.bpm}}
       ELSE IF spec.bpm = {} /\ job.preset = {} THEN {} ELSE {job.preset}

\* A job with its instances, links and BPM processes.
resolveJob(job, instances, links) ==
    {[job |-> job, instances |-> instances, links |-> c, bpm |-> b] :
        c \in generateJobConsumersData(job, links), b \in renderJobBPM(job, instances)}

\* The jobs of a group.  Every pre-render script has to succeed before anything
\* else.
resolveJobs(g, links) ==
    LET results == [i \in DOMAIN g.jobs |-> resolveJob(g.jobs[i], jobInstances(g), links)]
    IN IF \E i \in DOMAIN g.jobs : results[i] = {} \/ ~g.jobs[i].scriptsWork THEN {}
       ELSE {[i \in DOMAIN g.jobs |-> CHOOSE r \in results[i] : TRUE]}

resolveManifest(m, groupName) ==
    Then(ByName(m.groups, groupName), LAMBDA g :
         Then(collectReleaseSpecsAndProviderLinks(m), LAMBDA links : resolveJobs(g, links)))

\* The instance-group command: the resolved manifest of the group.  It is written
\* and read again like the desired manifest, which is not repeated here.
ResolvedProperties(m, groupName) == resolveManifest(m, groupName)

\* The bpm-configs command: a map on the job names, where a later job replaces
\* an earlier one of the same name.  A job without BPM is a nil pointer, which
\* the command turns into an error.
BPMConfigs(m, groupName) ==
    LET config(jobs, name) ==
          CHOOSE b \in jobs[Max({i \in DOMAIN jobs : jobs[i].job.name = name})].bpm : TRUE
    IN UNION {IF \E i \in DOMAIN jobs : jobs[i].bpm = {} THEN {}
              ELSE {[n \in {jobs[i].job.name : i \in DOMAIN jobs} |-> config(jobs, n)]}
              : jobs \in resolveManifest(m, groupName)}
=============================================================================
