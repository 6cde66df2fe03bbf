------------------------------ MODULE Manifest ------------------------------
(***************************************************************************)
(* The BOSH deployment manifest (pkg/bosh/manifest) and what turns the     *)
(* user's manifest into the desired one: implicit variables and addons     *)
(* (pkg/bosh/converter/resolver.go), explicit variables (the               *)
(* variable-interpolation command) and the YAML the stages hand over.      *)
(*                                                                         *)
(* An operator of code that can fail returns a set: its result, or nothing *)
(* when the code returns an error.  An optional part of the manifest is a  *)
(* set of at most one element, a map is a function on its keys.            *)
(*                                                                         *)
(* A property is a leaf: a path of keys with a value.  A value is a text   *)
(* or one reference to a variable, ((var)) or ((var.field)).               *)
(***************************************************************************)
EXTENDS Integers, Sequences, FiniteSets, SequencesExt

CONSTANTS
    LongTexts,  \* the texts of more than 64 characters
    QuotedKeys  \* the keys that YAML writes in quotes, or on a line of their own

Text(t) == [var |-> "", field |-> "", text |-> t]
Ref(v, f) == [var |-> v, field |-> f, text |-> ""]
IsRef(value) == value.var # ""
IsValue(v) == v = Text(v.text) \/ v = Ref(v.var, v.field)

ASSUME LongTextsAssumption == "" \notin LongTexts

\* A list: a sequence, of whatever elements.
IsList(s) == s \in Seq(ToSet(s))

\* The result of the failing operator Op applied to each result of a stage.
Then(results, Op(_)) == UNION {Op(r) : r \in results}

\* The first element of a list with this name, as InstanceGroupByName and the
\* searches in GetJobOS and GetReleaseImage find it.
ByName(list, name) ==
    LET at == {i \in DOMAIN list : list[i].name = name}
    IN {list[i] : i \in {j \in at : \A k \in at : j <= k}}

-----------------------------------------------------------------------------
(* Stemcells and images.                                                   *)

\* The operating system layer of a job: its release's own stemcell, or the
\* stemcell of the instance group.  Both are found by name.
GetJobOS(m, groupName, jobName) ==
    LET system(g, j) == IF j.release \notin DOMAIN m.releases THEN {}
                        ELSE IF m.releases[j.release] # {} THEN m.releases[j.release]
                        ELSE IF g.stemcell \in DOMAIN m.stemcells THEN {m.stemcells[g.stemcell]}
                        ELSE {}
    IN Then(ByName(m.groups, groupName), LAMBDA g : Then(ByName(g.jobs, jobName), LAMBDA j : system(g, j)))

\* The image of the release of a job, for the operating system of the job.
GetReleaseImage(m, groupName, jobName) ==
    {[release |-> j.release, os |-> os] :
        os \in GetJobOS(m, groupName, jobName),
        j \in UNION {ByName(g.jobs, jobName) : g \in ByName(m.groups, groupName)}}

-----------------------------------------------------------------------------
(* Addons.                                                                 *)

BoshDNSAddOnName == "bosh-dns-aliases"
Errands == {"errand", "auto-errand"}
Services == {"service", ""}

\* Lifecycles have to agree; a service group and no rules agree.
lifecycleMatch(g, rules) ==
    /\ g.lifecycle \in Errands => \E r \in rules : r.lifecycle = "errand"
    /\ g.lifecycle \in Services => \A r \in rules : r.lifecycle \in Services

\* The operating systems of the jobs of a group; no rule asks for them, they are
\* worked out whenever there are rules, and one that is missing is an error.
jobSystems(m, g) == [i \in DOMAIN g.jobs |-> GetJobOS(m, g.name, g.jobs[i].name)]

stemcellMatch(m, g, r) == \E i \in DOMAIN g.jobs : jobSystems(m, g)[i] \cap r.stemcells # {}
jobMatch(g, r) == \E i \in DOMAIN g.jobs : <<g.jobs[i].release, g.jobs[i].name>> \in r.jobs
instanceGroupMatch(g, r) == g.name \in r.groups

addOnPlacementMatch(m, g, rules) ==
    IF ~lifecycleMatch(g, rules) THEN {FALSE}
    ELSE IF rules # {} /\ \E i \in DOMAIN g.jobs : jobSystems(m, g)[i] = {} THEN {}
    ELSE {\E r \in rules : stemcellMatch(m, g, r) \/ jobMatch(g, r) \/ instanceGroupMatch(g, r)}

\* Is the addon placed on the group?  No result when a rule cannot be evaluated.
addonPlaced(m, addon, g) ==
    {i /\ ~e : i \in addOnPlacementMatch(m, g, addon.include),
               e \in addOnPlacementMatch(m, g, addon.exclude)}

\* One addon appends its jobs, marked as addon jobs, to the groups it is placed
\* on; the addons that follow see them.
applyAddon(m, addon) ==
    LET placed == [i \in DOMAIN m.groups |-> addonPlaced(m, addon, m.groups[i])]
        added == [k \in DOMAIN addon.jobs |-> [addon.jobs[k] EXCEPT !.addon = TRUE]]
    IN IF addon.name = BoshDNSAddOnName THEN {m}
       ELSE IF \E i \in DOMAIN m.groups : placed[i] = {} THEN {}
       ELSE {[m EXCEPT !.groups = [i \in DOMAIN m.groups |->
                IF TRUE \in placed[i] THEN [m.groups[i] EXCEPT !.jobs = m.groups[i].jobs \o added]
                ELSE m.groups[i]]]}

applyAddonToAll(results, addon) == Then(results, LAMBDA r : applyAddon(r, addon))

ApplyAddons(m) ==
    IF m.applied THEN {m}
    ELSE {[r EXCEPT !.applied = TRUE] : r \in FoldLeft(applyAddonToAll, {m}, m.addons)}

-----------------------------------------------------------------------------
(* The leaves of the document and the YAML of a manifest.                  *)

\* Positions of the values of a manifest.
LeavesOf(kind, lists) ==
    UNION {UNION {{<<kind, i, j, p>> : p \in DOMAIN lists[i].jobs[j].props} : j \in DOMAIN lists[i].jobs}
             : i \in DOMAIN lists}
Leaves(m) == LeavesOf("addon", m.addons) \cup LeavesOf("group", m.groups)

At(m, leaf) == IF leaf[1] = "addon" THEN m.addons[leaf[2]].jobs[leaf[3]].props[leaf[4]]
               ELSE m.groups[leaf[2]].jobs[leaf[3]].props[leaf[4]]

\* The manifest with values[l] at every leaf l.
SetLeaves(m, values) ==
    LET jobs(kind, i, list) == [j \in DOMAIN list |->
            [list[j] EXCEPT !.props = [p \in DOMAIN list[j].props |-> values[<<kind, i, j, p>>]]]]
        all(kind, lists) == [i \in DOMAIN lists |-> [lists[i] EXCEPT !.jobs = jobs(kind, i, lists[i].jobs)]]
    IN [m EXCEPT !.addons = all("addon", m.addons), !.groups = all("group", m.groups)]

\* The order of the leaves in the document, which sorts its keys.  No definition
\* depends on which order it is.
DocumentOrder(m) == SetToSeq(Leaves(m))

\* markDuplicateValues: in the order of the document the key of the first leaf
\* that has a long text gets the hash of it (key=hash), the later leaves become
\* an alias of it.
markDuplicateValues(m) ==
    LET order == DocumentOrder(m)
        long(i) == At(m, order[i]).text \in LongTexts
        first(i) == \A k \in 1..(i - 1) : At(m, order[k]) # At(m, order[i])
    IN [i \in DOMAIN order |->
          [leaf |-> order[i], value |-> At(m, order[i]),
           mark |-> IF ~long(i) THEN "plain" ELSE IF first(i) THEN "renamed" ELSE "alias"]]

Quoted(leaf) == Last(leaf[4]) \in QuotedKeys
renamedKey(key) == key \o "=hash"
renamedLeaf(leaf) ==
    <<leaf[1], leaf[2], leaf[3], Append(Front(leaf[4]), renamedKey(Last(leaf[4])))>>

\* The manifest without its values, the leaves in renamed under their new keys.
WrittenShape(m, renamed) ==
    LET key(leaf) == IF leaf \in renamed THEN renamedLeaf(leaf)[4] ELSE leaf[4]
        jobs(kind, i, list) == [j \in DOMAIN list |->
            [list[j] EXCEPT !.props =
                [q \in {key(<<kind, i, j, p>>) : p \in DOMAIN list[j].props} |-> Text("")]]]
        all(kind, lists) == [i \in DOMAIN lists |-> [lists[i] EXCEPT !.jobs = jobs(kind, i, lists[i].jobs)]]
    IN [m EXCEPT !.addons = all("addon", m.addons), !.groups = all("group", m.groups)]

\* The text "key=hash: " is replaced by the key and an anchor; it is not found
\* where the key is in quotes.
replacedMark(d) == IF d.mark = "renamed" /\ ~Quoted(d.leaf) THEN "anchor" ELSE d.mark

\* The document: an alias carries the hash of the text, not the text.
Marshal(m) ==
    LET marked == markDuplicateValues(m)
        kept(i) == replacedMark(marked[i]) = "renamed"
        renamed == {marked[i].leaf : i \in {k \in DOMAIN marked : kept(k)}}
        line(i) == [leaf |-> IF kept(i) THEN renamedLeaf(marked[i].leaf) ELSE marked[i].leaf,
                    mark |-> replacedMark(marked[i]),
                    hash |-> IF marked[i].mark = "plain" THEN "" ELSE marked[i].value.text,
                    value |-> IF marked[i].mark = "alias" THEN Text("") ELSE marked[i].value]
    IN [shape |-> WrittenShape(m, renamed), lines |-> [i \in DOMAIN marked |-> line(i)]]

\* Faulty variant: any anchor will do.
anchorsBefore(lines, i) == {k \in 1..(i - 1) : lines[k].mark = "anchor"}

\* The anchors that the alias of a line may mean.
anchorsOf(lines, i) ==
    {k \in 1..(i - 1) : lines[k].mark = "anchor" /\ lines[k].hash = lines[i].hash}

\* The aliases in the properties of the BOSH DNS addon have to be such.
loadDNS(m) == \A addon \in ByName(m.addons, BoshDNSAddOnName) : addon.aliasesDecode

\* Reading: an alias has the value of an anchor before it, and is an error when
\* there is none.  (A renamed key differs from all other keys.)
LoadYAML(doc) ==
    LET lines == doc.lines
        valueOf(i) == IF lines[i].mark # "alias" THEN lines[i].value
                      ELSE lines[CHOOSE k \in anchorsOf(lines, i) : TRUE].value
        linesOf(l) == {i \in DOMAIN lines : lines[i].leaf = l}
        lineOf(l) == CHOOSE i \in linesOf(l) :
            lines[i].mark # "renamed" \/ \A k \in linesOf(l) : lines[k].mark = "renamed"
    IN IF (\E i \in DOMAIN lines : lines[i].mark = "alias" /\ anchorsOf(lines, i) = {}) \/ ~loadDNS(doc.shape)
       THEN {}
       ELSE {SetLeaves(doc.shape, [l \in Leaves(doc.shape) |-> valueOf(lineOf(l))])}

-----------------------------------------------------------------------------
(* Variables.                                                              *)

ImplicitVariables(m) ==
    {At(m, l).var : l \in {x \in Leaves(m) : IsRef(At(m, x))}} \ m.variables

\* replaceVar replaces the reference to the whole variable only.
replaceVar(m, v, value) ==
    LET new(old) == IF old.var = v /\ old.field = "" THEN value ELSE old
    IN SetLeaves(m, [l \in Leaves(m) |-> new(At(m, l))])

\* The implicit variables replaced one after the other.
replaceVars(m, secrets, order) == FoldLeft(LAMBDA x, v : replaceVar(x, v, secrets[v]), m, order)

\* WithOpsManifest, after the ops files: every implicit variable's Secret has to
\* be there, they are replaced in the order of a Go map.
WithOpsManifest(m, secrets) ==
    LET names == ImplicitVariables(m)
    IN IF ~(names \subseteq DOMAIN secrets) THEN {}
       ELSE Then({replaceVars(m, secrets, order) : order \in SetToSeqs(names)}, ApplyAddons)

\* The variable-interpolation command: every explicit variable is a directory of
\* files.  The file "password" is the value of the whole variable, any other the
\* value of a field; what is not known stays.  (No manifest here refers to the
\* whole of a variable with fields, which is a map, or to a field of a password.)
InterpolateVariables(m, files) ==
    LET file(value) == IF value.field = "" THEN "password" ELSE value.field
        new(value) == IF IsRef(value) /\ value.var \in DOMAIN files
                         /\ file(value) \in DOMAIN files[value.var]
                      THEN files[value.var][file(value)] ELSE value
    IN SetLeaves(m, [l \in Leaves(m) |-> new(At(m, l))])

\* The with-ops manifest as it is written, interpolated, and written again.
DesiredManifest(m, secrets, files) ==
    Then(Then(WithOpsManifest(m, secrets), LAMBDA w : LoadYAML(Marshal(w))),
         LAMBDA w : LoadYAML(Marshal(InterpolateVariables(w, files))))
=============================================================================
