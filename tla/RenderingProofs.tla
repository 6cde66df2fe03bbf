-------------------------- MODULE RenderingProofs --------------------------
(***************************************************************************)
(* Proofs about Rendering, for all manifests, job specs and any number of  *)
(* faults.                                                                 *)
(***************************************************************************)
EXTENDS Rendering, SequenceTheorems, FiniteSetTheorems, TLAPS

-----------------------------------------------------------------------------
(* Folds.                                                                  *)

ListKept(x, c) == IsList(x)
Merging == INSTANCE FoldProofs WITH Op <- mergeBPMProcess, Good <- ListKept

-----------------------------------------------------------------------------
(* Lists.                                                                  *)

\* A list has a length and the positions up to it; a function on 1..n is a list.
LEMMA ListIs ==
    ASSUME NEW s, IsList(s)
    PROVE  Len(s) \in Nat /\ DOMAIN s = 1..Len(s)
BY LenProperties DEF IsList

LEMMA ListFrom ==
    ASSUME NEW S, NEW s \in Seq(S)
    PROVE  IsList(s) /\ Len(s) \in Nat /\ DOMAIN s = 1..Len(s)
<1>1. Len(s) \in Nat /\ DOMAIN s = 1..Len(s) /\ s \in [1..Len(s) -> S]
    BY LenProperties
<1>2. s \in [1..Len(s) -> ToSet(s)]
    BY <1>1 DEF ToSet
<1> QED BY <1>1, <1>2, SeqDef DEF IsList

\* ... whose elements are elements of the lists.
LEMMA FlattenList ==
    ASSUME NEW ss, IsList(ss), \A i \in DOMAIN ss : IsList(ss[i])
    PROVE  /\ IsList(FlattenSeq(ss))
           /\ \A k \in DOMAIN FlattenSeq(ss) :
                 \E i \in DOMAIN ss : \E j \in DOMAIN ss[i] : FlattenSeq(ss)[k] = ss[i][j]
<1> DEFINE S == UNION {ToSet(ss[i]) : i \in DOMAIN ss}
<1>1. \A i \in DOMAIN ss : ss[i] \in Seq(S)
    <2> SUFFICES ASSUME NEW i \in DOMAIN ss PROVE ss[i] \in Seq(S)
        OBVIOUS
    <2>1. ss[i] \in Seq(ToSet(ss[i]))
        BY DEF IsList
    <2>2. ToSet(ss[i]) \subseteq S
        OBVIOUS
    <2> HIDE DEF S
    <2> QED BY <2>1, <2>2, SeqDef
<1>2. ss \in Seq(Seq(S))
    <2> HIDE DEF S
    <2>1. DOMAIN ss = 1..Len(ss) /\ Len(ss) \in Nat /\ ss \in [1..Len(ss) -> ToSet(ss)]
        BY LenProperties DEF IsList
    <2>2. ss \in [1..Len(ss) -> Seq(S)]
        BY <1>1, <2>1
    <2> QED BY <2>1, <2>2, SeqDef
<1> DEFINE flat == FlattenSeq(ss)
<1>3. flat \in Seq(S)
    BY <1>2, Merging!FlattenIn, Zenon DEF FlattenSeq, Merging!FlattenSeq
<1> HIDE DEF flat
<1>4. IsList(flat) /\ \A k \in DOMAIN flat : flat[k] \in S
    <2> HIDE DEF S
    <2>1. IsList(flat) /\ DOMAIN flat = 1..Len(flat)
        BY <1>3, ListFrom
    <2> QED BY <1>3, <2>1, ElementOfSeq
<1>5. \A x \in S : \E i \in DOMAIN ss : \E j \in DOMAIN ss[i] : x = ss[i][j]
    BY DEF ToSet
<1> QED BY <1>4, <1>5, Zenon DEF flat

\* Lists of which a list is made.
LEMMA ListOf ==
    ASSUME NEW n \in Nat, NEW S, NEW f \in [1..n -> S]
    PROVE  IsList(f) /\ Len(f) = n /\ DOMAIN f = 1..n
<1>1. f \in Seq(S)
    BY SeqDef
<1>2. DOMAIN f = 1..n /\ Len(f) = n
    BY <1>1, LenProperties
<1> QED BY <1>1, <1>2, ListFrom

LEMMA ListConcat ==
    ASSUME NEW s, NEW t, IsList(s), IsList(t)
    PROVE  /\ IsList(s \o t) /\ Len(s) \in Nat /\ Len(t) \in Nat
           /\ Len(s \o t) = Len(s) + Len(t) /\ DOMAIN (s \o t) = 1..(Len(s) + Len(t))
           /\ \A i \in DOMAIN s : (s \o t)[i] = s[i]
           /\ \A i \in DOMAIN t : (s \o t)[Len(s) + i] = t[i]
           /\ \A i \in DOMAIN (s \o t) : i \in DOMAIN s \/ (i - Len(s) \in DOMAIN t /\ i = Len(s) + (i - Len(s)))
<1> DEFINE S == ToSet(s) \cup ToSet(t)
<1>1. /\ Len(s) \in Nat /\ DOMAIN s = 1..Len(s) /\ Len(t) \in Nat /\ DOMAIN t = 1..Len(t)
      /\ s \in Seq(ToSet(s)) /\ t \in Seq(ToSet(t))
    BY ListIs DEF IsList
<1>2. s \in Seq(S) /\ t \in Seq(S)
    <2>1. ToSet(s) \subseteq S /\ ToSet(t) \subseteq S
        OBVIOUS
    <2> HIDE DEF S
    <2> QED BY <1>1, <2>1, SeqDef
<1> HIDE DEF S
<1> DEFINE c == s \o t
<1>3. /\ c \in Seq(S) /\ Len(c) = Len(s) + Len(t)
      /\ \A i \in 1..(Len(s) + Len(t)) : c[i] = IF i <= Len(s) THEN s[i] ELSE t[i - Len(s)]
    BY <1>2, ConcatProperties
<1> HIDE DEF c
<1>4. IsList(c) /\ DOMAIN c = 1..(Len(s) + Len(t))
    BY <1>3, ListFrom
<1>5. \A i \in DOMAIN s : i \in 1..(Len(s) + Len(t)) /\ i <= Len(s)
    BY <1>1
<1>6. \A i \in DOMAIN t : /\ Len(s) + i \in 1..(Len(s) + Len(t)) /\ ~(Len(s) + i <= Len(s))
                          /\ (Len(s) + i) - Len(s) = i
    BY <1>1
<1>7. \A i \in DOMAIN c : i \in DOMAIN s \/ (i - Len(s) \in DOMAIN t /\ i = Len(s) + (i - Len(s)))
    BY <1>1, <1>4
<1>8. \A i \in DOMAIN s : c[i] = s[i]
    BY <1>3, <1>5
<1>9. \A i \in DOMAIN t : c[Len(s) + i] = t[i]
    BY <1>3, <1>6
<1> QED BY <1>1, <1>3, <1>4, <1>7, <1>8, <1>9 DEF c

LEMMA ConcatLen ==
    ASSUME NEW s, NEW t, IsList(s), IsList(t)
    PROVE  IsList(s \o t) /\ Len(s \o t) = Len(s) + Len(t) /\ DOMAIN (s \o t) = 1..(Len(s) + Len(t))
BY ListConcat

LEMMA ConcatLeft ==
    ASSUME NEW s, NEW t, IsList(s), IsList(t), NEW i \in DOMAIN s PROVE (s \o t)[i] = s[i]
BY ListConcat

LEMMA ConcatRight ==
    ASSUME NEW s, NEW t, IsList(s), IsList(t), NEW i \in DOMAIN t PROVE (s \o t)[Len(s) + i] = t[i]
<1> DEFINE c == s \o t
<1>1. \A k \in DOMAIN t : c[Len(s) + k] = t[k]
    BY ListConcat
<1> HIDE DEF c
<1>2. c[Len(s) + i] = t[i]
    BY <1>1
<1> QED BY <1>2 DEF c

LEMMA ListJoin ==
    ASSUME NEW s, NEW t, IsList(s), IsList(t)
    PROVE  /\ IsList(s \o t)
           /\ ToSet(s \o t) \subseteq ToSet(s) \cup ToSet(t)
BY ListConcat DEF ToSet

LEMMA ListAppend ==
    ASSUME NEW s, NEW x, IsList(s) PROVE IsList(Append(s, x))
<1>1. s \in Seq(ToSet(s))
    BY DEF IsList
<1>2. s \in Seq(ToSet(s) \cup {x})
    <2> DEFINE T == ToSet(s) \cup {x}
    <2>1. ToSet(s) \subseteq T
        OBVIOUS
    <2> HIDE DEF T
    <2> QED BY <1>1, <2>1, SeqDef
<1>3. Append(s, x) \in Seq(ToSet(s) \cup {x})
    BY <1>2, AppendProperties
<1> HIDE DEF IsList
<1> QED BY <1>3, ListFrom

LEMMA ListExcept ==
    ASSUME NEW s, NEW i, NEW x, IsList(s) PROVE IsList([s EXCEPT ![i] = x])
<1> DEFINE t == [s EXCEPT ![i] = x]
<1>1. Len(s) \in Nat /\ DOMAIN s = 1..Len(s)
    BY ListIs
<1>2. DOMAIN t = 1..Len(s) /\ t \in [1..Len(s) -> ToSet(s) \cup {x}]
    BY <1>1 DEF ToSet
<1> HIDE DEF t
<1>3. IsList(t)
    BY <1>1, <1>2, ListOf
<1> QED BY <1>3 DEF t

-----------------------------------------------------------------------------
(* BPM.                                                                    *)

\* What is merged into a list of processes is a list.
LEMMA MergedList ==
    ASSUME NEW rendered, IsList(rendered), NEW preset, IsList(preset)
    PROVE  IsList(mergeBPMProcesses(rendered, preset))
<1>1. Len(preset) \in Nat /\ DOMAIN preset = 1..Len(preset)
    BY ListIs
<1>2. ASSUME NEW procs, NEW p, IsList(procs) PROVE IsList(mergeBPMProcess(procs, p))
    BY <1>2, ListAppend, ListExcept DEF mergeBPMProcess
<1>3. ListKept(Merging!Fold(rendered, preset), {})
    BY <1>1, <1>2, Merging!FoldKeeps, Zenon DEF ListKept
<1>4. Merging!Fold(rendered, preset) = mergeBPMProcesses(rendered, preset)
    BY Zenon DEF mergeBPMProcesses, FoldLeft, MapThenFoldSet, Max,
        Merging!Fold, Merging!FoldLeft, Merging!MapThenFoldSet, Merging!Max
<1> QED BY <1>3, <1>4, Zenon DEF ListKept
-----------------------------------------------------------------------------
(* The shape of the desired manifest: variables and addons change and add  *)
(* jobs and properties, the groups stay.                                   *)

GroupLike(h, g) ==
    /\ GroupOK(h)
    /\ h.name = g.name /\ h.instances = g.instances /\ h.azs = g.azs /\ h.lifecycle = g.lifecycle

Shaped(d, m) ==
    /\ {"groups", "addons", "applied"} \subseteq DOMAIN d
    /\ DOMAIN d.groups = DOMAIN m.groups
    /\ \A i \in DOMAIN m.groups : GroupLike(d.groups[i], m.groups[i])
    /\ IsList(d.addons) /\ \A i \in DOMAIN d.addons : AddonOK(d.addons[i])

\* A list of jobs with other values; groups or addons with such jobs.
JobsLike(new, jobs) ==
    /\ new = [j \in DOMAIN jobs |-> new[j]]
    /\ \A j \in DOMAIN jobs : \E props :
          /\ new[j] = [jobs[j] EXCEPT !.props = props]
          /\ IsFiniteSet(DOMAIN props) /\ \A p \in DOMAIN props : IsValue(props[p])
AllLike(new, old) ==
    /\ new = [i \in DOMAIN old |-> new[i]]
    /\ \A i \in DOMAIN old : \E jobs : new[i] = [old[i] EXCEPT !.jobs = jobs] /\ JobsLike(jobs, old[i].jobs)

LEMMA SameShape ==
    ASSUME NEW m, ManifestOK(m) PROVE Shaped(m, m)
BY DEF ManifestOK, Shaped, GroupLike

LEMMA ListLike ==
    ASSUME NEW s, IsList(s), NEW t, t = [i \in DOMAIN s |-> t[i]]
    PROVE  IsList(t) /\ DOMAIN t = DOMAIN s
<1>1. Len(s) \in Nat /\ DOMAIN s = 1..Len(s)
    BY ListIs
<1>2. DOMAIN t = DOMAIN s
    BY Zenon
<1>3. t \in [1..Len(s) -> {t[i] : i \in DOMAIN s}]
    BY <1>1
<1> QED BY <1>1, <1>2, <1>3, ListOf

LEMMA JobsKept ==
    ASSUME NEW jobs, JobsOK(jobs), NEW new, JobsLike(new, jobs) PROVE JobsOK(new)
<1>1. IsList(new) /\ DOMAIN new = DOMAIN jobs
    BY ListLike, Zenon DEF JobsOK, JobsLike
<1>2. ASSUME NEW j \in DOMAIN jobs PROVE JobOK(new[j])
    <2>1. JobOK(jobs[j])
        BY DEF JobsOK
    <2>2. PICK props : /\ new[j] = [jobs[j] EXCEPT !.props = props]
                       /\ IsFiniteSet(DOMAIN props) /\ \A p \in DOMAIN props : IsValue(props[p])
        BY DEF JobsLike
    <2>3. DOMAIN new[j] = DOMAIN jobs[j] /\ new[j].preset = jobs[j].preset /\ new[j].props = props
        BY <2>1, <2>2 DEF JobOK
    <2> QED BY <2>1, <2>2, <2>3 DEF JobOK
<1> QED BY <1>1, <1>2 DEF JobsOK

LEMMA MappedShape ==
    ASSUME NEW m, NEW w, Shaped(w, m), NEW addons, AllLike(addons, w.addons), NEW groups, AllLike(groups, w.groups)
    PROVE  Shaped([w EXCEPT !.addons = addons, !.groups = groups], m)
<1> DEFINE n == [w EXCEPT !.addons = addons, !.groups = groups]
<1>1. DOMAIN n = DOMAIN w /\ n.addons = addons /\ n.groups = groups
    BY DEF Shaped
<1> HIDE DEF n
<1>2. DOMAIN groups = DOMAIN w.groups
    BY Zenon DEF AllLike
<1>3. IsList(addons) /\ DOMAIN addons = DOMAIN w.addons
    BY ListLike, Zenon DEF Shaped, AllLike
<1>4. ASSUME NEW i \in DOMAIN w.addons PROVE AddonOK(addons[i])
    <2>1. AddonOK(w.addons[i])
        BY DEF Shaped
    <2>2. PICK jobs : addons[i] = [w.addons[i] EXCEPT !.jobs = jobs] /\ JobsLike(jobs, w.addons[i].jobs)
        BY DEF AllLike
    <2>3. JobsOK(jobs)
        BY <2>1, <2>2, JobsKept DEF AddonOK
    <2> QED BY <2>1, <2>2, <2>3 DEF AddonOK
<1>5. ASSUME NEW i \in DOMAIN m.groups PROVE GroupLike(groups[i], m.groups[i])
    <2>1. GroupLike(w.groups[i], m.groups[i]) /\ i \in DOMAIN w.groups
        BY DEF Shaped
    <2>2. PICK jobs : groups[i] = [w.groups[i] EXCEPT !.jobs = jobs] /\ JobsLike(jobs, w.groups[i].jobs)
        BY <2>1 DEF AllLike
    <2>3. JobsOK(jobs)
        BY <2>1, <2>2, JobsKept DEF GroupLike, GroupOK
    <2> QED BY <2>1, <2>2, <2>3 DEF GroupLike, GroupOK
<1>6. Shaped(n, m)
    BY <1>1, <1>2, <1>3, <1>4, <1>5 DEF Shaped
<1> QED BY <1>6 DEF n

-----------------------------------------------------------------------------
(* Leaves.                                                                 *)

LEMMA LeafIs ==
    ASSUME NEW m, NEW l
    PROVE  l \in Leaves(m) <=>
              \/ \E i \in DOMAIN m.addons : \E j \in DOMAIN m.addons[i].jobs :
                    \E p \in DOMAIN m.addons[i].jobs[j].props : l = <<"addon", i, j, p>>
              \/ \E i \in DOMAIN m.groups : \E j \in DOMAIN m.groups[i].jobs :
                    \E p \in DOMAIN m.groups[i].jobs[j].props : l = <<"group", i, j, p>>
<1>1. \A kind, lists : l \in LeavesOf(kind, lists) <=>
         \E i \in DOMAIN lists : \E j \in DOMAIN lists[i].jobs :
            \E p \in DOMAIN lists[i].jobs[j].props : l = <<kind, i, j, p>>
    BY DEF LeavesOf
<1> QED BY <1>1 DEF Leaves

\* All values of a manifest are values.
LEMMA LeafValue ==
    ASSUME NEW m, NEW w, Shaped(w, m), NEW l \in Leaves(w) PROVE IsValue(At(w, l))
<1>1. CASE \E i \in DOMAIN w.addons : \E j \in DOMAIN w.addons[i].jobs :
              \E p \in DOMAIN w.addons[i].jobs[j].props : l = <<"addon", i, j, p>>
    <2>1. PICK i, j, p : /\ i \in DOMAIN w.addons /\ j \in DOMAIN w.addons[i].jobs
                            /\ p \in DOMAIN w.addons[i].jobs[j].props /\ l = <<"addon", i, j, p>>
        BY <1>1, Zenon
    <2>2. At(w, l) = w.addons[i].jobs[j].props[p]
        BY <2>1 DEF At
    <2>3. JobOK(w.addons[i].jobs[j])
        BY <2>1, Zenon DEF Shaped, AddonOK, JobsOK
    <2> QED BY <2>1, <2>2, <2>3, Zenon DEF JobOK
<1>2. CASE \E i \in DOMAIN w.groups : \E j \in DOMAIN w.groups[i].jobs :
              \E p \in DOMAIN w.groups[i].jobs[j].props : l = <<"group", i, j, p>>
    <2>1. PICK i, j, p : /\ i \in DOMAIN w.groups /\ j \in DOMAIN w.groups[i].jobs
                            /\ p \in DOMAIN w.groups[i].jobs[j].props /\ l = <<"group", i, j, p>>
        BY <1>2, Zenon
    <2>2. At(w, l) = w.groups[i].jobs[j].props[p]
        BY <2>1 DEF At
    <2>3. JobOK(w.groups[i].jobs[j])
        BY <2>1, Zenon DEF Shaped, GroupLike, GroupOK, JobsOK
    <2> QED BY <2>1, <2>2, <2>3, Zenon DEF JobOK
<1> QED BY <1>1, <1>2, LeafIs

\* Values that are set at the leaves keep the shape and the leaves.
LEMMA SetShape ==
    ASSUME NEW m, NEW w, Shaped(w, m), NEW values, \A l \in Leaves(w) : IsValue(values[l])
    PROVE  Shaped(SetLeaves(w, values), m)
<1> DEFINE jobs(kind, i, list) == [j \in DOMAIN list |->
              [list[j] EXCEPT !.props = [p \in DOMAIN list[j].props |-> values[<<kind, i, j, p>>]]]]
           all(kind, lists) == [i \in DOMAIN lists |-> [lists[i] EXCEPT !.jobs = jobs(kind, i, lists[i].jobs)]]
           addons == all("addon", w.addons)
           groups == all("group", w.groups)
<1>1. SetLeaves(w, values) = [w EXCEPT !.addons = addons, !.groups = groups]
    BY Zenon DEF SetLeaves
<1>2. ASSUME NEW kind, NEW i, NEW list,
             \A j \in DOMAIN list : /\ IsFiniteSet(DOMAIN list[j].props)
                                   /\ \A p \in DOMAIN list[j].props : IsValue(values[<<kind, i, j, p>>])
      PROVE  JobsLike(jobs(kind, i, list), list)
    <2>1. ASSUME NEW j \in DOMAIN list
          PROVE  \E props : /\ jobs(kind, i, list)[j] = [list[j] EXCEPT !.props = props]
                            /\ IsFiniteSet(DOMAIN props) /\ \A p \in DOMAIN props : IsValue(props[p])
        <3> DEFINE props == [p \in DOMAIN list[j].props |-> values[<<kind, i, j, p>>]]
        <3>1. jobs(kind, i, list)[j] = [list[j] EXCEPT !.props = props]
            BY Zenon
        <3>2. DOMAIN props = DOMAIN list[j].props
            BY Zenon
        <3>3. IsFiniteSet(DOMAIN props) /\ \A p \in DOMAIN props : IsValue(props[p])
            BY <1>2, <3>2, Zenon
        <3> QED BY <3>1, <3>3, Zenon
    <2>2. jobs(kind, i, list) = [j \in DOMAIN list |-> jobs(kind, i, list)[j]]
        BY Zenon
    <2> HIDE DEF jobs
    <2> QED BY <2>1, <2>2, Zenon DEF JobsLike
<1> HIDE DEF jobs
<1>3. ASSUME NEW kind, NEW lists, \A i \in DOMAIN lists : JobsLike(jobs(kind, i, lists[i].jobs), lists[i].jobs)
      PROVE  AllLike(all(kind, lists), lists)
    BY <1>3 DEF AllLike
<1> HIDE DEF all
<1>4. AllLike(addons, w.addons)
    <2>1. \A i \in DOMAIN w.addons : \A j \in DOMAIN w.addons[i].jobs :
             \A p \in DOMAIN w.addons[i].jobs[j].props : IsValue(values[<<"addon", i, j, p>>])
        BY LeafIs
    <2>2. \A i \in DOMAIN w.addons : \A j \in DOMAIN w.addons[i].jobs : IsFiniteSet(DOMAIN w.addons[i].jobs[j].props)
        BY Zenon DEF Shaped, AddonOK, JobsOK, JobOK
    <2> QED BY <1>2, <1>3, <2>1, <2>2, Zenon
<1>5. AllLike(groups, w.groups)
    <2>1. \A i \in DOMAIN w.groups : \A j \in DOMAIN w.groups[i].jobs :
             \A p \in DOMAIN w.groups[i].jobs[j].props : IsValue(values[<<"group", i, j, p>>])
        BY LeafIs
    <2>2. \A i \in DOMAIN w.groups : \A j \in DOMAIN w.groups[i].jobs : IsFiniteSet(DOMAIN w.groups[i].jobs[j].props)
        BY Zenon DEF Shaped, GroupLike, GroupOK, JobsOK, JobOK
    <2> QED BY <1>2, <1>3, <2>1, <2>2, Zenon
<1> HIDE DEF addons, groups
<1>6. Shaped([w EXCEPT !.addons = addons, !.groups = groups], m)
    BY <1>4, <1>5, MappedShape, Zenon
<1> QED BY <1>1, <1>6, Zenon

\* new has the values at the leaves of old.
ValuesSet(new, old, kind, values) ==
    /\ DOMAIN new = DOMAIN old
    /\ \A i \in DOMAIN old :
          /\ DOMAIN new[i].jobs = DOMAIN old[i].jobs
          /\ \A j \in DOMAIN old[i].jobs :
                /\ DOMAIN new[i].jobs[j].props = DOMAIN old[i].jobs[j].props
                /\ \A p \in DOMAIN old[i].jobs[j].props : new[i].jobs[j].props[p] = values[<<kind, i, j, p>>]

LEMMA SetParts ==
    ASSUME NEW m, NEW w, Shaped(w, m), NEW values
    PROVE  /\ ValuesSet(SetLeaves(w, values).addons, w.addons, "addon", values)
           /\ ValuesSet(SetLeaves(w, values).groups, w.groups, "group", values)
<1> DEFINE jobs(kind, i, list) == [j \in DOMAIN list |->
              [list[j] EXCEPT !.props = [p \in DOMAIN list[j].props |-> values[<<kind, i, j, p>>]]]]
           all(kind, lists) == [i \in DOMAIN lists |-> [lists[i] EXCEPT !.jobs = jobs(kind, i, lists[i].jobs)]]
           addons == all("addon", w.addons)
           groups == all("group", w.groups)
<1>1. SetLeaves(w, values) = [w EXCEPT !.addons = addons, !.groups = groups]
    BY Zenon DEF SetLeaves
<1>2. ASSUME NEW kind, NEW lists,
             \A i \in DOMAIN lists : "jobs" \in DOMAIN lists[i] /\
                \A j \in DOMAIN lists[i].jobs : "props" \in DOMAIN lists[i].jobs[j]
      PROVE  ValuesSet(all(kind, lists), lists, kind, values)
    <2>1. ASSUME NEW i \in DOMAIN lists PROVE all(kind, lists)[i].jobs = jobs(kind, i, lists[i].jobs)
        <3> HIDE DEF jobs
        <3> QED BY <1>2
    <2>2. ASSUME NEW i \in DOMAIN lists, NEW j \in DOMAIN lists[i].jobs
          PROVE  jobs(kind, i, lists[i].jobs)[j].props =
                    [p \in DOMAIN lists[i].jobs[j].props |-> values[<<kind, i, j, p>>]]
        <3> DEFINE job == lists[i].jobs[j]
                   props == [p \in DOMAIN job.props |-> values[<<kind, i, j, p>>]]
        <3>1. jobs(kind, i, lists[i].jobs)[j] = [job EXCEPT !.props = props]
            BY Zenon
        <3>2. "props" \in DOMAIN job
            BY <1>2, Zenon
        <3>3. [job EXCEPT !.props = props].props = props
            <4> HIDE DEF props, job
            <4> QED BY <3>2
        <3> QED BY <3>1, <3>3, Zenon
    <2>3. DOMAIN all(kind, lists) = DOMAIN lists
        BY Zenon
    <2>4. \A i \in DOMAIN lists : DOMAIN jobs(kind, i, lists[i].jobs) = DOMAIN lists[i].jobs
        BY Zenon
    <2> HIDE DEF all, jobs
    <2>5. ASSUME NEW i \in DOMAIN lists, NEW j \in DOMAIN lists[i].jobs
          PROVE  /\ DOMAIN all(kind, lists)[i].jobs[j].props = DOMAIN lists[i].jobs[j].props
                 /\ \A p \in DOMAIN lists[i].jobs[j].props :
                       all(kind, lists)[i].jobs[j].props[p] = values[<<kind, i, j, p>>]
        <3>1. all(kind, lists)[i].jobs[j].props = [p \in DOMAIN lists[i].jobs[j].props |-> values[<<kind, i, j, p>>]]
            BY <2>1, <2>2, Zenon
        <3> QED BY <3>1, Zenon
    <2> QED BY <2>1, <2>3, <2>4, <2>5, Zenon DEF ValuesSet
<1> HIDE DEF all
<1>3. ValuesSet(addons, w.addons, "addon", values)
    <2>1. \A i \in DOMAIN w.addons : "jobs" \in DOMAIN w.addons[i] /\
             \A j \in DOMAIN w.addons[i].jobs : "props" \in DOMAIN w.addons[i].jobs[j]
        BY DEF Shaped, AddonOK, JobsOK, JobOK
    <2> QED BY <1>2, <2>1, Zenon
<1>4. ValuesSet(groups, w.groups, "group", values)
    <2>1. \A i \in DOMAIN w.groups : "jobs" \in DOMAIN w.groups[i] /\
             \A j \in DOMAIN w.groups[i].jobs : "props" \in DOMAIN w.groups[i].jobs[j]
        BY DEF Shaped, GroupLike, GroupOK, JobsOK, JobOK
    <2> QED BY <1>2, <2>1, Zenon
<1> HIDE DEF addons, groups
<1>5. [w EXCEPT !.addons = addons, !.groups = groups].addons = addons
      /\ [w EXCEPT !.addons = addons, !.groups = groups].groups = groups
    BY DEF Shaped
<1> QED BY <1>1, <1>3, <1>4, <1>5, Zenon

LEMMA SetValues ==
    ASSUME NEW m, NEW w, Shaped(w, m), NEW values
    PROVE  /\ Leaves(SetLeaves(w, values)) = Leaves(w)
           /\ \A l \in Leaves(w) : At(SetLeaves(w, values), l) = values[l]
<1> DEFINE n == SetLeaves(w, values)
<1>1. ValuesSet(n.addons, w.addons, "addon", values) /\ ValuesSet(n.groups, w.groups, "group", values)
    BY SetParts, Zenon
<1> HIDE DEF n
<1>2. \A l : l \in Leaves(n) <=> l \in Leaves(w)
    <2>1. \A l : (\E i \in DOMAIN w.addons : \E j \in DOMAIN w.addons[i].jobs :
                     \E p \in DOMAIN w.addons[i].jobs[j].props : l = <<"addon", i, j, p>>)
             <=> (\E i \in DOMAIN n.addons : \E j \in DOMAIN n.addons[i].jobs :
                     \E p \in DOMAIN n.addons[i].jobs[j].props : l = <<"addon", i, j, p>>)
        BY <1>1, Zenon DEF ValuesSet
    <2>2. \A l : (\E i \in DOMAIN w.groups : \E j \in DOMAIN w.groups[i].jobs :
                     \E p \in DOMAIN w.groups[i].jobs[j].props : l = <<"group", i, j, p>>)
             <=> (\E i \in DOMAIN n.groups : \E j \in DOMAIN n.groups[i].jobs :
                     \E p \in DOMAIN n.groups[i].jobs[j].props : l = <<"group", i, j, p>>)
        BY <1>1, Zenon DEF ValuesSet
    <2> QED BY <2>1, <2>2, LeafIs
<1>3. ASSUME NEW l \in Leaves(w) PROVE At(n, l) = values[l]
    <2>1. CASE \E i \in DOMAIN w.addons : \E j \in DOMAIN w.addons[i].jobs :
                  \E p \in DOMAIN w.addons[i].jobs[j].props : l = <<"addon", i, j, p>>
        <3>1. PICK i, j, p : /\ i \in DOMAIN w.addons /\ j \in DOMAIN w.addons[i].jobs
                             /\ p \in DOMAIN w.addons[i].jobs[j].props /\ l = <<"addon", i, j, p>>
            BY <2>1, Zenon
        <3>2. At(n, l) = n.addons[i].jobs[j].props[p]
            BY <3>1 DEF At
        <3> QED BY <1>1, <3>1, <3>2, Zenon DEF ValuesSet
    <2>2. CASE \E i \in DOMAIN w.groups : \E j \in DOMAIN w.groups[i].jobs :
                  \E p \in DOMAIN w.groups[i].jobs[j].props : l = <<"group", i, j, p>>
        <3>1. PICK i, j, p : /\ i \in DOMAIN w.groups /\ j \in DOMAIN w.groups[i].jobs
                             /\ p \in DOMAIN w.groups[i].jobs[j].props /\ l = <<"group", i, j, p>>
            BY <2>2, Zenon
        <3>2. At(n, l) = n.groups[i].jobs[j].props[p]
            BY <3>1 DEF At
        <3> QED BY <1>1, <3>1, <3>2, Zenon DEF ValuesSet
    <2> QED BY <2>1, <2>2, LeafIs
<1>4. Leaves(n) = Leaves(w)
    BY <1>2
<1> QED BY <1>3, <1>4 DEF n

LEMMA ImageFinite ==
    ASSUME NEW S, IsFiniteSet(S), NEW f PROVE IsFiniteSet({f[x] : x \in S})
<1> DEFINE T == {f[x] : x \in S}
           g == [x \in S |-> f[x]]
<1>1. g \in Surjection(S, T)
    BY DEF Surjection
<1> HIDE DEF T, g
<1>2. IsFiniteSet(T)
    BY <1>1, FS_Surjection
<1> QED BY <1>2 DEF T

LEMMA UnionFinite ==
    ASSUME NEW S, IsFiniteSet(S), NEW f, \A x \in S : IsFiniteSet(f[x])
    PROVE  IsFiniteSet(UNION {f[x] : x \in S})
<1> DEFINE T == {f[x] : x \in S}
<1>1. IsFiniteSet(T)
    BY ImageFinite
<1>2. \A t \in T : IsFiniteSet(t)
    OBVIOUS
<1> HIDE DEF T
<1>3. IsFiniteSet(UNION T)
    BY <1>1, <1>2, FS_UNION
<1> QED BY <1>3 DEF T

LEMMA ListFinite ==
    ASSUME NEW s, IsList(s) PROVE IsFiniteSet(DOMAIN s)
<1>1. Len(s) \in Nat /\ DOMAIN s = 1..Len(s)
    BY ListIs
<1> QED BY <1>1, FS_Interval

\* A document has finitely many leaves.
LEMMA LeavesOfFinite ==
    ASSUME NEW kind, NEW lists, IsFiniteSet(DOMAIN lists), \A i \in DOMAIN lists : JobsOK(lists[i].jobs)
    PROVE  IsFiniteSet(LeavesOf(kind, lists))
<1> DEFINE leaves(i, j) == {<<kind, i, j, p>> : p \in DOMAIN lists[i].jobs[j].props}
           ofJobs(i) == UNION {leaves(i, j) : j \in DOMAIN lists[i].jobs}
<1>1. ASSUME NEW i \in DOMAIN lists, NEW j \in DOMAIN lists[i].jobs PROVE IsFiniteSet(leaves(i, j))
    <2> DEFINE D == DOMAIN lists[i].jobs[j].props
               f == [p \in D |-> <<kind, i, j, p>>]
    <2>1. IsFiniteSet(D)
        BY DEF JobsOK, JobOK
    <2>2. leaves(i, j) = {f[p] : p \in D}
        OBVIOUS
    <2> HIDE DEF f, D, leaves
    <2> QED BY <2>1, <2>2, ImageFinite
<1> HIDE DEF leaves
<1>2. ASSUME NEW i \in DOMAIN lists PROVE IsFiniteSet(ofJobs(i))
    <2> DEFINE D == DOMAIN lists[i].jobs
               f == [j \in D |-> leaves(i, j)]
    <2>1. IsFiniteSet(D)
        BY ListFinite DEF JobsOK
    <2>2. ofJobs(i) = UNION {f[j] : j \in D}
        OBVIOUS
    <2>3. \A j \in D : IsFiniteSet(f[j])
        BY <1>1
    <2> HIDE DEF f, D, ofJobs
    <2> QED BY <2>1, <2>2, <2>3, UnionFinite
<1>3. LeavesOf(kind, lists) = UNION {ofJobs(i) : i \in DOMAIN lists}
    BY DEF LeavesOf, leaves
<1> HIDE DEF ofJobs
<1> DEFINE f == [i \in DOMAIN lists |-> ofJobs(i)]
<1>4. LeavesOf(kind, lists) = UNION {f[i] : i \in DOMAIN lists}
    BY <1>3
<1>5. \A i \in DOMAIN lists : IsFiniteSet(f[i])
    BY <1>2
<1> HIDE DEF f
<1> QED BY <1>4, <1>5, UnionFinite

LEMMA LeavesFinite ==
    ASSUME NEW m, ManifestOK(m), NEW w, Shaped(w, m) PROVE IsFiniteSet(Leaves(w))
<1>1. IsFiniteSet(DOMAIN w.addons) /\ \A i \in DOMAIN w.addons : JobsOK(w.addons[i].jobs)
    BY ListFinite DEF Shaped, AddonOK
<1>2. IsFiniteSet(DOMAIN w.groups) /\ \A i \in DOMAIN w.groups : JobsOK(w.groups[i].jobs)
    BY ListFinite DEF ManifestOK, Shaped, GroupLike, GroupOK
<1>3. IsFiniteSet(LeavesOf("addon", w.addons)) /\ IsFiniteSet(LeavesOf("group", w.groups))
    BY <1>1, <1>2, LeavesOfFinite
<1> QED BY <1>3, FS_Union DEF Leaves

LEMMA ImplicitFinite ==
    ASSUME NEW m, ManifestOK(m) PROVE IsFiniteSet(ImplicitVariables(m))
<1> DEFINE f == [l \in Leaves(m) |-> At(m, l).var]
           S == {f[l] : l \in Leaves(m)}
<1>1. IsFiniteSet(Leaves(m))
    BY SameShape, LeavesFinite
<1>2. IsFiniteSet(S)
    <2> HIDE DEF f
    <2> QED BY <1>1, ImageFinite
<1>3. ImplicitVariables(m) \subseteq S
    BY DEF ImplicitVariables
<1> HIDE DEF S
<1> QED BY <1>2, <1>3, FS_Subset

-----------------------------------------------------------------------------
(* Writing and reading.                                                    *)

\* The order of a document has every leaf.
LEMMA OrderIs ==
    ASSUME NEW S, IsFiniteSet(S)
    PROVE  /\ Cardinality(S) \in Nat /\ DOMAIN SetToSeq(S) = 1..Cardinality(S)
           /\ \A i \in 1..Cardinality(S) : SetToSeq(S)[i] \in S
           /\ \A x \in S : \E i \in 1..Cardinality(S) : SetToSeq(S)[i] = x
<1> DEFINE n == Cardinality(S)
           o == SetToSeq(S)
<1>1. n \in Nat /\ ExistsBijection(1..n, S)
    BY FS_CardinalityType
<1>2. \E f \in [1..n -> S] : IsInjective(f)
    BY <1>1 DEF ExistsBijection, Bijection, Injection
<1>3. o \in [1..n -> S] /\ IsInjective(o)
    BY <1>2, Zenon DEF SetToSeq
<1> HIDE DEF n, o
<1>4. o \in Injection(1..n, S)
    BY <1>3 DEF Injection
<1>5. IsFiniteSet(1..n) /\ Cardinality(1..n) = n
    BY <1>1, FS_Interval
<1>6. o \in Surjection(1..n, S)
    BY <1>4, <1>5, FS_Injection DEF n
<1>7. \A x \in S : \E i \in 1..n : o[i] = x
    BY <1>6 DEF Surjection
<1>8. DOMAIN o = 1..n /\ \A i \in 1..n : o[i] \in S
    BY <1>3
<1> QED BY <1>1, <1>7, <1>8 DEF n, o

SameValues(d, w) == Leaves(d) = Leaves(w) /\ \A l \in Leaves(w) : At(d, l) = At(w, l)

\* The key of a leaf in the document.
KeyOf(leaf, renamed) == IF leaf \in renamed THEN renamedLeaf(leaf)[4] ELSE leaf[4]

KeysOf(kind, i, j, keys, renamed) == {KeyOf(<<kind, i, j, p>>, renamed) : p \in keys}

\* new has the keys of old, the renamed ones changed.
KeysSet(new, old, kind, renamed) ==
    /\ DOMAIN new = DOMAIN old
    /\ \A i \in DOMAIN old :
          /\ DOMAIN new[i].jobs = DOMAIN old[i].jobs
          /\ \A j \in DOMAIN old[i].jobs :
                DOMAIN new[i].jobs[j].props = KeysOf(kind, i, j, DOMAIN old[i].jobs[j].props, renamed)

\* What is written has the shape of the manifest, and its keys.
LEMMA WrittenParts ==
    ASSUME NEW m, NEW w, Shaped(w, m), NEW renamed
    PROVE  LET n == WrittenShape(w, renamed)
           IN /\ Shaped(n, m)
              /\ KeysSet(n.addons, w.addons, "addon", renamed) /\ KeysSet(n.groups, w.groups, "group", renamed)
              /\ loadDNS(w) => loadDNS(n)
<1> DEFINE new(kind, i, j, props) == [q \in {KeyOf(<<kind, i, j, p>>, renamed) : p \in DOMAIN props} |-> Text("")]
           jobs(kind, i, list) == [j \in DOMAIN list |->
              [list[j] EXCEPT !.props = new(kind, i, j, list[j].props)]]
           all(kind, lists) == [i \in DOMAIN lists |-> [lists[i] EXCEPT !.jobs = jobs(kind, i, lists[i].jobs)]]
           addons == all("addon", w.addons)
           groups == all("group", w.groups)
           n == WrittenShape(w, renamed)
<1>1. n = [w EXCEPT !.addons = addons, !.groups = groups]
    BY Zenon DEF WrittenShape, KeyOf
<1> HIDE DEF n
<1>2. ASSUME NEW kind, NEW i, NEW j, NEW props
      PROVE  /\ DOMAIN new(kind, i, j, props) = KeysOf(kind, i, j, DOMAIN props, renamed)
             /\ \A q \in DOMAIN new(kind, i, j, props) : IsValue(new(kind, i, j, props)[q])
             /\ IsFiniteSet(DOMAIN props) => IsFiniteSet(DOMAIN new(kind, i, j, props))
    <2> DEFINE ps == new(kind, i, j, props)
    <2>1. DOMAIN ps = {KeyOf(<<kind, i, j, p>>, renamed) : p \in DOMAIN props}
        BY Zenon
    <2>2. \A q \in DOMAIN ps : ps[q] = Text("")
        BY Zenon
    <2>3. IsValue(Text(""))
        BY DEF IsValue, Text
    <2> HIDE DEF ps
    <2>4. ASSUME IsFiniteSet(DOMAIN props) PROVE IsFiniteSet(DOMAIN ps)
        <3> DEFINE f == [p \in DOMAIN props |-> KeyOf(<<kind, i, j, p>>, renamed)]
        <3>1. IsFiniteSet({f[p] : p \in DOMAIN props})
            <4> HIDE DEF f
            <4> QED BY <2>4, ImageFinite
        <3>2. {f[p] : p \in DOMAIN props} = DOMAIN ps
            BY <2>1
        <3> QED BY <3>1, <3>2
    <2>5. DOMAIN ps = KeysOf(kind, i, j, DOMAIN props, renamed)
        BY <2>1, Zenon DEF KeysOf
    <2> QED BY <2>2, <2>3, <2>4, <2>5, Zenon DEF ps
<1> HIDE DEF new
<1>3. ASSUME NEW kind, NEW lists,
             \A i \in DOMAIN lists : "jobs" \in DOMAIN lists[i] /\
                \A j \in DOMAIN lists[i].jobs : /\ "props" \in DOMAIN lists[i].jobs[j]
                                                /\ IsFiniteSet(DOMAIN lists[i].jobs[j].props)
      PROVE  AllLike(all(kind, lists), lists) /\ KeysSet(all(kind, lists), lists, kind, renamed)
    <2>1. ASSUME NEW i \in DOMAIN lists
          PROVE  all(kind, lists)[i] = [lists[i] EXCEPT !.jobs = jobs(kind, i, lists[i].jobs)]
        BY Zenon
    <2>2. ASSUME NEW i \in DOMAIN lists PROVE all(kind, lists)[i].jobs = jobs(kind, i, lists[i].jobs)
        <3> HIDE DEF jobs
        <3> QED BY <1>3
    <2>3. ASSUME NEW i \in DOMAIN lists, NEW j \in DOMAIN lists[i].jobs
          PROVE  /\ jobs(kind, i, lists[i].jobs)[j]
                       = [lists[i].jobs[j] EXCEPT !.props = new(kind, i, j, lists[i].jobs[j].props)]
                 /\ jobs(kind, i, lists[i].jobs)[j].props = new(kind, i, j, lists[i].jobs[j].props)
        <3> DEFINE job == lists[i].jobs[j]
                   ps == new(kind, i, j, job.props)
        <3>1. jobs(kind, i, lists[i].jobs)[j] = [job EXCEPT !.props = ps]
            BY Zenon
        <3>2. "props" \in DOMAIN job
            BY <1>3, Zenon
        <3>3. [job EXCEPT !.props = ps].props = ps
            <4> HIDE DEF ps, job
            <4> QED BY <3>2
        <3> QED BY <3>1, <3>3, Zenon
    <2>4. all(kind, lists) = [i \in DOMAIN lists |-> all(kind, lists)[i]] /\ DOMAIN all(kind, lists) = DOMAIN lists
        BY Zenon
    <2>5. \A i : /\ jobs(kind, i, lists[i].jobs) = [j \in DOMAIN lists[i].jobs |-> jobs(kind, i, lists[i].jobs)[j]]
                 /\ DOMAIN jobs(kind, i, lists[i].jobs) = DOMAIN lists[i].jobs
        BY Zenon
    <2> HIDE DEF all, jobs
    <2>6. ASSUME NEW i \in DOMAIN lists PROVE JobsLike(jobs(kind, i, lists[i].jobs), lists[i].jobs)
        <3>1. ASSUME NEW j \in DOMAIN lists[i].jobs
              PROVE  \E props : /\ jobs(kind, i, lists[i].jobs)[j] = [lists[i].jobs[j] EXCEPT !.props = props]
                                /\ IsFiniteSet(DOMAIN props) /\ \A p \in DOMAIN props : IsValue(props[p])
            <4> DEFINE ps == new(kind, i, j, lists[i].jobs[j].props)
            <4>1. IsFiniteSet(DOMAIN lists[i].jobs[j].props)
                BY <1>3, Zenon
            <4>2. IsFiniteSet(DOMAIN ps) /\ \A p \in DOMAIN ps : IsValue(ps[p])
                BY <1>2, <4>1, Zenon
            <4> QED BY <2>3, <4>2, Zenon
        <3> QED BY <2>5, <3>1, Zenon DEF JobsLike
    <2>7. AllLike(all(kind, lists), lists)
        BY <2>1, <2>4, <2>6, Zenon DEF AllLike
    <2>8. ASSUME NEW i \in DOMAIN lists, NEW j \in DOMAIN lists[i].jobs
          PROVE  DOMAIN all(kind, lists)[i].jobs[j].props = KeysOf(kind, i, j, DOMAIN lists[i].jobs[j].props, renamed)
        <3>1. all(kind, lists)[i].jobs[j].props = new(kind, i, j, lists[i].jobs[j].props)
            BY <2>2, <2>3, Zenon
        <3> DEFINE props == lists[i].jobs[j].props
        <3>2. DOMAIN new(kind, i, j, props) = KeysOf(kind, i, j, DOMAIN props, renamed)
            <4> HIDE DEF props
            <4> QED BY <1>2, Zenon
        <3> QED BY <3>1, <3>2
    <2> QED BY <2>2, <2>4, <2>5, <2>7, <2>8, Zenon DEF KeysSet
<1>4. \A i \in DOMAIN w.addons : addons[i] = [w.addons[i] EXCEPT !.jobs = jobs("addon", i, w.addons[i].jobs)]
    BY Zenon
<1> HIDE DEF all
<1>5. AllLike(addons, w.addons) /\ KeysSet(addons, w.addons, "addon", renamed)
    <2>1. \A i \in DOMAIN w.addons : "jobs" \in DOMAIN w.addons[i] /\
             \A j \in DOMAIN w.addons[i].jobs : /\ "props" \in DOMAIN w.addons[i].jobs[j]
                                                /\ IsFiniteSet(DOMAIN w.addons[i].jobs[j].props)
        BY DEF Shaped, AddonOK, JobsOK, JobOK
    <2> QED BY <1>3, <2>1, Zenon
<1>6. AllLike(groups, w.groups) /\ KeysSet(groups, w.groups, "group", renamed)
    <2>1. \A i \in DOMAIN w.groups : "jobs" \in DOMAIN w.groups[i] /\
             \A j \in DOMAIN w.groups[i].jobs : /\ "props" \in DOMAIN w.groups[i].jobs[j]
                                                /\ IsFiniteSet(DOMAIN w.groups[i].jobs[j].props)
        BY DEF Shaped, GroupLike, GroupOK, JobsOK, JobOK
    <2> QED BY <1>3, <2>1, Zenon
<1> HIDE DEF addons, groups
<1>7. Shaped(n, m)
    BY <1>1, <1>5, <1>6, MappedShape, Zenon
<1>8. n.addons = addons /\ n.groups = groups
    BY <1>1 DEF Shaped
<1>9. ASSUME loadDNS(w) PROVE loadDNS(n)
    <2>1. ASSUME NEW i \in DOMAIN w.addons
          PROVE  addons[i].name = w.addons[i].name /\ addons[i].aliasesDecode = w.addons[i].aliasesDecode
        <3> DEFINE js == jobs("addon", i, w.addons[i].jobs)
        <3>1. {"name", "aliasesDecode", "jobs"} \subseteq DOMAIN w.addons[i]
            BY DEF Shaped, AddonOK
        <3>2. addons[i] = [w.addons[i] EXCEPT !.jobs = js]
            BY <1>4, Zenon
        <3> HIDE DEF js
        <3> QED BY <3>1, <3>2
    <2>2. DOMAIN addons = DOMAIN w.addons
        BY <1>5, Zenon DEF KeysSet
    <2>3. {i \in DOMAIN addons : addons[i].name = BoshDNSAddOnName}
            = {i \in DOMAIN w.addons : w.addons[i].name = BoshDNSAddOnName}
        BY <2>1, <2>2
    <2>4. ASSUME NEW a \in ByName(addons, BoshDNSAddOnName) PROVE a.aliasesDecode
        <3> DEFINE at == {i \in DOMAIN w.addons : w.addons[i].name = BoshDNSAddOnName}
        <3>1. PICK i \in {j \in at : \A k \in at : j <= k} : a = addons[i]
            BY <2>3, Zenon DEF ByName
        <3>2. i \in DOMAIN w.addons
            BY <3>1
        <3>3. w.addons[i] \in ByName(w.addons, BoshDNSAddOnName)
            BY <3>1, Zenon DEF ByName
        <3> QED BY <1>9, <2>1, <3>1, <3>2, <3>3, Zenon DEF loadDNS
    <2> QED BY <1>8, <2>4, Zenon DEF loadDNS
<1> QED BY <1>5, <1>6, <1>7, <1>8, <1>9, Zenon DEF n

\* Its leaves are those of the manifest, the renamed ones in their new place.
LEMMA WrittenLeaves ==
    ASSUME NEW m, NEW w, Shaped(w, m), NEW renamed
    PROVE  LET n == WrittenShape(w, renamed)
           IN /\ \A l \in Leaves(w) : l \notin renamed => l \in Leaves(n)
              /\ \A x \in Leaves(n) : \E l \in Leaves(w) : x = IF l \in renamed THEN renamedLeaf(l) ELSE l
<1> DEFINE n == WrittenShape(w, renamed)
<1>1. KeysSet(n.addons, w.addons, "addon", renamed) /\ KeysSet(n.groups, w.groups, "group", renamed)
    BY WrittenParts, Zenon
<1> HIDE DEF n
<1>2. ASSUME NEW kind, NEW i, NEW j, NEW p
      PROVE  <<kind, i, j, KeyOf(<<kind, i, j, p>>, renamed)>>
                = IF <<kind, i, j, p>> \in renamed THEN renamedLeaf(<<kind, i, j, p>>) ELSE <<kind, i, j, p>>
    BY DEF KeyOf, renamedLeaf
<1>3. ASSUME NEW l \in Leaves(w), l \notin renamed PROVE l \in Leaves(n)
    <2>1. CASE \E i \in DOMAIN w.addons : \E j \in DOMAIN w.addons[i].jobs :
                  \E p \in DOMAIN w.addons[i].jobs[j].props : l = <<"addon", i, j, p>>
        <3>1. PICK i, j, p : /\ i \in DOMAIN w.addons /\ j \in DOMAIN w.addons[i].jobs
                             /\ p \in DOMAIN w.addons[i].jobs[j].props /\ l = <<"addon", i, j, p>>
            BY <2>1, Zenon
        <3>2. KeyOf(l, renamed) = p
            BY <1>3, <3>1 DEF KeyOf
        <3>3. i \in DOMAIN n.addons /\ j \in DOMAIN n.addons[i].jobs
            BY <1>1, <3>1, Zenon DEF KeysSet
        <3> DEFINE keys == KeysOf("addon", i, j, DOMAIN w.addons[i].jobs[j].props, renamed)
        <3>4. p \in keys
            BY <3>1, <3>2 DEF KeysOf
        <3>5. DOMAIN n.addons[i].jobs[j].props = keys
            BY <1>1, <3>1, Zenon DEF KeysSet
        <3>6. p \in DOMAIN n.addons[i].jobs[j].props
            <4> HIDE DEF keys
            <4> QED BY <3>4, <3>5
        <3> QED BY <3>1, <3>3, <3>6, LeafIs
    <2>2. CASE \E i \in DOMAIN w.groups : \E j \in DOMAIN w.groups[i].jobs :
                  \E p \in DOMAIN w.groups[i].jobs[j].props : l = <<"group", i, j, p>>
        <3>1. PICK i, j, p : /\ i \in DOMAIN w.groups /\ j \in DOMAIN w.groups[i].jobs
                             /\ p \in DOMAIN w.groups[i].jobs[j].props /\ l = <<"group", i, j, p>>
            BY <2>2, Zenon
        <3>2. KeyOf(l, renamed) = p
            BY <1>3, <3>1 DEF KeyOf
        <3>3. i \in DOMAIN n.groups /\ j \in DOMAIN n.groups[i].jobs
            BY <1>1, <3>1, Zenon DEF KeysSet
        <3> DEFINE keys == KeysOf("group", i, j, DOMAIN w.groups[i].jobs[j].props, renamed)
        <3>4. p \in keys
            BY <3>1, <3>2 DEF KeysOf
        <3>5. DOMAIN n.groups[i].jobs[j].props = keys
            BY <1>1, <3>1, Zenon DEF KeysSet
        <3>6. p \in DOMAIN n.groups[i].jobs[j].props
            <4> HIDE DEF keys
            <4> QED BY <3>4, <3>5
        <3> QED BY <3>1, <3>3, <3>6, LeafIs
    <2> QED BY <2>1, <2>2, LeafIs
<1>4. ASSUME NEW x \in Leaves(n) PROVE \E l \in Leaves(w) : x = IF l \in renamed THEN renamedLeaf(l) ELSE l
    <2>1. CASE \E i \in DOMAIN n.addons : \E j \in DOMAIN n.addons[i].jobs :
                  \E p \in DOMAIN n.addons[i].jobs[j].props : x = <<"addon", i, j, p>>
        <3>1. PICK i, j, q : /\ i \in DOMAIN n.addons /\ j \in DOMAIN n.addons[i].jobs
                             /\ q \in DOMAIN n.addons[i].jobs[j].props /\ x = <<"addon", i, j, q>>
            BY <2>1, Zenon
        <3>2. i \in DOMAIN w.addons /\ j \in DOMAIN w.addons[i].jobs
            BY <1>1, <3>1, Zenon DEF KeysSet
        <3>3. q \in KeysOf("addon", i, j, DOMAIN w.addons[i].jobs[j].props, renamed)
            BY <1>1, <3>1, <3>2, Zenon DEF KeysSet
        <3>4. PICK p \in DOMAIN w.addons[i].jobs[j].props : q = KeyOf(<<"addon", i, j, p>>, renamed)
            BY <3>3 DEF KeysOf
        <3>5. <<"addon", i, j, p>> \in Leaves(w)
            BY <3>2, LeafIs
        <3> QED BY <1>2, <3>1, <3>4, <3>5, Zenon
    <2>2. CASE \E i \in DOMAIN n.groups : \E j \in DOMAIN n.groups[i].jobs :
                  \E p \in DOMAIN n.groups[i].jobs[j].props : x = <<"group", i, j, p>>
        <3>1. PICK i, j, q : /\ i \in DOMAIN n.groups /\ j \in DOMAIN n.groups[i].jobs
                             /\ q \in DOMAIN n.groups[i].jobs[j].props /\ x = <<"group", i, j, q>>
            BY <2>2, Zenon
        <3>2. i \in DOMAIN w.groups /\ j \in DOMAIN w.groups[i].jobs
            BY <1>1, <3>1, Zenon DEF KeysSet
        <3>3. q \in KeysOf("group", i, j, DOMAIN w.groups[i].jobs[j].props, renamed)
            BY <1>1, <3>1, <3>2, Zenon DEF KeysSet
        <3>4. PICK p \in DOMAIN w.groups[i].jobs[j].props : q = KeyOf(<<"group", i, j, p>>, renamed)
            BY <3>3 DEF KeysOf
        <3>5. <<"group", i, j, p>> \in Leaves(w)
            BY <3>2, LeafIs
        <3> QED BY <1>2, <3>1, <3>4, <3>5, Zenon
    <2> QED BY <2>1, <2>2, LeafIs
<1> QED BY <1>3, <1>4, Zenon DEF n

\* The mark of the line of a leaf; the leaves that keep their new key.
MarkOf(w, i) ==
    LET v(k) == At(w, DocumentOrder(w)[k])
    IN IF v(i).text \notin LongTexts THEN "plain"
       ELSE IF ~\A k \in 1..(i - 1) : v(k) # v(i) THEN "alias"
       ELSE IF Quoted(DocumentOrder(w)[i]) THEN "renamed" ELSE "anchor"
RenamedIn(w) == {DocumentOrder(w)[i] : i \in {k \in DOMAIN DocumentOrder(w) : MarkOf(w, k) = "renamed"}}

\* A long text under a quoted key, which may lose its place.
Lost(w, l) == Quoted(l) /\ At(w, l).text \in LongTexts

LineIs(line, w, i) ==
    LET leaf == DocumentOrder(w)[i]
    IN /\ line.mark = MarkOf(w, i)
       /\ line.leaf = IF MarkOf(w, i) = "renamed" THEN renamedLeaf(leaf) ELSE leaf
       /\ line.hash = IF MarkOf(w, i) = "plain" THEN "" ELSE At(w, leaf).text
       /\ line.value = IF MarkOf(w, i) = "alias" THEN Text("") ELSE At(w, leaf)

\* The lines of a document.
LEMMA LinesAre ==
    ASSUME NEW w, NEW n, DOMAIN DocumentOrder(w) = 1..n
    PROVE  /\ DOMAIN Marshal(w).lines = 1..n
           /\ Marshal(w).shape = WrittenShape(w, RenamedIn(w))
           /\ \A i \in 1..n : LineIs(Marshal(w).lines[i], w, i)
<1> DEFINE order == DocumentOrder(w)
           long(k) == At(w, order[k]).text \in LongTexts
           first(k) == \A x \in 1..(k - 1) : At(w, order[x]) # At(w, order[k])
           mark(k) == IF ~long(k) THEN "plain" ELSE IF first(k) THEN "renamed" ELSE "alias"
           marked == markDuplicateValues(w)
           kept(k) == replacedMark(marked[k]) = "renamed"
           lines == Marshal(w).lines
<1>1. marked = [k \in DOMAIN order |-> [leaf |-> order[k], value |-> At(w, order[k]), mark |-> mark(k)]]
    BY Zenon DEF markDuplicateValues
<1>2. /\ lines = [k \in DOMAIN marked |->
                   [leaf |-> IF kept(k) THEN renamedLeaf(marked[k].leaf) ELSE marked[k].leaf,
                    mark |-> replacedMark(marked[k]),
                    hash |-> IF marked[k].mark = "plain" THEN "" ELSE marked[k].value.text,
                    value |-> IF marked[k].mark = "alias" THEN Text("") ELSE marked[k].value]]
      /\ Marshal(w).shape = WrittenShape(w, {marked[k].leaf : k \in {x \in DOMAIN marked : kept(x)}})
    BY DEF Marshal
<1>3. \A k : MarkOf(w, k) = IF mark(k) = "renamed" /\ ~Quoted(order[k]) THEN "anchor" ELSE mark(k)
    BY DEF MarkOf
<1> HIDE DEF mark, marked, lines
<1>4. DOMAIN marked = 1..n
    BY <1>1
<1>5. ASSUME NEW k \in 1..n
      PROVE  marked[k].leaf = order[k] /\ marked[k].value = At(w, order[k]) /\ marked[k].mark = mark(k)
    BY <1>1
<1>6. ASSUME NEW k \in 1..n PROVE replacedMark(marked[k]) = MarkOf(w, k)
    BY <1>3, <1>5 DEF replacedMark
<1>7. \A k : (mark(k) = "plain" <=> MarkOf(w, k) = "plain") /\ (mark(k) = "alias" <=> MarkOf(w, k) = "alias")
    BY <1>3
<1>8. ASSUME NEW k \in 1..n PROVE LineIs(lines[k], w, k)
    <2> DEFINE leaf == IF kept(k) THEN renamedLeaf(marked[k].leaf) ELSE marked[k].leaf
               hash == IF marked[k].mark = "plain" THEN "" ELSE marked[k].value.text
               value == IF marked[k].mark = "alias" THEN Text("") ELSE marked[k].value
               new == replacedMark(marked[k])
    <2>1. lines[k] = [leaf |-> leaf, mark |-> new, hash |-> hash, value |-> value]
        BY <1>2, <1>4, Zenon
    <2>2. leaf = IF MarkOf(w, k) = "renamed" THEN renamedLeaf(order[k]) ELSE order[k]
        BY <1>5, <1>6, Zenon
    <2>3. hash = IF MarkOf(w, k) = "plain" THEN "" ELSE At(w, order[k]).text
        BY <1>5, <1>7, Zenon
    <2>4. value = IF MarkOf(w, k) = "alias" THEN Text("") ELSE At(w, order[k])
        BY <1>5, <1>7, Zenon
    <2>5. new = MarkOf(w, k)
        BY <1>6, Zenon
    <2> HIDE DEF leaf, hash, value, new
    <2>6. lines[k].leaf = leaf /\ lines[k].mark = new /\ lines[k].hash = hash /\ lines[k].value = value
        BY <2>1
    <2> QED BY <2>2, <2>3, <2>4, <2>5, <2>6, Zenon DEF LineIs
<1>9. {marked[k].leaf : k \in {x \in DOMAIN marked : kept(x)}} = RenamedIn(w)
    BY <1>4, <1>5, <1>6 DEF RenamedIn
<1>10. DOMAIN lines = 1..n
    BY <1>2, <1>4
<1> QED BY <1>2, <1>8, <1>9, <1>10, Zenon DEF lines

\* A long text says all of its value.
LEMMA LongIsText ==
    ASSUME NEW a, NEW b, IsValue(a), IsValue(b), a.text = b.text, a.text \in LongTexts PROVE a = b
<1>1. Ref(a.var, a.field).text = "" /\ Ref(b.var, b.field).text = ""
    BY DEF Ref
<1>2. a = Text(a.text) /\ b = Text(b.text)
    BY <1>1, LongTextsAssumption DEF IsValue
<1> QED BY <1>2, Zenon

\* All anchors of an alias have its value, and it has one if nothing is lost.
LEMMA AliasResolved ==
    ASSUME NEW m, NEW w, Shaped(w, m), NEW n \in Nat, DOMAIN DocumentOrder(w) = 1..n,
           \A i \in 1..n : DocumentOrder(w)[i] \in Leaves(w),
           NEW i \in 1..n, Marshal(w).lines[i].mark = "alias"
    PROVE  LET lines == Marshal(w).lines
           IN /\ \A k \in anchorsOf(lines, i) : lines[k].value = At(w, DocumentOrder(w)[i])
              /\ (\A l \in Leaves(w) : ~Lost(w, l)) => anchorsOf(lines, i) # {}
<1> DEFINE lines == Marshal(w).lines
           order == DocumentOrder(w)
           val(k) == At(w, order[k])
<1>1. ASSUME NEW k \in 1..n
      PROVE  /\ lines[k].mark = MarkOf(w, k)
             /\ lines[k].hash = IF lines[k].mark = "plain" THEN "" ELSE val(k).text
             /\ lines[k].value = IF lines[k].mark = "alias" THEN Text("") ELSE val(k)
             /\ IsValue(val(k))
    <2>1. LineIs(lines[k], w, k) /\ IsValue(val(k))
        BY LinesAre, LeafValue, Zenon
    <2> QED BY <2>1, Zenon DEF LineIs
<1>2. \A k : MarkOf(w, k) = IF val(k).text \notin LongTexts THEN "plain"
                            ELSE IF ~\A x \in 1..(k - 1) : val(x) # val(k) THEN "alias"
                            ELSE IF Quoted(order[k]) THEN "renamed" ELSE "anchor"
    BY Zenon DEF MarkOf
<1>3. lines[i].mark = "alias"
    BY Zenon
<1>4. \A k \in 1..n : order[k] \in Leaves(w)
    BY Zenon
<1>5. \A k \in 1..n : Lost(w, order[k]) <=> Quoted(order[k]) /\ val(k).text \in LongTexts
    BY Zenon DEF Lost
<1> HIDE DEF lines, val, order
<1>6. val(i).text \in LongTexts /\ lines[i].hash = val(i).text /\ \E x \in 1..(i - 1) : val(x) = val(i)
    BY <1>1, <1>2, <1>3
<1>7. ASSUME NEW x \in anchorsOf(lines, i) PROVE lines[x].value = val(i)
    <2>1. x \in 1..n /\ lines[x].mark = "anchor" /\ lines[x].hash = lines[i].hash
        BY DEF anchorsOf
    <2>2. lines[x].value = val(x) /\ val(x).text = val(i).text
        BY <1>1, <1>6, <2>1
    <2>3. IsValue(val(x)) /\ IsValue(val(i))
        BY <1>1, <2>1
    <2>4. val(x) = val(i)
        BY <1>6, <2>2, <2>3, LongIsText
    <2> QED BY <2>2, <2>4
<1>8. ASSUME \A l \in Leaves(w) : ~Lost(w, l) PROVE anchorsOf(lines, i) # {}
    <2> DEFINE T == {x \in 1..(i - 1) : val(x) = val(i)}
    <2>1. T \subseteq Nat /\ T # {}
        BY <1>6
    <2>2. PICK k \in T : \A y \in T : ~(y < k)
        <3> HIDE DEF T
        <3> QED BY <2>1, Merging!Smallest, Zenon
    <2>3. k \in 1..(i - 1) /\ k \in 1..n /\ val(k) = val(i)
        BY <2>2
    <2>4. \A x \in 1..(k - 1) : val(x) # val(k)
        BY <2>2, <2>3
    <2>5. ~Quoted(order[k])
        BY <1>4, <1>5, <1>6, <1>8, <2>3
    <2>6. MarkOf(w, k) = "anchor"
        BY <1>2, <1>6, <2>3, <2>4, <2>5
    <2>7. lines[k].mark = "anchor" /\ lines[k].hash = lines[i].hash
        BY <1>1, <1>6, <2>3, <2>6
    <2> QED BY <2>3, <2>7 DEF anchorsOf
<1> QED BY <1>7, <1>8, Zenon DEF lines, val, order

\* What is read has the shape of what was written, and every value in its place
\* that is not a long text under a quoted key.
LEMMA ReadKept ==
    ASSUME NEW m, ManifestOK(m), NEW w, Shaped(w, m), NEW d \in LoadYAML(Marshal(w))
    PROVE  /\ Shaped(d, m)
           /\ \A l \in Leaves(w) : ~Lost(w, l) => l \in Leaves(d) /\ At(d, l) = At(w, l)
           /\ (\A l \in Leaves(w) : ~Lost(w, l)) => Leaves(d) = Leaves(w)
<1> DEFINE n == Cardinality(Leaves(w))
           order == DocumentOrder(w)
           doc == Marshal(w)
           lines == doc.lines
           valueOf(i) == IF lines[i].mark # "alias" THEN lines[i].value
                         ELSE lines[CHOOSE k \in anchorsOf(lines, i) : TRUE].value
           linesOf(l) == {i \in DOMAIN lines : lines[i].leaf = l}
           lineOf(l) == CHOOSE i \in linesOf(l) :
                           lines[i].mark # "renamed" \/ \A k \in linesOf(l) : lines[k].mark = "renamed"
           values == [l \in Leaves(doc.shape) |-> valueOf(lineOf(l))]
           R == RenamedIn(w)
<1>1. d = SetLeaves(doc.shape, values) /\ \A i \in DOMAIN lines : lines[i].mark = "alias" => anchorsOf(lines, i) # {}
    BY Zenon DEF LoadYAML
<1>2. /\ n \in Nat /\ DOMAIN order = 1..n /\ \A i \in 1..n : order[i] \in Leaves(w)
      /\ \A x \in Leaves(w) : \E i \in 1..n : order[i] = x
    BY LeavesFinite, OrderIs, Zenon DEF DocumentOrder
<1> HIDE DEF n
<1>3. /\ DOMAIN lines = 1..n /\ doc.shape = WrittenShape(w, R)
      /\ \A i \in 1..n : /\ lines[i].leaf = IF lines[i].mark = "renamed" THEN renamedLeaf(order[i]) ELSE order[i]
                         /\ lines[i].mark = MarkOf(w, i)
                         /\ lines[i].value = IF lines[i].mark = "alias" THEN Text("") ELSE At(w, order[i])
    <2>1. /\ DOMAIN lines = 1..n /\ doc.shape = WrittenShape(w, R)
          /\ \A i \in 1..n : LineIs(lines[i], w, i)
        BY <1>2, LinesAre, Zenon
    <2> QED BY <2>1, Zenon DEF LineIs
<1>4. /\ Shaped(doc.shape, m)
      /\ \A l \in Leaves(w) : l \notin R => l \in Leaves(doc.shape)
      /\ \A x \in Leaves(doc.shape) : \E l \in Leaves(w) : x = IF l \in R THEN renamedLeaf(l) ELSE l
    <2>1. Shaped(WrittenShape(w, R), m)
        BY WrittenParts, Zenon
    <2>2. /\ \A l \in Leaves(w) : l \notin R => l \in Leaves(WrittenShape(w, R))
          /\ \A x \in Leaves(WrittenShape(w, R)) : \E l \in Leaves(w) : x = IF l \in R THEN renamedLeaf(l) ELSE l
        <3> HIDE DEF R
        <3> QED BY WrittenLeaves, Zenon
    <2> HIDE DEF R, doc
    <2> QED BY <1>3, <2>1, <2>2, Zenon
<1>5. ASSUME NEW i \in 1..n PROVE valueOf(i) = At(w, order[i]) /\ IsValue(At(w, order[i]))
    <2>1. IsValue(At(w, order[i]))
        BY <1>2, LeafValue, Zenon
    <2>2. CASE lines[i].mark = "alias"
        <3>1. (CHOOSE k \in anchorsOf(lines, i) : TRUE) \in anchorsOf(lines, i)
            BY <1>1, <1>3, <2>2, Zenon
        <3>2. \A k \in anchorsOf(lines, i) : lines[k].value = At(w, order[i])
            BY <1>2, <2>2, AliasResolved, Zenon
        <3> QED BY <2>1, <2>2, <3>1, <3>2, Zenon
    <2> QED BY <1>3, <2>1, <2>2, Zenon
<1>6. \A i \in 1..n : lines[i].mark = "renamed" => order[i] \in R /\ Lost(w, order[i])
    <2>1. \A i \in 1..n : MarkOf(w, i) = "renamed" => Quoted(order[i]) /\ At(w, order[i]).text \in LongTexts
        BY DEF MarkOf
    <2>2. \A i \in 1..n : MarkOf(w, i) = "renamed" => order[i] \in R
        BY <1>2, Zenon DEF RenamedIn
    <2> QED BY <1>3, <2>1, <2>2, Zenon DEF Lost
<1>7. \A l \in R : \E i \in 1..n : order[i] = l /\ lines[i].mark = "renamed"
    <2>1. ASSUME NEW l \in R PROVE \E i \in DOMAIN order : order[i] = l /\ MarkOf(w, i) = "renamed"
        BY DEF RenamedIn
    <2>2. DOMAIN order = 1..n /\ \A i \in 1..n : lines[i].mark = MarkOf(w, i)
        BY <1>2, <1>3, Zenon
    <2> HIDE DEF order, lines, doc, R
    <2> QED BY <2>1, <2>2
<1> HIDE DEF R, doc, order, lines, valueOf
<1>8. ASSUME NEW x \in Leaves(doc.shape) PROVE linesOf(x) # {}
    <2>1. PICK l \in Leaves(w) : x = IF l \in R THEN renamedLeaf(l) ELSE l
        BY <1>4, Zenon
    <2>2. CASE l \in R
        <3>1. PICK i \in 1..n : order[i] = l /\ lines[i].mark = "renamed"
            BY <1>7, <2>2, Zenon
        <3>2. lines[i].leaf = x
            BY <1>3, <2>1, <2>2, <3>1, Zenon
        <3> QED BY <1>3, <3>1, <3>2
    <2>3. CASE l \notin R
        <3>1. PICK i \in 1..n : order[i] = l
            BY <1>2, Zenon
        <3> QED BY <1>3, <1>6, <2>1, <2>3, <3>1, Zenon
    <2> QED BY <2>2, <2>3
<1>9. ASSUME NEW x, linesOf(x) # {}
      PROVE  /\ lineOf(x) \in linesOf(x)
             /\ lines[lineOf(x)].mark # "renamed" \/ \A k \in linesOf(x) : lines[k].mark = "renamed"
    <2> HIDE DEF linesOf
    <2>1. \E i \in linesOf(x) : lines[i].mark # "renamed" \/ \A k \in linesOf(x) : lines[k].mark = "renamed"
        BY <1>9, Zenon
    <2> QED BY <2>1, Zenon
<1>10. ASSUME NEW x \in Leaves(doc.shape) PROVE lineOf(x) \in 1..n /\ values[x] = At(w, order[lineOf(x)])
    <2>1. lineOf(x) \in linesOf(x)
        BY <1>8, <1>9, Zenon
    <2>2. lineOf(x) \in 1..n
        <3> HIDE DEF lineOf
        <3> QED BY <1>3, <2>1, Zenon
    <2> HIDE DEF lineOf, linesOf
    <2> QED BY <1>5, <2>2, Zenon
<1>11. \A x \in Leaves(doc.shape) : IsValue(values[x])
    <2> HIDE DEF values, lineOf
    <2> QED BY <1>5, <1>10, Zenon
<1>12. ASSUME NEW l \in Leaves(w), ~Lost(w, l) PROVE l \in Leaves(doc.shape) /\ values[l] = At(w, l)
    <2>1. l \notin R
        BY <1>6, <1>7, <1>12, Zenon
    <2>2. l \in Leaves(doc.shape)
        BY <1>4, <2>1, Zenon
    <2>3. PICK i \in 1..n : order[i] = l
        BY <1>2, Zenon
    <2>4. lines[i].mark # "renamed" /\ i \in linesOf(l)
        BY <1>3, <1>6, <2>1, <2>3, Zenon
    <2>5. lineOf(l) \in linesOf(l) /\ lines[lineOf(l)].mark # "renamed"
        BY <1>9, <2>4, Zenon
    <2>6. order[lineOf(l)] = l
        <3> HIDE DEF lineOf
        <3> QED BY <1>3, <2>5, Zenon
    <2> HIDE DEF values, lineOf
    <2> QED BY <1>10, <2>2, <2>6, Zenon
<1>13. ASSUME \A l \in Leaves(w) : ~Lost(w, l) PROVE Leaves(doc.shape) = Leaves(w)
    <2>1. \A l \in Leaves(w) : l \notin R
        BY <1>6, <1>7, <1>13, Zenon
    <2> QED BY <1>4, <2>1
<1> HIDE DEF values
<1>14. Shaped(d, m) /\ Leaves(d) = Leaves(doc.shape) /\ \A x \in Leaves(doc.shape) : At(d, x) = values[x]
    BY <1>1, <1>4, <1>11, SetShape, SetValues, Zenon
<1> QED BY <1>12, <1>13, <1>14, Zenon

\* What is written is read again, in the shape and with the values it had, if no
\* long text is under a key that YAML quotes (and the aliases of the BOSH DNS addon
\* can be read): anchors and aliases change nothing, and no alias is without its
\* anchor.
THEOREM WrittenIsRead ==
    ASSUME NEW m, ManifestOK(m), NEW w, Shaped(w, m), loadDNS(w), \A l \in Leaves(w) : ~Lost(w, l)
    PROVE  \E d : LoadYAML(Marshal(w)) = {d} /\ Shaped(d, m) /\ SameValues(d, w)
<1> DEFINE n == Cardinality(Leaves(w))
           doc == Marshal(w)
           lines == doc.lines
<1>1. n \in Nat /\ DOMAIN DocumentOrder(w) = 1..n /\ \A i \in 1..n : DocumentOrder(w)[i] \in Leaves(w)
    BY LeavesFinite, OrderIs, Zenon DEF DocumentOrder
<1> HIDE DEF n
<1>2. DOMAIN lines = 1..n /\ doc.shape = WrittenShape(w, RenamedIn(w))
    BY <1>1, LinesAre, Zenon
<1>3. loadDNS(doc.shape)
    BY <1>2, WrittenParts, Zenon
<1>4. \A i \in DOMAIN lines : lines[i].mark = "alias" => anchorsOf(lines, i) # {}
    BY <1>1, <1>2, AliasResolved, Zenon
<1>5. \E d : LoadYAML(doc) = {d}
    BY <1>3, <1>4, Zenon DEF LoadYAML
<1>6. PICK d : LoadYAML(doc) = {d}
    BY <1>5, Zenon
<1>7. d \in LoadYAML(doc)
    BY <1>6
<1>8. Shaped(d, m) /\ SameValues(d, w)
    BY <1>7, ReadKept, Zenon DEF SameValues
<1> QED BY <1>6, <1>8, Zenon

-----------------------------------------------------------------------------
(* Variables.                                                              *)

\* r is w with one variable replaced.
OneReplaced(r, w, m, v, value) ==
    /\ Shaped(r, m) /\ Leaves(r) = Leaves(w)
    /\ \A l \in Leaves(w) : At(r, l) = IF At(w, l).var = v /\ At(w, l).field = "" THEN value ELSE At(w, l)

LEMMA ReplacedOne ==
    ASSUME NEW m, NEW w, Shaped(w, m), NEW v, NEW value, IsValue(value)
    PROVE  OneReplaced(replaceVar(w, v, value), w, m, v, value)
<1> DEFINE new(old) == IF old.var = v /\ old.field = "" THEN value ELSE old
           values == [l \in Leaves(w) |-> new(At(w, l))]
<1>1. replaceVar(w, v, value) = SetLeaves(w, values)
    BY Zenon DEF replaceVar
<1>2. \A l \in Leaves(w) : values[l] = IF At(w, l).var = v /\ At(w, l).field = "" THEN value ELSE At(w, l)
    BY Zenon
<1> HIDE DEF values
<1>3. \A l \in Leaves(w) : IsValue(values[l])
    BY <1>2, LeafValue
<1>4. Shaped(SetLeaves(w, values), m)
    BY <1>3, SetShape, Zenon
<1>5. Leaves(SetLeaves(w, values)) = Leaves(w) /\ \A l \in Leaves(w) : At(SetLeaves(w, values), l) = values[l]
    BY SetValues, Zenon
<1> QED BY <1>1, <1>2, <1>4, <1>5, Zenon DEF OneReplaced

\* No Secret of an implicit variable names an implicit variable.
Direct(m) ==
    \A v \in ImplicitVariables(m) \cap DOMAIN Secrets :
        ~(Secrets[v].var \in ImplicitVariables(m) /\ Secrets[v].field = "")

\* The value once the implicit variables in Vs are replaced.
Replaced(value, Vs) == IF value.var \in Vs /\ value.field = "" THEN Secrets[value.var] ELSE value

replaceSecret(w, v) == replaceVar(w, v, Secrets[v])
Anything(x, c) == TRUE
Replacing == INSTANCE FoldProofs WITH Op <- replaceSecret, Good <- Anything

\* The implicit variables are replaced in any order, with the same result.
LEMMA AllReplaced ==
    ASSUME NEW m, ManifestOK(m), ImplicitVariables(m) \subseteq DOMAIN Secrets,
           NEW order \in SetToSeqs(ImplicitVariables(m))
    PROVE  LET r == replaceVars(m, Secrets, order)
           IN /\ Shaped(r, m) /\ Leaves(r) = Leaves(m)
              /\ Direct(m) => \A l \in Leaves(m) : At(r, l) = Replaced(At(m, l), ImplicitVariables(m))
<1> DEFINE Vs == ImplicitVariables(m)
           n == Cardinality(Vs)
<1>1. IsFiniteSet(Vs) /\ n \in Nat
    BY ImplicitFinite, FS_CardinalityType
<1>2. order \in [1..n -> Vs] /\ \A i, j \in 1..n : i # j => order[i] # order[j]
    BY Zenon DEF SetToSeqs
<1>3. \A v \in Vs : \E i \in 1..n : order[i] = v
    <2>1. order \in Injection(1..n, Vs)
        BY <1>2 DEF Injection, IsInjective
    <2>2. IsFiniteSet(1..n) /\ Cardinality(1..n) = n
        BY <1>1, FS_Interval
    <2>3. order \in Surjection(1..n, Vs)
        BY <1>1, <2>1, <2>2, FS_Injection
    <2> QED BY <2>3 DEF Surjection
<1>4. \A v \in Vs : IsValue(Secrets[v])
    BY RenderingAssumption
<1>5. Replacing!Fold(m, order) = replaceVars(m, Secrets, order)
    BY Zenon DEF replaceVars, replaceSecret, FoldLeft, MapThenFoldSet, Max,
        Replacing!Fold, Replacing!FoldLeft, Replacing!MapThenFoldSet, Replacing!Max
<1> HIDE DEF n
<1>a. DOMAIN order = 1..n
    BY <1>2
<1>b. PICK r : Replacing!Steps(r, m, order, n)
    BY <1>1, <1>a, Replacing!FoldSteps, Zenon
<1>6. /\ r[0] = m /\ r[n] = Replacing!Fold(m, order)
      /\ \A k \in Nat : k + 1 <= n => r[k + 1] = replaceSecret(r[k], order[k + 1])
    BY <1>b, Zenon DEF Replacing!Steps
<1> DEFINE done(k) == {order[i] : i \in 1..k}
           G == {k \in Nat : k <= n =>
                   /\ Shaped(r[k], m) /\ Leaves(r[k]) = Leaves(m)
                   /\ Direct(m) => \A l \in Leaves(m) : At(r[k], l) = Replaced(At(m, l), done(k))}
<1>7. 0 \in G
    <2>1. Shaped(m, m)
        BY SameShape
    <2>2. \A v : v \notin done(0)
        OBVIOUS
    <2> HIDE DEF done
    <2>3. \A l : At(m, l) = Replaced(At(m, l), done(0))
        BY <2>2, Zenon DEF Replaced
    <2> QED BY <1>6, <2>1, <2>3, Zenon
<1>8. ASSUME NEW k \in Nat, k \in G PROVE k + 1 \in G
    <2> SUFFICES ASSUME k + 1 <= n
                 PROVE  /\ Shaped(r[k + 1], m) /\ Leaves(r[k + 1]) = Leaves(m)
                        /\ Direct(m) => \A l \in Leaves(m) : At(r[k + 1], l) = Replaced(At(m, l), done(k + 1))
        OBVIOUS
    <2> DEFINE v == order[k + 1]
    <2>1. k <= n /\ k + 1 \in 1..n
        BY <1>1
    <2>2. v \in Vs /\ \A i \in 1..k : order[i] \in Vs
        <3>1. \A i \in 1..k : i \in 1..n
            BY <1>1, <2>1
        <3> QED BY <1>2, <2>1, <3>1, Zenon
    <2>3. done(k) \subseteq Vs /\ done(k + 1) = done(k) \cup {v}
        <3>1. \A i \in 1..(k + 1) : i \in 1..k \/ i = k + 1
            OBVIOUS
        <3>2. \A i \in 1..k : i \in 1..(k + 1)
            OBVIOUS
        <3>3. k + 1 \in 1..(k + 1)
            OBVIOUS
        <3> QED BY <2>2, <3>1, <3>2, <3>3
    <2>4. r[k + 1] = replaceVar(r[k], v, Secrets[v])
        BY <1>6, <2>1, Zenon DEF replaceSecret
    <2> HIDE DEF v, done
    <2>5. /\ Shaped(r[k], m) /\ Leaves(r[k]) = Leaves(m)
          /\ Direct(m) => \A l \in Leaves(m) : At(r[k], l) = Replaced(At(m, l), done(k))
        BY <1>8, <2>1, Zenon
    <2>6. /\ Shaped(r[k + 1], m) /\ Leaves(r[k + 1]) = Leaves(r[k])
          /\ \A l \in Leaves(r[k]) : At(r[k + 1], l) = IF At(r[k], l).var = v /\ At(r[k], l).field = ""
                                                      THEN Secrets[v] ELSE At(r[k], l)
        <3>1. IsValue(Secrets[v])
            BY <1>4, <2>2, Zenon
        <3>2. OneReplaced(r[k + 1], r[k], m, v, Secrets[v])
            BY <2>4, <2>5, <3>1, ReplacedOne, Zenon
        <3> QED BY <3>2, Zenon DEF OneReplaced
    <2>7. ASSUME Direct(m), NEW l \in Leaves(m) PROVE At(r[k + 1], l) = Replaced(At(m, l), done(k + 1))
        <3> DEFINE a == At(m, l)
                   b == At(r[k], l)
        <3>1. b = Replaced(a, done(k)) /\ At(r[k + 1], l) = IF b.var = v /\ b.field = "" THEN Secrets[v] ELSE b
            BY <2>5, <2>6, <2>7, Zenon
        <3> HIDE DEF a, b
        <3>2. CASE a.var \in done(k) /\ a.field = ""
            <4>1. b = Secrets[a.var] /\ a.var \in Vs /\ a.var \in DOMAIN Secrets
                BY <2>3, <3>1, <3>2 DEF Replaced
            <4>2. ~(b.var = v /\ b.field = "")
                BY <2>2, <2>7, <4>1 DEF Direct
            <4> QED BY <2>3, <3>1, <3>2, <4>1, <4>2 DEF Replaced, a
        <3>3. CASE ~(a.var \in done(k) /\ a.field = "")
            <4>1. b = a
                BY <3>1, <3>3 DEF Replaced
            <4> QED BY <2>3, <3>1, <3>3, <4>1 DEF Replaced, a
        <3> QED BY <3>2, <3>3
    <2> QED BY <2>5, <2>6, <2>7, Zenon
<1>9. done(n) = Vs
    BY <1>2, <1>3
<1> HIDE DEF G, done
<1>10. n \in G
    BY <1>1, <1>7, <1>8, Merging!Induct, Zenon
<1>11. n <= n
    BY <1>1
<1> QED BY <1>5, <1>6, <1>9, <1>10, <1>11, Zenon DEF G

-----------------------------------------------------------------------------
(* Addons.                                                                 *)

LEMMA JobsJoined ==
    ASSUME NEW jobs, JobsOK(jobs), NEW added, JobsOK(added) PROVE JobsOK(jobs \o added)
<1> DEFINE all == jobs \o added
<1>1. IsList(jobs) /\ IsList(added)
    BY DEF JobsOK
<1>2. IsList(all) /\ ToSet(all) \subseteq ToSet(jobs) \cup ToSet(added)
    BY <1>1, ListJoin
<1> HIDE DEF all
<1>3. JobsOK(all)
    BY <1>2 DEF JobsOK, ToSet
<1> QED BY <1>3 DEF all

\* The values of w are in r.
Kept(r, w) == \A l \in Leaves(w) : l \in Leaves(r) /\ At(r, l) = At(w, l)

\* An addon appends jobs.
LEMMA AddonShape ==
    ASSUME NEW m, NEW w, Shaped(w, m), NEW addon, AddonOK(addon), NEW r \in applyAddon(w, addon)
    PROVE  Shaped(r, m) /\ Kept(r, w)
<1> DEFINE added == [k \in DOMAIN addon.jobs |-> [addon.jobs[k] EXCEPT !.addon = TRUE]]
           placed == [i \in DOMAIN w.groups |-> addonPlaced(w, addon, w.groups[i])]
           groups == [i \in DOMAIN w.groups |->
                        IF TRUE \in placed[i] THEN [w.groups[i] EXCEPT !.jobs = w.groups[i].jobs \o added]
                        ELSE w.groups[i]]
<1>1. r = w \/ r = [w EXCEPT !.groups = groups]
    BY Zenon DEF applyAddon
<1> HIDE DEF placed
<1>2. JobsOK(added)
    <2>1. JobsOK(addon.jobs)
        BY DEF AddonOK
    <2>2. added = [k \in DOMAIN addon.jobs |-> added[k]]
        OBVIOUS
    <2>3. IsList(added) /\ DOMAIN added = DOMAIN addon.jobs
        <3> HIDE DEF added
        <3> QED BY <2>1, <2>2, ListLike, Zenon DEF JobsOK
    <2>4. \A k \in DOMAIN addon.jobs : JobOK(added[k])
        BY <2>1 DEF JobsOK, JobOK
    <2> QED BY <2>3, <2>4 DEF JobsOK
<1> HIDE DEF added
<1>3. \A jobs : JobsOK(jobs) => JobsOK(jobs \o added)
    BY <1>2, JobsJoined
<1>4. ASSUME NEW i \in DOMAIN m.groups PROVE GroupLike(groups[i], m.groups[i])
    <2>1. GroupLike(w.groups[i], m.groups[i]) /\ i \in DOMAIN w.groups
        BY DEF Shaped
    <2> DEFINE jobs == w.groups[i].jobs \o added
    <2>2. JobsOK(jobs)
        BY <1>3, <2>1 DEF GroupLike, GroupOK
    <2>3. groups[i] = w.groups[i] \/ groups[i] = [w.groups[i] EXCEPT !.jobs = jobs]
        BY <2>1, Zenon
    <2> HIDE DEF jobs, groups
    <2> QED BY <2>1, <2>2, <2>3 DEF GroupLike, GroupOK
<1>5. DOMAIN groups = DOMAIN w.groups
    BY Zenon
<1> HIDE DEF groups
<1>6. ASSUME NEW i \in DOMAIN w.groups, NEW j \in DOMAIN w.groups[i].jobs
      PROVE  j \in DOMAIN groups[i].jobs /\ groups[i].jobs[j] = w.groups[i].jobs[j]
    <2> DEFINE jobs == w.groups[i].jobs \o added
    <2>1. groups[i] = w.groups[i] \/ groups[i] = [w.groups[i] EXCEPT !.jobs = jobs]
        BY Zenon DEF groups
    <2>2. IsList(w.groups[i].jobs) /\ "jobs" \in DOMAIN w.groups[i]
        BY DEF Shaped, GroupLike, GroupOK, JobsOK
    <2>3. j \in DOMAIN jobs /\ jobs[j] = w.groups[i].jobs[j]
        <3>1. IsList(added)
            BY <1>2 DEF JobsOK
        <3>2. jobs[j] = w.groups[i].jobs[j] /\ DOMAIN jobs = 1..(Len(w.groups[i].jobs) + Len(added))
            BY <2>2, <3>1, ConcatLeft, ConcatLen
        <3>3. /\ Len(w.groups[i].jobs) \in Nat /\ DOMAIN w.groups[i].jobs = 1..Len(w.groups[i].jobs)
              /\ Len(added) \in Nat
            BY <2>2, <3>1, ListIs
        <3> HIDE DEF jobs
        <3> QED BY <3>2, <3>3
    <2> HIDE DEF jobs
    <2> QED BY <2>1, <2>2, <2>3
<1>7. CASE r = [w EXCEPT !.groups = groups]
    <2>1. DOMAIN r = DOMAIN w /\ r.groups = groups /\ r.addons = w.addons
        BY <1>7 DEF Shaped
    <2>2. Shaped(r, m)
        BY <1>4, <1>5, <2>1 DEF Shaped
    <2>3. ASSUME NEW l \in Leaves(w) PROVE l \in Leaves(r) /\ At(r, l) = At(w, l)
        <3>1. CASE \E i \in DOMAIN w.addons : \E j \in DOMAIN w.addons[i].jobs :
                      \E p \in DOMAIN w.addons[i].jobs[j].props : l = <<"addon", i, j, p>>
            <4>1. l \in Leaves(r)
                BY <2>1, <3>1, LeafIs
            <4>2. l[1] = "addon"
                BY <3>1
            <4> QED BY <2>1, <4>1, <4>2 DEF At
        <3>2. CASE \E i \in DOMAIN w.groups : \E j \in DOMAIN w.groups[i].jobs :
                      \E p \in DOMAIN w.groups[i].jobs[j].props : l = <<"group", i, j, p>>
            <4>1. PICK i, j, p : /\ i \in DOMAIN w.groups /\ j \in DOMAIN w.groups[i].jobs
                                 /\ p \in DOMAIN w.groups[i].jobs[j].props /\ l = <<"group", i, j, p>>
                BY <3>2, Zenon
            <4>2. /\ i \in DOMAIN r.groups /\ j \in DOMAIN r.groups[i].jobs
                  /\ r.groups[i].jobs[j] = w.groups[i].jobs[j]
                BY <1>5, <1>6, <2>1, <4>1, Zenon
            <4>3. l \in Leaves(r)
                BY <4>1, <4>2, LeafIs
            <4>4. At(r, l) = r.groups[i].jobs[j].props[p] /\ At(w, l) = w.groups[i].jobs[j].props[p]
                BY <4>1 DEF At
            <4> QED BY <4>2, <4>3, <4>4, Zenon
        <3> QED BY <3>1, <3>2, LeafIs
    <2> QED BY <2>2, <2>3, Zenon DEF Kept
<1>8. CASE r = w
    BY <1>8, Zenon DEF Kept
<1> QED BY <1>1, <1>7, <1>8

Grown(r, w) == Shaped(r, w) /\ Kept(r, w)
AllGrown(results, w) == \A r \in results : Grown(r, w)
Adding == INSTANCE FoldProofs WITH Op <- applyAddonToAll, Good <- AllGrown

LEMMA AddonsShape ==
    ASSUME NEW m, NEW w, Shaped(w, m), NEW r \in ApplyAddons(w)
    PROVE  Shaped(r, m) /\ Kept(r, w)
<1> DEFINE n == Len(w.addons)
           folded == FoldLeft(applyAddonToAll, {w}, w.addons)
<1>1. n \in Nat /\ DOMAIN w.addons = 1..n
    BY ListIs DEF Shaped
<1> HIDE DEF n
<1>2. Grown(w, w)
    <2>1. Shaped(w, w)
        BY DEF Shaped, GroupLike
    <2> QED BY <2>1, Zenon DEF Grown, Kept
<1>3. ASSUME NEW i \in 1..n, NEW a, AllGrown(a, w) PROVE AllGrown(applyAddonToAll(a, w.addons[i]), w)
    <2>1. AddonOK(w.addons[i])
        BY <1>1 DEF Shaped
    <2> SUFFICES ASSUME NEW x \in applyAddonToAll(a, w.addons[i]) PROVE Grown(x, w)
        BY Zenon DEF AllGrown
    <2>2. PICK y \in a : x \in applyAddon(y, w.addons[i])
        BY Zenon DEF applyAddonToAll, Then
    <2>3. Shaped(y, w) /\ Kept(y, w)
        BY <1>3, Zenon DEF AllGrown, Grown
    <2>4. Shaped(x, w) /\ Kept(x, y)
        BY <2>1, <2>2, <2>3, AddonShape, Zenon
    <2>5. Kept(x, w)
        BY <2>3, <2>4, Zenon DEF Kept
    <2> QED BY <2>4, <2>5, Zenon DEF Grown
<1>4. AllGrown(Adding!Fold({w}, w.addons), w)
    <2>1. AllGrown({w}, w)
        BY <1>2 DEF AllGrown
    <2> QED BY <1>1, <1>3, <2>1, Adding!FoldKeeps, Zenon
<1>5. Adding!Fold({w}, w.addons) = folded
    BY Zenon DEF FoldLeft, MapThenFoldSet, Max,
        Adding!Fold, Adding!FoldLeft, Adding!MapThenFoldSet, Adding!Max
<1>6. AllGrown(folded, w)
    BY <1>4, <1>5, Zenon
<1>7. r = w \/ \E x \in folded : r = [x EXCEPT !.applied = TRUE]
    BY Zenon DEF ApplyAddons
<1> HIDE DEF folded
<1>8. ASSUME NEW x \in folded, r = [x EXCEPT !.applied = TRUE] PROVE Grown(r, w)
    <2>1. Shaped(x, w) /\ Kept(x, w)
        BY <1>6, Zenon DEF AllGrown, Grown
    <2>2. DOMAIN r = DOMAIN x /\ r.groups = x.groups /\ r.addons = x.addons
        BY <1>8, <2>1 DEF Shaped
    <2>3. Shaped(r, w)
        BY <2>1, <2>2 DEF Shaped
    <2>4. Leaves(r) = Leaves(x) /\ \A l : At(r, l) = At(x, l)
        BY <2>2, Zenon DEF Leaves, At
    <2> QED BY <2>1, <2>3, <2>4, Zenon DEF Grown, Kept
<1>9. Grown(r, w)
    BY <1>2, <1>7, <1>8, Zenon
<1>10. Shaped(r, m)
    BY <1>9 DEF Grown, Shaped, GroupLike
<1> QED BY <1>9, <1>10, Zenon DEF Grown

-----------------------------------------------------------------------------
(* The desired manifest.                                                   *)

FilesOK(files) == \A v \in DOMAIN files : \A f \in DOMAIN files[v] : IsValue(files[v][f])
FileOf(value) == IF value.field = "" THEN "password" ELSE value.field

\* The value once the explicit variables are interpolated.
Filled(value, files) ==
    IF IsRef(value) /\ value.var \in DOMAIN files /\ FileOf(value) \in DOMAIN files[value.var]
    THEN files[value.var][FileOf(value)] ELSE value

AllFilled(r, w, m, files) ==
    /\ Shaped(r, m) /\ Leaves(r) = Leaves(w)
    /\ \A l \in Leaves(w) : At(r, l) = Filled(At(w, l), files)

LEMMA Interpolated ==
    ASSUME NEW m, NEW w, Shaped(w, m), NEW files, FilesOK(files)
    PROVE  AllFilled(InterpolateVariables(w, files), w, m, files)
<1> DEFINE values == [l \in Leaves(w) |-> Filled(At(w, l), files)]
<1>1. InterpolateVariables(w, files) = SetLeaves(w, values)
    BY Zenon DEF InterpolateVariables, Filled, FileOf
<1>2. \A l \in Leaves(w) : values[l] = Filled(At(w, l), files)
    BY Zenon
<1> HIDE DEF values
<1>3. \A l \in Leaves(w) : IsValue(values[l])
    BY <1>2, LeafValue, Zenon DEF Filled, FilesOK
<1>4. Shaped(SetLeaves(w, values), m)
    BY <1>3, SetShape, Zenon
<1>5. Leaves(SetLeaves(w, values)) = Leaves(w) /\ \A l \in Leaves(w) : At(SetLeaves(w, values), l) = values[l]
    BY SetValues, Zenon
<1> QED BY <1>1, <1>2, <1>4, <1>5, Zenon DEF AllFilled

\* The values of the user's manifest in the desired one, except for long texts
\* under a quoted key.
Delivered(d, m, files) ==
    /\ ImplicitVariables(m) \subseteq DOMAIN Secrets
    /\ \A l \in Leaves(m) :
          LET v == Filled(Replaced(At(m, l), ImplicitVariables(m)), files)
          IN ~(Quoted(l) /\ v.text \in LongTexts) => l \in Leaves(d) /\ At(d, l) = v

\* A long text is not a reference: nothing is filled in.
LEMMA LongStays ==
    ASSUME NEW v, IsValue(v), v.text \in LongTexts, NEW files PROVE Filled(v, files) = v
<1>1. Ref(v.var, v.field).text = "" /\ Text(v.text).var = ""
    BY DEF Ref, Text
<1>2. v.var = ""
    BY <1>1, LongTextsAssumption DEF IsValue
<1> QED BY <1>2 DEF Filled, IsRef

\* Whatever becomes the desired manifest has the shape of the user's, and its
\* values.
LEMMA DesiredShape ==
    ASSUME NEW m, ManifestOK(m), NEW files, FilesOK(files), NEW d \in DesiredManifest(m, Secrets, files)
    PROVE  Shaped(d, m) /\ (Direct(m) => Delivered(d, m, files))
<1>1. PICK a : a \in Then(WithOpsManifest(m, Secrets), LAMBDA w : LoadYAML(Marshal(w)))
                 /\ d \in LoadYAML(Marshal(InterpolateVariables(a, files)))
    BY Zenon DEF DesiredManifest, Then
<1>2. PICK b \in WithOpsManifest(m, Secrets) : a \in LoadYAML(Marshal(b))
    BY <1>1, Zenon DEF Then
<1>3. ImplicitVariables(m) \subseteq DOMAIN Secrets
    BY Zenon DEF WithOpsManifest
<1>4. PICK order \in SetToSeqs(ImplicitVariables(m)) : b \in ApplyAddons(replaceVars(m, Secrets, order))
    BY <1>2, Zenon DEF WithOpsManifest, Then
<1> DEFINE r == replaceVars(m, Secrets, order)
           i == InterpolateVariables(a, files)
<1>5. /\ Shaped(r, m) /\ Leaves(r) = Leaves(m)
      /\ Direct(m) => \A l \in Leaves(m) : At(r, l) = Replaced(At(m, l), ImplicitVariables(m))
    BY <1>3, AllReplaced, Zenon
<1>6. b \in ApplyAddons(r)
    BY <1>4, Zenon
<1> HIDE DEF r
<1>7. Shaped(b, m) /\ Kept(b, r)
    BY <1>5, <1>6, AddonsShape, Zenon
<1>8. Shaped(a, m) /\ \A l \in Leaves(b) : ~Lost(b, l) => l \in Leaves(a) /\ At(a, l) = At(b, l)
    BY <1>2, <1>7, ReadKept, Zenon
<1>9. AllFilled(i, a, m, files)
    BY <1>8, Interpolated, Zenon
<1>10. d \in LoadYAML(Marshal(i))
    BY <1>1, Zenon
<1> HIDE DEF i
<1>11. Shaped(d, m) /\ \A l \in Leaves(i) : ~Lost(i, l) => l \in Leaves(d) /\ At(d, l) = At(i, l)
    BY <1>9, <1>10, ReadKept, Zenon DEF AllFilled
<1>12. ASSUME Direct(m), NEW l \in Leaves(m),
              ~(Quoted(l) /\ Filled(Replaced(At(m, l), ImplicitVariables(m)), files).text \in LongTexts)
       PROVE  l \in Leaves(d) /\ At(d, l) = Filled(Replaced(At(m, l), ImplicitVariables(m)), files)
    <2>1. l \in Leaves(r) /\ At(r, l) = Replaced(At(m, l), ImplicitVariables(m))
        BY <1>5, <1>12, Zenon
    <2>2. l \in Leaves(b) /\ At(b, l) = At(r, l)
        BY <1>7, <2>1, Zenon DEF Kept
    <2>3. ~Lost(b, l)
        <3>1. IsValue(At(b, l))
            BY <1>7, <2>2, LeafValue, Zenon
        <3> QED BY <1>12, <2>1, <2>2, <3>1, LongStays, Zenon DEF Lost
    <2>4. l \in Leaves(a) /\ At(a, l) = At(b, l)
        BY <1>8, <2>2, <2>3, Zenon
    <2>5. l \in Leaves(i) /\ At(i, l) = Filled(At(a, l), files)
        BY <1>9, <2>4, Zenon DEF AllFilled
    <2>6. At(i, l) = Filled(Replaced(At(m, l), ImplicitVariables(m)), files)
        BY <2>1, <2>2, <2>4, <2>5, Zenon
    <2>7. ~Lost(i, l)
        BY <1>12, <2>6, Zenon DEF Lost
    <2> QED BY <1>11, <2>5, <2>6, <2>7, Zenon
<1> QED BY <1>3, <1>11, <1>12, Zenon DEF Delivered


-----------------------------------------------------------------------------
(* Groups and their jobs.                                                  *)

\* A group that is found by its name is the only one, and like the user's.
LEMMA NamedGroup ==
    ASSUME NEW m, ManifestOK(m), NEW d, Shaped(d, m), NEW g, NEW h \in ByName(d.groups, g)
    PROVE  /\ h.name = g /\ GroupLike(h, GroupOf(m, g)) /\ GroupOf(d, g) = h /\ GroupOK(GroupOf(m, g))
           /\ \E i \in DOMAIN m.groups : GroupOf(m, g) = m.groups[i]
<1> DEFINE at == {i \in DOMAIN m.groups : m.groups[i].name = g}
<1>1. at = {i \in DOMAIN d.groups : d.groups[i].name = g} /\ DOMAIN d.groups = DOMAIN m.groups
    BY DEF Shaped, GroupLike
<1>2. PICK i \in at : (\A k \in at : i <= k) /\ h = d.groups[i]
    BY <1>1 DEF ByName
<1>3. \A j \in at : (\A k \in at : j <= k) => j = i
    <2>1. at \subseteq Nat
        BY ListIs DEF ManifestOK
    <2> HIDE DEF at
    <2> QED BY <1>2, <2>1
<1>4. ByName(m.groups, g) = {m.groups[i]} /\ ByName(d.groups, g) = {d.groups[i]}
    BY <1>1, <1>2, <1>3 DEF ByName
<1>5. GroupOf(m, g) = m.groups[i] /\ GroupOf(d, g) = d.groups[i]
    BY <1>4 DEF GroupOf
<1>6. GroupOK(m.groups[i])
    BY DEF ManifestOK
<1> QED BY <1>2, <1>5, <1>6 DEF Shaped, GroupLike

\* The specs of all jobs are known when a group can be resolved.
LEMMA SpecsThere ==
    ASSUME NEW m, NEW d, ManifestOK(m), Shaped(d, m), collectReleaseSpecsAndProviderLinks(d) # {},
           NEW g \in DOMAIN d.groups, NEW j \in DOMAIN d.groups[g].jobs
    PROVE  <<d.groups[g].jobs[j].release, d.groups[g].jobs[j].name>> \in DOMAIN Specs
<1> DEFINE pair(x, y) == [group |-> d.groups[x], job |-> d.groups[x].jobs[y]]
           of == [x \in DOMAIN d.groups |-> [y \in DOMAIN d.groups[x].jobs |-> pair(x, y)]]
           all == GroupJobs(d)
           S == UNION {{pair(x, y) : y \in DOMAIN d.groups[x].jobs} : x \in DOMAIN d.groups}
<1>1. all = FlattenSeq(of)
    BY Zenon DEF GroupJobs
<1>2. of \in Seq(Seq(S))
    <2>1. Len(m.groups) \in Nat /\ DOMAIN m.groups = 1..Len(m.groups) /\ DOMAIN d.groups = DOMAIN m.groups
        BY ListIs DEF ManifestOK, Shaped
    <2>2. ASSUME NEW x \in DOMAIN d.groups PROVE of[x] \in Seq(S)
        <3> DEFINE jobs == d.groups[x].jobs
        <3>1. IsList(jobs)
            BY <2>1 DEF Shaped, GroupLike, GroupOK, JobsOK
        <3>2. Len(jobs) \in Nat /\ DOMAIN jobs = 1..Len(jobs)
            BY <3>1, ListIs
        <3>3. \A y \in DOMAIN jobs : pair(x, y) \in S
            <4> HIDE DEF pair
            <4> QED OBVIOUS
        <3>4. of[x] = [y \in DOMAIN jobs |-> pair(x, y)]
            OBVIOUS
        <3> HIDE DEF S, pair, of
        <3>5. of[x] \in [1..Len(jobs) -> S]
            BY <3>2, <3>3, <3>4
        <3> QED BY <3>2, <3>5, SeqDef
    <2>3. DOMAIN of = DOMAIN d.groups
        BY Zenon
    <2>4. of = [x \in DOMAIN of |-> of[x]]
        BY Zenon
    <2> HIDE DEF S, of
    <2>5. of \in [1..Len(m.groups) -> Seq(S)]
        BY <2>1, <2>2, <2>3, <2>4
    <2> QED BY <2>1, <2>5, SeqDef
<1>3. ToSet(of[g]) \subseteq ToSet(all)
    <2>1. g \in DOMAIN of
        BY Zenon
    <2> HIDE DEF of, S, all
    <2>2. ToSet(of[g]) \subseteq ToSet(FlattenSeq(of))
        BY <1>2, <2>1, Merging!FlattenHas, Zenon DEF FlattenSeq, Merging!FlattenSeq, ToSet, Merging!ToSet
    <2> QED BY <1>1, <2>2, Zenon
<1>4. pair(g, j) \in ToSet(of[g])
    <2>1. DOMAIN of[g] = DOMAIN d.groups[g].jobs /\ of[g][j] = pair(g, j)
        BY Zenon
    <2> HIDE DEF of, pair
    <2> QED BY <2>1 DEF ToSet
<1> HIDE DEF of, S
<1>5. PICK i \in DOMAIN all : all[i] = pair(g, j)
    <2> HIDE DEF all, pair
    <2> QED BY <1>3, <1>4 DEF ToSet
<1>6. all[i].job = d.groups[g].jobs[j]
    BY <1>5
<1>7. \A x \in DOMAIN all : <<all[x].job.release, all[x].job.name>> \in DOMAIN Specs
    BY Zenon DEF collectReleaseSpecsAndProviderLinks
<1> HIDE DEF all
<1> QED BY <1>6, <1>7, Zenon

-----------------------------------------------------------------------------
(* Links.                                                                  *)

\* The link of a group of d, or none.
LinkOf(link, d) ==
    \/ link = NoLink
    \/ \E i \in DOMAIN d.groups : link.address = d.groups[i].name /\ link.instances = jobInstances(d.groups[i])
Linked(links, d) == \A k \in DOMAIN links : LinkOf(links[k], d)
AllLinked(results, d) == \A links \in results : Linked(links, d)

AddingLinks == INSTANCE FoldProofs WITH Op <- AddNextLink, Good <- AllLinked
AddingJobs == INSTANCE FoldProofs WITH Op <- AddNextJob, Good <- AllLinked
Consuming == INSTANCE FoldProofs WITH Op <- consumeNextLink, Good <- AllLinked

LEMMA NoneLinked ==
    ASSUME NEW d PROVE AllLinked({<<>>}, d)
BY DEF AllLinked, Linked

\* A link that is added is one of its group.
LEMMA LinkAdded ==
    ASSUME NEW d, NEW i \in DOMAIN d.groups, NEW job, NEW link, NEW links, Linked(links, d),
           NEW r \in AddLink(links, d.groups[i], job, link)
    PROVE  Linked(r, d)
<1> DEFINE g == d.groups[i]
           value == [address |-> g.name, instances |-> jobInstances(g),
                     properties |-> LinkProperties(job, Specs[<<job.release, job.name>>], link)]
           more(name) == [k \in DOMAIN links \cup {<<link.type, name>>} |->
                             IF k \in DOMAIN links THEN links[k] ELSE value]
           add(name) == IF <<link.type, name>> \notin DOMAIN links THEN {more(name)}
                        ELSE IF job.addon THEN {links} ELSE {}
<1>1. r \in UNION {IF names = {} THEN {links} ELSE UNION {add(name) : name \in names}
                     : names \in providedName(job, link)}
    BY Zenon DEF AddLink, Then
<1>2. LinkOf(value, d)
    <2>1. value.address = g.name /\ value.instances = jobInstances(g)
        OBVIOUS
    <2> HIDE DEF value
    <2> QED BY <2>1, Zenon DEF LinkOf, g
<1>3. \A name : Linked(more(name), d)
    <2> HIDE DEF value, g
    <2> QED BY <1>2 DEF Linked
<1> HIDE DEF more
<1>4. r = links \/ \E name : r = more(name)
    <2>1. \A name : \A x \in add(name) : x = links \/ x = more(name)
        OBVIOUS
    <2> HIDE DEF add
    <2>2. r = links \/ \E name : r \in add(name)
        BY <1>1
    <2> QED BY <2>1, <2>2, Zenon
<1> QED BY <1>3, <1>4, Zenon

LEMMA JobAdded ==
    ASSUME NEW d, NEW i \in DOMAIN d.groups, NEW job, <<job.release, job.name>> \in DOMAIN Specs,
           NEW links, Linked(links, d), NEW r \in Add(links, d.groups[i], job)
    PROVE  Linked(r, d)
<1> DEFINE g == d.groups[i]
           provides == Specs[<<job.release, job.name>>].provides
           item(k) == [group |-> g, job |-> job, link |-> provides[k]]
           items == [k \in DOMAIN provides |-> item(k)]
           n == Len(provides)
<1>1. n \in Nat /\ DOMAIN provides = 1..n
    <2>1. IsList(provides)
        BY RenderingAssumption DEF SpecOK
    <2> QED BY <2>1, ListIs
<1>2. DOMAIN items = 1..n /\ \A k \in 1..n : items[k] = item(k)
    BY <1>1, Zenon
<1>3. \A k : item(k).group = g /\ item(k).job = job /\ item(k).link = provides[k]
    OBVIOUS
<1>4. Add(links, g, job) = FoldLeft(AddNextLink, {links}, items)
    BY Zenon DEF Add
<1> HIDE DEF item, items, n, provides, g
<1>5. ASSUME NEW k \in 1..n, NEW a, AllLinked(a, d) PROVE AllLinked(AddNextLink(a, items[k]), d)
    <2> SUFFICES ASSUME NEW x \in AddNextLink(a, items[k]) PROVE Linked(x, d)
        BY Zenon DEF AllLinked
    <2>1. PICK y \in a : x \in AddLink(y, items[k].group, items[k].job, items[k].link)
        BY Zenon DEF AddNextLink, Then
    <2>2. items[k].group = g
        BY <1>2, <1>3, Zenon
    <2>3. Linked(y, d)
        BY <1>5, Zenon DEF AllLinked
    <2> QED BY <2>1, <2>2, <2>3, LinkAdded, Zenon DEF g
<1>6. AllLinked({links}, d)
    BY Zenon DEF AllLinked
<1>7. AllLinked(AddingLinks!Fold({links}, items), d)
    BY <1>1, <1>2, <1>5, <1>6, AddingLinks!FoldKeeps, Zenon
<1>8. AddingLinks!Fold({links}, items) = FoldLeft(AddNextLink, {links}, items)
    BY Zenon DEF FoldLeft, MapThenFoldSet, Max,
        AddingLinks!Fold, AddingLinks!FoldLeft, AddingLinks!MapThenFoldSet, AddingLinks!Max
<1> QED BY <1>4, <1>7, <1>8, Zenon DEF AllLinked, g

\* The list of all jobs, each with its group.
LEMMA JobsOfGroups ==
    ASSUME NEW m, NEW d, ManifestOK(m), Shaped(d, m)
    PROVE  /\ Len(GroupJobs(d)) \in Nat /\ DOMAIN GroupJobs(d) = 1..Len(GroupJobs(d))
           /\ \A k \in DOMAIN GroupJobs(d) : \E i \in DOMAIN d.groups : GroupJobs(d)[k].group = d.groups[i]
<1> DEFINE pair(x, y) == [group |-> d.groups[x], job |-> d.groups[x].jobs[y]]
           list(x) == [y \in DOMAIN d.groups[x].jobs |-> pair(x, y)]
           of == [x \in DOMAIN d.groups |-> list(x)]
           all == GroupJobs(d)
<1>1. all = FlattenSeq(of)
    BY Zenon DEF GroupJobs
<1>2. IsList(m.groups) /\ DOMAIN m.groups = DOMAIN d.groups
    BY DEF ManifestOK, Shaped
<1>3. ASSUME NEW x \in DOMAIN d.groups
      PROVE  IsList(list(x)) /\ \A y \in DOMAIN list(x) : list(x)[y].group = d.groups[x]
    <2> DEFINE jobs == d.groups[x].jobs
               t == list(x)
    <2>1. IsList(jobs)
        BY <1>2 DEF Shaped, GroupLike, GroupOK, JobsOK
    <2>2. t = [y \in DOMAIN jobs |-> t[y]] /\ DOMAIN t = DOMAIN jobs /\ \A y \in DOMAIN jobs : t[y] = pair(x, y)
        BY Zenon
    <2>3. \A y : pair(x, y).group = d.groups[x]
        OBVIOUS
    <2> HIDE DEF pair, t, jobs
    <2>4. IsList(t)
        BY <2>1, <2>2, ListLike, Zenon
    <2>5. \A y \in DOMAIN t : t[y].group = d.groups[x]
        BY <2>2, <2>3, Zenon
    <2> QED BY <2>4, <2>5, Zenon DEF t
<1> HIDE DEF list
<1>4. of = [x \in DOMAIN m.groups |-> of[x]] /\ DOMAIN of = DOMAIN d.groups /\ \A x \in DOMAIN d.groups : of[x] = list(x)
    BY <1>2, Zenon
<1> HIDE DEF of
<1>5. IsList(of)
    BY <1>2, <1>4, ListLike, Zenon
<1>6. /\ IsList(FlattenSeq(of))
      /\ \A k \in DOMAIN FlattenSeq(of) : \E i \in DOMAIN of : \E j \in DOMAIN of[i] : FlattenSeq(of)[k] = of[i][j]
    <2>1. \A i \in DOMAIN of : IsList(of[i])
        BY <1>3, <1>4, Zenon
    <2> QED BY <1>5, <2>1, FlattenList, Zenon
<1>7. IsList(all) /\ \A k \in DOMAIN all : \E i \in DOMAIN of : \E j \in DOMAIN of[i] : all[k] = of[i][j]
    BY <1>1, <1>6, Zenon
<1> HIDE DEF all
<1>8. Len(all) \in Nat /\ DOMAIN all = 1..Len(all)
    BY <1>7, ListIs, Zenon
<1>9. \A k \in DOMAIN all : \E i \in DOMAIN d.groups : all[k].group = d.groups[i]
    <2>1. \A i \in DOMAIN of : \A j \in DOMAIN of[i] : of[i][j].group = d.groups[i]
        BY <1>3, <1>4, Zenon
    <2> SUFFICES ASSUME NEW k \in DOMAIN all PROVE \E i \in DOMAIN d.groups : all[k].group = d.groups[i]
        OBVIOUS
    <2>2. PICK i \in DOMAIN of : \E j \in DOMAIN of[i] : all[k] = of[i][j]
        BY <1>7, Zenon
    <2>3. all[k].group = d.groups[i]
        BY <2>1, <2>2
    <2> QED BY <1>4, <2>3
<1> QED BY <1>8, <1>9, Zenon DEF all

\* The links that are collected are links of the groups.
LEMMA CollectedLinked ==
    ASSUME NEW m, NEW d, ManifestOK(m), Shaped(d, m), NEW links \in collectReleaseSpecsAndProviderLinks(d)
    PROVE  Linked(links, d)
<1> DEFINE all == GroupJobs(d)
           n == Len(all)
<1>1. /\ n \in Nat /\ DOMAIN all = 1..n
      /\ \A k \in DOMAIN all : \E i \in DOMAIN d.groups : all[k].group = d.groups[i]
    BY JobsOfGroups
<1>2. /\ \A k \in DOMAIN all : <<all[k].job.release, all[k].job.name>> \in DOMAIN Specs
      /\ links \in FoldLeft(AddNextJob, {<<>>}, all)
    BY Zenon DEF collectReleaseSpecsAndProviderLinks
<1> HIDE DEF all, n
<1>3. ASSUME NEW k \in 1..n, NEW a, AllLinked(a, d) PROVE AllLinked(AddNextJob(a, all[k]), d)
    <2> SUFFICES ASSUME NEW x \in AddNextJob(a, all[k]) PROVE Linked(x, d)
        BY Zenon DEF AllLinked
    <2>1. PICK y \in a : x \in Add(y, all[k].group, all[k].job)
        BY Zenon DEF AddNextJob, Then
    <2>2. PICK i \in DOMAIN d.groups : all[k].group = d.groups[i]
        BY <1>1, Zenon
    <2>3. Linked(y, d)
        BY <1>3, Zenon DEF AllLinked
    <2>4. <<all[k].job.release, all[k].job.name>> \in DOMAIN Specs
        BY <1>1, <1>2, Zenon
    <2> QED BY <2>1, <2>2, <2>3, <2>4, JobAdded, Zenon
<1>4. AllLinked(AddingJobs!Fold({<<>>}, all), d)
    BY <1>1, <1>3, NoneLinked, AddingJobs!FoldKeeps, Zenon
<1>5. AddingJobs!Fold({<<>>}, all) = FoldLeft(AddNextJob, {<<>>}, all)
    BY Zenon DEF FoldLeft, MapThenFoldSet, Max,
        AddingJobs!Fold, AddingJobs!FoldLeft, AddingJobs!MapThenFoldSet, AddingJobs!Max
<1> QED BY <1>2, <1>4, <1>5, Zenon DEF AllLinked

\* So is what a job consumes.
LEMMA ConsumedLinked ==
    ASSUME NEW d, NEW links, Linked(links, d), NEW job, <<job.release, job.name>> \in DOMAIN Specs,
           NEW r \in generateJobConsumersData(job, links)
    PROVE  Linked(r, d)
<1> DEFINE consumes == Specs[<<job.release, job.name>>].consumes
           item(k) == [job |-> job, provider |-> consumes[k], links |-> links]
           items == [k \in DOMAIN consumes |-> item(k)]
           n == Len(consumes)
<1>1. n \in Nat /\ DOMAIN consumes = 1..n
    <2>1. IsList(consumes)
        BY RenderingAssumption DEF SpecOK
    <2> QED BY <2>1, ListIs
<1>2. DOMAIN items = 1..n /\ \A k \in 1..n : items[k] = item(k)
    BY <1>1, Zenon
<1>3. \A k : item(k).links = links
    OBVIOUS
<1>4. generateJobConsumersData(job, links) = FoldLeft(consumeNextLink, {<<>>}, items)
    BY Zenon DEF generateJobConsumersData
<1> HIDE DEF item, items, n, consumes
<1>5. ASSUME NEW k \in 1..n, NEW a, AllLinked(a, d) PROVE AllLinked(consumeNextLink(a, items[k]), d)
    <2> SUFFICES ASSUME NEW x \in consumeNextLink(a, items[k]) PROVE Linked(x, d)
        BY Zenon DEF AllLinked
    <2>1. PICK y \in a : x \in consumeLink(y, items[k].job, items[k].provider, items[k].links)
        BY Zenon DEF consumeNextLink, Then
    <2> DEFINE provider == items[k].provider
               found == Lookup(links, provider)
               link == IF found = {} THEN NoLink ELSE CHOOSE l \in found : TRUE
               more(name) == [z \in DOMAIN y \cup {name} |-> IF z = name THEN link ELSE y[z]]
    <2>2. items[k].links = links
        BY <1>2, <1>3, Zenon
    <2>3. x \in consumeLink(y, items[k].job, provider, links)
        BY <2>1, <2>2, Zenon
    <2>4. \E name : x = more(name)
        <3> HIDE DEF provider, link
        <3> QED BY <2>3, Zenon DEF consumeLink, link
    <2>5. LinkOf(link, d)
        <3>1. \A l \in found : LinkOf(l, d)
            <4> HIDE DEF provider
            <4> QED BY DEF Linked, Lookup
        <3>2. found = {} => link = NoLink
            BY Zenon
        <3>3. found # {} => link \in found
            <4> HIDE DEF found
            <4> QED OBVIOUS
        <3> HIDE DEF link, found
        <3> QED BY <3>1, <3>2, <3>3, Zenon DEF LinkOf
    <2>6. Linked(y, d)
        BY <1>5, Zenon DEF AllLinked
    <2> HIDE DEF link
    <2>7. \A name : Linked(more(name), d)
        BY <2>5, <2>6 DEF Linked
    <2> HIDE DEF more
    <2> QED BY <2>4, <2>7, Zenon
<1>6. AllLinked(Consuming!Fold({<<>>}, items), d)
    BY <1>1, <1>2, <1>5, NoneLinked, Consuming!FoldKeeps, Zenon
<1>7. Consuming!Fold({<<>>}, items) = FoldLeft(consumeNextLink, {<<>>}, items)
    BY Zenon DEF FoldLeft, MapThenFoldSet, Max,
        Consuming!Fold, Consuming!FoldLeft, Consuming!MapThenFoldSet, Consuming!Max
<1> QED BY <1>4, <1>6, <1>7, Zenon DEF AllLinked

\* jobs is a resolved list of the jobs of group h.
JobsResolved(jobs, h) ==
    /\ jobs = [i \in DOMAIN h.jobs |-> jobs[i]]
    /\ \A i \in DOMAIN h.jobs : jobs[i].job = h.jobs[i] /\ jobs[i].instances = jobInstances(h)

LEMMA ResolvedJobs ==
    ASSUME NEW d, NEW g, NEW jobs \in resolveManifest(d, g)
    PROVE  /\ collectReleaseSpecsAndProviderLinks(d) # {}
           /\ \E h \in ByName(d.groups, g) :
                 /\ JobsResolved(jobs, h)
                 /\ \A i \in DOMAIN h.jobs : jobs[i].bpm \in renderJobBPM(h.jobs[i], jobInstances(h))
                 /\ \E links \in collectReleaseSpecsAndProviderLinks(d) : \A i \in DOMAIN h.jobs :
                       jobs[i].links \in generateJobConsumersData(h.jobs[i], links)
<1>1. PICK h \in ByName(d.groups, g) :
          jobs \in UNION {resolveJobs(h, links) : links \in collectReleaseSpecsAndProviderLinks(d)}
    BY DEF resolveManifest, Then
<1>2. PICK links \in collectReleaseSpecsAndProviderLinks(d) : jobs \in resolveJobs(h, links)
    BY <1>1
<1> DEFINE results == [i \in DOMAIN h.jobs |-> resolveJob(h.jobs[i], jobInstances(h), links)]
           made == [i \in DOMAIN h.jobs |-> CHOOSE r \in results[i] : TRUE]
<1>a. jobs = made /\ \A i \in DOMAIN h.jobs : results[i] # {}
    BY <1>2, Zenon DEF resolveJobs
<1>3. \A i \in DOMAIN h.jobs : jobs[i] \in resolveJob(h.jobs[i], jobInstances(h), links)
    BY <1>a, Zenon
<1>4. jobs = [i \in DOMAIN h.jobs |-> jobs[i]]
    <2>1. made = [i \in DOMAIN h.jobs |-> made[i]]
        OBVIOUS
    <2> HIDE DEF made
    <2> QED BY <1>a, <2>1, Zenon
<1> HIDE DEF results, made
<1>5. \A i \in DOMAIN h.jobs : /\ jobs[i].job = h.jobs[i] /\ jobs[i].instances = jobInstances(h)
                               /\ jobs[i].bpm \in renderJobBPM(h.jobs[i], jobInstances(h))
                               /\ jobs[i].links \in generateJobConsumersData(h.jobs[i], links)
    BY <1>3 DEF resolveJob
<1> QED BY <1>2, <1>4, <1>5, Zenon DEF JobsResolved

\* The links of resolved jobs are links of the groups of d.
JobsLinked(jobs, d) == \A i \in DOMAIN jobs : Linked(jobs[i].links, d)

LEMMA ResolvedLinks ==
    ASSUME NEW m, ManifestOK(m), NEW d, Shaped(d, m), NEW g, NEW jobs \in resolveManifest(d, g)
    PROVE  JobsLinked(jobs, d)
<1>1. PICK h \in ByName(d.groups, g) :
          /\ JobsResolved(jobs, h)
          /\ \E links \in collectReleaseSpecsAndProviderLinks(d) : \A i \in DOMAIN h.jobs :
                jobs[i].links \in generateJobConsumersData(h.jobs[i], links)
    BY ResolvedJobs, Zenon
<1>2. PICK links \in collectReleaseSpecsAndProviderLinks(d) : \A i \in DOMAIN h.jobs :
          jobs[i].links \in generateJobConsumersData(h.jobs[i], links)
    BY <1>1
<1>3. PICK k \in DOMAIN d.groups : h = d.groups[k]
    BY DEF ByName
<1>4. collectReleaseSpecsAndProviderLinks(d) # {} /\ Linked(links, d)
    BY CollectedLinked
<1>5. DOMAIN jobs = DOMAIN h.jobs
    BY <1>1, Zenon DEF JobsResolved
<1>6. ASSUME NEW i \in DOMAIN jobs PROVE Linked(jobs[i].links, d)
    <2>1. i \in DOMAIN d.groups[k].jobs /\ h.jobs[i] = d.groups[k].jobs[i]
        BY <1>3, <1>5
    <2>2. <<h.jobs[i].release, h.jobs[i].name>> \in DOMAIN Specs
        BY <1>4, <2>1, SpecsThere
    <2>3. jobs[i].links \in generateJobConsumersData(h.jobs[i], links)
        BY <1>2, <1>5
    <2> QED BY <1>4, <2>2, <2>3, ConsumedLinked
<1> QED BY <1>6, Zenon DEF JobsLinked

-----------------------------------------------------------------------------
(* Instances and BPM information.                                          *)

LEMMA ZonesList ==
    ASSUME NEW g, GroupOK(g)
    PROVE  IsList(Zones(g)) /\ Len(Zones(g)) \in Nat \ {0} /\ g.instances \in Nat
<1>1. IsList(g.azs) /\ Len(g.azs) \in Nat /\ DOMAIN g.azs = 1..Len(g.azs) /\ g.instances \in Nat
    BY ListIs DEF GroupOK
<1>2. CASE g.azs = <<>>
    <2> DEFINE one == <<"">>
    <2>1. Zones(g) = one
        BY <1>2, Zenon DEF Zones
    <2>2. one \in Seq({""}) /\ Len(one) = 1
        OBVIOUS
    <2> HIDE DEF one
    <2>3. IsList(one)
        BY <2>2, ListFrom
    <2>4. IsList(Zones(g)) /\ Len(Zones(g)) = 1
        BY <2>1, <2>2, <2>3, Zenon
    <2> QED BY <1>1, <2>4
<1>3. CASE g.azs # <<>>
    <2>1. Zones(g) = g.azs
        BY <1>3 DEF Zones
    <2>2. Len(g.azs) # 0
        BY <1>1, <1>3, EmptySeq DEF IsList
    <2> QED BY <1>1, <2>1, <2>2
<1> QED BY <1>2, <1>3

\* The instances of a group: one for each number, with that index and its address.
LEMMA Instances ==
    ASSUME NEW g, GroupOK(g)
    PROVE  /\ g.instances * Len(Zones(g)) \in Nat
           /\ DOMAIN jobInstances(g) = 1..(g.instances * Len(Zones(g)))
           /\ \A k \in DOMAIN jobInstances(g) :
                 /\ jobInstances(g)[k].index = k - 1 /\ jobInstances(g)[k].bootstrap \in BOOLEAN
                 /\ jobInstances(g)[k].address = <<g.name, k - 1>>
<1>1. Len(Zones(g)) \in Nat \ {0} /\ g.instances \in Nat
    BY ZonesList
<1> DEFINE n == g.instances * Len(Zones(g))
           item(k) == [index |-> k - 1, az |-> Zones(g)[((k - 1) % Len(Zones(g))) + 1],
                       bootstrap |-> k = 1, instance |-> (k - 1) \div Len(Zones(g)),
                       address |-> <<g.name, k - 1>>]
<1>2. n \in Nat
    BY <1>1
<1>3. DOMAIN jobInstances(g) = 1..n /\ \A k \in 1..n : jobInstances(g)[k] = item(k)
    BY Zenon DEF jobInstances
<1>4. \A k \in 1..n : item(k).index = k - 1 /\ item(k).bootstrap \in BOOLEAN /\ item(k).address = <<g.name, k - 1>>
    <2> HIDE DEF n
    <2> QED OBVIOUS
<1> HIDE DEF item
<1> QED BY <1>2, <1>3, <1>4, Zenon

\* Whatever a job's BPM processes are, they are a list.
LEMMA RenderedList ==
    ASSUME NEW job, JobOK(job), <<job.release, job.name>> \in DOMAIN Specs, NEW g, GroupOK(g),
           NEW bpm \in renderJobBPM(job, jobInstances(g)), NEW procs \in bpm
    PROVE  IsList(procs)
<1> DEFINE spec == Specs[<<job.release, job.name>>]
           instances == jobInstances(g)
           preset == IF job.preset = {} THEN <<>> ELSE CHOOSE p \in job.preset : TRUE
<1>1. \/ /\ instances # <<>>
         /\ bpm = {mergeBPMProcesses(b[instances[1].bootstrap], preset) : b \in spec.bpm}
      \/ bpm = job.preset
    BY Zenon DEF renderJobBPM
<1>2. IsList(preset)
    <2>1. <<>> \in Seq({})
        OBVIOUS
    <2>2. IsList(<<>>)
        BY <2>1, ListFrom
    <2> QED BY <2>2 DEF JobOK
<1>3. CASE /\ instances # <<>>
           /\ bpm = {mergeBPMProcesses(b[instances[1].bootstrap], preset) : b \in spec.bpm}
    <2>1. instances[1].bootstrap \in BOOLEAN
        <3> DEFINE n == g.instances * Len(Zones(g))
        <3>1. n \in Nat /\ DOMAIN instances = 1..n /\ \A k \in DOMAIN instances : instances[k].bootstrap \in BOOLEAN
            BY Instances
        <3>2. instances = [k \in DOMAIN instances |-> instances[k]]
            BY Zenon DEF jobInstances
        <3> HIDE DEF n, instances
        <3>3. n # 0
            BY <1>3, <3>1, <3>2
        <3> QED BY <3>1, <3>3
    <2> HIDE DEF instances, preset
    <2>2. PICK b \in spec.bpm : procs = mergeBPMProcesses(b[instances[1].bootstrap], preset)
        BY <1>3
    <2>3. IsList(b[instances[1].bootstrap])
        BY <2>1, <2>2, RenderingAssumption DEF SpecOK
    <2> QED BY <1>2, <2>2, <2>3, MergedList, Zenon
<1>4. CASE bpm = job.preset
    BY <1>4 DEF JobOK
<1> QED BY <1>1, <1>3, <1>4

LEMMA ConfigLists ==
    ASSUME NEW m, ManifestOK(m), NEW d, Shaped(d, m), NEW g, NEW configs \in BPMConfigs(d, g),
           NEW name \in DOMAIN configs
    PROVE  IsList(configs[name])
<1> DEFINE last(jobs, n) == Max({i \in DOMAIN jobs : jobs[i].job.name = n})
           made(jobs) == [n \in {jobs[i].job.name : i \in DOMAIN jobs} |-> CHOOSE b \in jobs[last(jobs, n)].bpm : TRUE]
<1>1. PICK jobs \in resolveManifest(d, g) : (\A i \in DOMAIN jobs : jobs[i].bpm # {}) /\ configs = made(jobs)
    BY DEF BPMConfigs
<1>2. collectReleaseSpecsAndProviderLinks(d) # {}
    BY ResolvedJobs
<1>3. PICK h \in ByName(d.groups, g) :
          /\ JobsResolved(jobs, h)
          /\ \A i \in DOMAIN h.jobs : jobs[i].bpm \in renderJobBPM(h.jobs[i], jobInstances(h))
    BY ResolvedJobs
<1>4. PICK k \in DOMAIN d.groups : h = d.groups[k]
    BY DEF ByName
<1>5. GroupOK(h)
    BY <1>4 DEF Shaped, GroupLike
<1> DEFINE here == {i \in DOMAIN jobs : jobs[i].job.name = name}
           at == last(jobs, name)
<1>6. name \in {jobs[i].job.name : i \in DOMAIN jobs} /\ configs[name] = CHOOSE b \in jobs[at].bpm : TRUE
    BY <1>1
<1>7. here # {}
    BY <1>6
<1>8. Len(h.jobs) \in Nat /\ DOMAIN h.jobs = 1..Len(h.jobs) /\ DOMAIN jobs = DOMAIN h.jobs
    <2>1. DOMAIN jobs = DOMAIN h.jobs
        BY <1>3, Zenon DEF JobsResolved
    <2> QED BY <1>5, <2>1, ListIs DEF GroupOK, JobsOK
<1>9. at \in here
    <2>1. here \in SUBSET (1..Len(h.jobs))
        BY <1>8
    <2> HIDE DEF here
    <2>2. Max(here) \in here
        BY <1>7, <1>8, <2>1, Merging!MaxIn, Zenon DEF Max, Merging!Max
    <2> QED BY <2>2, Zenon DEF here
<1> HIDE DEF at, made, last
<1>10. at \in DOMAIN h.jobs
    BY <1>8, <1>9
<1>11. configs[name] \in jobs[at].bpm
    BY <1>1, <1>6, <1>8, <1>10
<1>12. JobOK(h.jobs[at]) /\ <<h.jobs[at].release, h.jobs[at].name>> \in DOMAIN Specs
    BY <1>2, <1>4, <1>5, <1>10, SpecsThere DEF GroupOK, JobsOK
<1> QED BY <1>3, <1>5, <1>10, <1>11, <1>12, RenderedList, Zenon

-----------------------------------------------------------------------------
(* The pod template.                                                       *)

\* The order of the init containers; r is the position of template-render.
InitOrder(init, r) ==
    /\ IsList(init) /\ r \in 2..(Len(init) - 1)
    /\ init[1].name[1] = "container-run-copier"
    /\ \A i \in 2..(r - 1) : init[i].name[1] = "spec-copier"
    /\ init[r].name[1] = "template-render" /\ init[r + 1].name[1] = "create-dirs"
    /\ \A i \in (r + 2)..Len(init) : init[i].name[1] \in PreStarts

\* Every container but the one for the logs is named after a job.
NamedAfter(containers, jobs) ==
    \A i \in DOMAIN containers : containers[i].name = Logs \/ \E j \in DOMAIN jobs : containers[i].name[1] = jobs[j].name

LEMMA ListOfOne ==
    ASSUME NEW x PROVE IsList(<<x>>) /\ Len(<<x>>) = 1 /\ DOMAIN <<x>> = {1} /\ <<x>>[1] = x
<1> DEFINE one == <<x>>
<1>1. one \in Seq({x}) /\ Len(one) = 1 /\ one[1] = x
    OBVIOUS
<1> HIDE DEF one
<1>2. IsList(one) /\ DOMAIN one = 1..1
    BY <1>1, ListFrom
<1>3. 1..1 = {1}
    OBVIOUS
<1> QED BY <1>1, <1>2, <1>3, Zenon DEF one

LEMMA ListOfTwo ==
    ASSUME NEW x, NEW y PROVE IsList(<<x, y>>) /\ Len(<<x, y>>) = 2 /\ <<x, y>>[1] = x /\ <<x, y>>[2] = y
<1> DEFINE two == <<x, y>>
<1>1. two \in Seq({x, y}) /\ Len(two) = 2 /\ two[1] = x /\ two[2] = y
    OBVIOUS
<1> HIDE DEF two
<1>2. IsList(two)
    BY <1>1, ListFrom
<1> QED BY <1>1, <1>2, Zenon DEF two

LEMMA ListOfNone == IsList(<<>>) /\ DOMAIN <<>> = {}
<1>1. <<>> \in Seq({}) /\ DOMAIN <<>> = {}
    OBVIOUS
<1> QED BY <1>1, ListFrom

LEMMA InitOrdered ==
    ASSUME NEW first, first.name[1] = "container-run-copier",
           NEW copiers, IsList(copiers), \A i \in DOMAIN copiers : copiers[i].name[1] = "spec-copier",
           NEW render, render.name[1] = "template-render", NEW dirs, dirs.name[1] = "create-dirs",
           NEW a, IsList(a), \A i \in DOMAIN a : a[i].name[1] \in PreStarts,
           NEW b, IsList(b), \A i \in DOMAIN b : b[i].name[1] \in PreStarts
    PROVE  \E r : InitOrder(<<first>> \o copiers \o <<render, dirs>> \o a \o b, r)
<1> DEFINE one == <<first>>
           two == <<render, dirs>>
           n == Len(copiers)
           c1 == one \o copiers
           c2 == c1 \o two
           c3 == c2 \o a
           c4 == c3 \o b
<1>1. IsList(one) /\ Len(one) = 1 /\ DOMAIN one = {1} /\ one[1] = first
    BY ListOfOne, Zenon
<1>2. IsList(two) /\ Len(two) = 2 /\ two[1] = render /\ two[2] = dirs
    BY ListOfTwo, Zenon
<1> HIDE DEF one, two
<1>3. n \in Nat /\ DOMAIN copiers = 1..n /\ DOMAIN two = 1..2
    BY <1>2, ListIs
<1> HIDE DEF n
<1>4. IsList(c1) /\ Len(c1) = 1 + n /\ DOMAIN c1 = 1..(1 + n) /\ c1[1] = first /\ \A i \in 1..n : c1[1 + i] = copiers[i]
    <2>0. IsList(one) /\ IsList(copiers)
        BY <1>1
    <2>1. /\ IsList(c1) /\ Len(c1) = Len(one) + Len(copiers) /\ DOMAIN c1 = 1..(Len(one) + Len(copiers))
          /\ \A i \in DOMAIN one : c1[i] = one[i]
          /\ \A i \in DOMAIN copiers : c1[Len(one) + i] = copiers[i]
        BY <2>0, ConcatLen, ConcatLeft, ConcatRight
    <2> HIDE DEF c1
    <2> QED BY <1>1, <1>3, <2>1 DEF n
<1> HIDE DEF c1
<1>5. /\ IsList(c2) /\ Len(c2) = n + 3 /\ DOMAIN c2 = 1..(n + 3)
      /\ \A i \in 1..(1 + n) : c2[i] = c1[i]
      /\ c2[n + 2] = render /\ c2[n + 3] = dirs
    <2>1. /\ IsList(c2) /\ Len(c2) = (1 + n) + 2 /\ DOMAIN c2 = 1..((1 + n) + 2)
          /\ \A i \in 1..(1 + n) : c2[i] = c1[i]
          /\ \A i \in 1..2 : c2[(1 + n) + i] = two[i]
        <3>0. IsList(c1) /\ IsList(two)
            BY <1>2, <1>4
        <3>1. /\ IsList(c2) /\ Len(c2) = Len(c1) + Len(two) /\ DOMAIN c2 = 1..(Len(c1) + Len(two))
              /\ \A i \in DOMAIN c1 : c2[i] = c1[i]
              /\ \A i \in DOMAIN two : c2[Len(c1) + i] = two[i]
            BY <3>0, ConcatLen, ConcatLeft, ConcatRight
        <3> HIDE DEF c2
        <3>2. Len(c1) = 1 + n /\ Len(two) = 2 /\ DOMAIN c1 = 1..(1 + n) /\ DOMAIN two = 1..2
            BY <1>2, <1>3, <1>4
        <3> QED BY <3>1, <3>2, Zenon
    <2>2. (1 + n) + 2 = n + 3 /\ (1 + n) + 1 = n + 2 /\ 1 \in 1..2 /\ 2 \in 1..2
        BY <1>3
    <2>3. c2[(1 + n) + 1] = two[1] /\ c2[(1 + n) + 2] = two[2]
        BY <2>1, <2>2, Zenon
    <2> QED BY <1>2, <2>1, <2>2, <2>3, Zenon
<1> HIDE DEF c2
<1>6. /\ IsList(c3) /\ Len(c3) \in Nat /\ Len(c3) >= n + 3 /\ \A i \in 1..(n + 3) : c3[i] = c2[i]
      /\ \A i \in (n + 4)..Len(c3) : c3[i].name[1] \in PreStarts
    <2>1. /\ IsList(c3) /\ Len(c3) = (n + 3) + Len(a) /\ Len(a) \in Nat /\ DOMAIN a = 1..Len(a)
          /\ \A i \in 1..(n + 3) : c3[i] = c2[i]
          /\ \A i \in DOMAIN a : c3[(n + 3) + i] = a[i]
        <3>0. IsList(c2) /\ IsList(a)
            BY <1>5
        <3>1. /\ IsList(c3) /\ Len(c3) = Len(c2) + Len(a) /\ Len(a) \in Nat
              /\ \A i \in DOMAIN c2 : c3[i] = c2[i]
              /\ \A i \in DOMAIN a : c3[Len(c2) + i] = a[i]
            BY <3>0, ConcatLen, ConcatLeft, ConcatRight
        <3> HIDE DEF c3
        <3> QED BY <1>5, <3>1, ListIs
    <2> HIDE DEF c3
    <2>2. ASSUME NEW i \in (n + 4)..Len(c3) PROVE c3[i].name[1] \in PreStarts
        <3>1. i - (n + 3) \in DOMAIN a /\ (n + 3) + (i - (n + 3)) = i
            BY <1>3, <2>1
        <3>2. c3[i] = a[i - (n + 3)]
            BY <2>1, <3>1
        <3> QED BY <3>1, <3>2
    <2> QED BY <1>3, <2>1, <2>2
<1> HIDE DEF c3
<1>7. /\ IsList(c4) /\ Len(c4) \in Nat /\ Len(c4) >= n + 3 /\ \A i \in 1..(n + 3) : c4[i] = c3[i]
      /\ \A i \in (n + 4)..Len(c4) : c4[i].name[1] \in PreStarts
    <2> DEFINE k == Len(c3)
    <2>1. /\ IsList(c4) /\ Len(c4) = k + Len(b) /\ Len(b) \in Nat /\ DOMAIN b = 1..Len(b) /\ DOMAIN c3 = 1..k
          /\ \A i \in DOMAIN c3 : c4[i] = c3[i]
          /\ \A i \in DOMAIN b : c4[k + i] = b[i]
        BY <1>6, ListConcat, ListIs
    <2> HIDE DEF c4
    <2>2. ASSUME NEW i \in (n + 4)..Len(c4) PROVE c4[i].name[1] \in PreStarts
        <3>1. CASE i \in 1..k
            <4>1. c4[i] = c3[i] /\ i \in (n + 4)..Len(c3)
                BY <1>3, <2>1, <3>1
            <4> QED BY <1>6, <4>1
        <3>2. CASE i \notin 1..k
            <4>1. i - k \in DOMAIN b /\ k + (i - k) = i
                BY <1>3, <1>6, <2>1, <3>2
            <4>2. c4[i] = b[i - k]
                BY <2>1, <4>1
            <4> QED BY <4>1, <4>2
        <3> QED BY <3>1, <3>2
    <2>3. \A i \in 1..(n + 3) : i \in 1..k
        BY <1>3, <1>6
    <2> QED BY <1>3, <1>6, <2>1, <2>2, <2>3
<1> HIDE DEF c4
<1>8. InitOrder(c4, n + 2)
    <2>1. \A i \in 1..(n + 3) : c4[i] = c2[i]
        BY <1>6, <1>7
    <2>2. c4[1] = first /\ c4[n + 2] = render /\ c4[n + 3] = dirs
        BY <1>3, <1>4, <1>5, <2>1
    <2>3. ASSUME NEW i \in 2..((n + 2) - 1) PROVE c4[i].name[1] = "spec-copier"
        <3>1. i - 1 \in 1..n /\ 1 + (i - 1) = i /\ i \in 1..(1 + n) /\ i \in 1..(n + 3)
            BY <1>3
        <3>2. c4[i] = copiers[i - 1]
            BY <1>4, <1>5, <2>1, <3>1
        <3> QED BY <1>3, <3>1, <3>2
    <2>4. (n + 2) + 1 = n + 3 /\ (n + 2) + 2 = n + 4 /\ n + 2 \in 2..(Len(c4) - 1)
        BY <1>3, <1>7
    <2> QED BY <1>7, <2>2, <2>3, <2>4 DEF InitOrder
<1>9. c4 = <<first>> \o copiers \o <<render, dirs>> \o a \o b
    BY Zenon DEF c4, c3, c2, c1, one, two
<1> QED BY <1>8, <1>9, Zenon

LEMMA InitContainers ==
    ASSUME NEW g, JobsOK(g.jobs), NEW images, NEW configs, NEW defaults, NEW disks,
           \A i \in DOMAIN g.jobs : IsList(configs[g.jobs[i].name])
    PROVE  \E r : InitOrder(JobsToInitContainers(g, images, configs, defaults, disks), r)
<1> DEFINE jobs == g.jobs
           newRelease(i) == \A k \in 1..(i - 1) : jobs[k].release # jobs[i].release
           copier(i) == IF newRelease(i) THEN <<jobSpecCopierContainer(jobs[i].release, images[i])>> ELSE <<>>
           copierLists == [i \in DOMAIN jobs |-> copier(i)]
           copiers == FlattenSeq(copierLists)
           bosh == [i \in DOMAIN jobs |->
              boshPreStartInitContainer(jobs[i].name, images[i], defaults \o VolumeMounts(disks))]
           procs(i) == configs[jobs[i].name]
           hook(i, p) == IF p.prestart = "" THEN <<>>
                         ELSE <<bpmPreStartInitContainer(p, images[i],
                                 processVolumeMounts(defaults, disks, jobs[i].name, p))>>
           hooks(i) == [k \in DOMAIN procs(i) |-> hook(i, procs(i)[k])]
           bpmLists == [i \in DOMAIN jobs |-> FlattenSeq(hooks(i))]
           bpm == FlattenSeq(bpmLists)
<1>1. JobsToInitContainers(g, images, configs, defaults, disks)
         = <<containerRunCopier>> \o copiers \o <<templateRenderingContainer(g.name), createDirContainer>> \o bosh \o bpm
    BY Zenon DEF JobsToInitContainers
<1>2. IsList(jobs)
    BY DEF JobsOK
<1>3. IsList(copiers) /\ \A i \in DOMAIN copiers : copiers[i].name[1] = "spec-copier"
    <2>1. ASSUME NEW i PROVE IsList(copier(i)) /\ \A k \in DOMAIN copier(i) : copier(i)[k].name[1] = "spec-copier"
        <3> DEFINE x == jobSpecCopierContainer(jobs[i].release, images[i])
        <3>1. x.name[1] = "spec-copier"
            BY DEF jobSpecCopierContainer, Container
        <3> HIDE DEF x
        <3>2. IsList(<<x>>) /\ DOMAIN <<x>> = {1} /\ <<x>>[1] = x
            BY ListOfOne, Zenon
        <3>3. copier(i) = <<x>> \/ copier(i) = <<>>
            BY Zenon DEF x
        <3> HIDE DEF copier
        <3> QED BY <3>1, <3>2, <3>3, ListOfNone
    <2>2. copierLists = [i \in DOMAIN jobs |-> copierLists[i]] /\ \A i \in DOMAIN jobs : copierLists[i] = copier(i)
        BY Zenon
    <2> HIDE DEF copier, copierLists, jobs
    <2>3. IsList(copierLists) /\ DOMAIN copierLists = DOMAIN jobs
        BY <1>2, <2>2, ListLike, Zenon
    <2>4. \A i \in DOMAIN copierLists : IsList(copierLists[i])
        BY <2>1, <2>2, <2>3
    <2>5. /\ IsList(copiers)
          /\ \A k \in DOMAIN copiers : \E i \in DOMAIN copierLists : \E j \in DOMAIN copierLists[i] : copiers[k] = copierLists[i][j]
        BY <2>3, <2>4, FlattenList, Zenon
    <2> HIDE DEF copiers
    <2> QED BY <2>1, <2>2, <2>3, <2>5
<1>4. IsList(bosh) /\ \A i \in DOMAIN bosh : bosh[i].name[1] \in PreStarts
    <2> DEFINE pre(i) == boshPreStartInitContainer(jobs[i].name, images[i], defaults \o VolumeMounts(disks))
    <2>1. \A i : pre(i).name[1] = "bosh-pre-start"
        BY DEF boshPreStartInitContainer, Container
    <2>2. bosh = [i \in DOMAIN jobs |-> bosh[i]] /\ \A i \in DOMAIN jobs : bosh[i] = pre(i)
        BY Zenon
    <2> HIDE DEF pre, bosh, jobs
    <2>3. IsList(bosh) /\ DOMAIN bosh = DOMAIN jobs
        BY <1>2, <2>2, ListLike, Zenon
    <2> QED BY <2>1, <2>2, <2>3 DEF PreStarts
<1>5. IsList(bpm) /\ \A i \in DOMAIN bpm : bpm[i].name[1] \in PreStarts
    <2>1. ASSUME NEW i, NEW p
          PROVE  IsList(hook(i, p)) /\ \A k \in DOMAIN hook(i, p) : hook(i, p)[k].name[1] \in PreStarts
        <3> DEFINE x == bpmPreStartInitContainer(p, images[i], processVolumeMounts(defaults, disks, jobs[i].name, p))
        <3>1. x.name[1] = "bpm-pre-start"
            BY DEF bpmPreStartInitContainer, Container
        <3> HIDE DEF x
        <3>2. IsList(<<x>>) /\ DOMAIN <<x>> = {1} /\ <<x>>[1] = x
            BY ListOfOne, Zenon
        <3>3. hook(i, p) = <<x>> \/ hook(i, p) = <<>>
            BY Zenon DEF x
        <3> HIDE DEF hook
        <3> QED BY <3>1, <3>2, <3>3, ListOfNone DEF PreStarts
    <2> HIDE DEF hook
    <2>2. ASSUME NEW i \in DOMAIN jobs
          PROVE  /\ IsList(FlattenSeq(hooks(i)))
                 /\ \A k \in DOMAIN FlattenSeq(hooks(i)) : FlattenSeq(hooks(i))[k].name[1] \in PreStarts
        <3> DEFINE hs == hooks(i)
        <3>1. IsList(procs(i))
            OBVIOUS
        <3>2. hs = [k \in DOMAIN procs(i) |-> hs[k]] /\ \A k \in DOMAIN procs(i) : hs[k] = hook(i, procs(i)[k])
            BY Zenon
        <3> HIDE DEF hs, procs
        <3>3. IsList(hs) /\ DOMAIN hs = DOMAIN procs(i)
            BY <3>1, <3>2, ListLike, Zenon
        <3>4. \A k \in DOMAIN hs : IsList(hs[k])
            BY <2>1, <3>2, <3>3
        <3> DEFINE flat == FlattenSeq(hs)
        <3>5. /\ IsList(flat)
              /\ \A k \in DOMAIN flat : \E a \in DOMAIN hs : \E j \in DOMAIN hs[a] : flat[k] = hs[a][j]
            BY <3>3, <3>4, FlattenList, Zenon
        <3> HIDE DEF flat
        <3>6. IsList(flat) /\ \A k \in DOMAIN flat : flat[k].name[1] \in PreStarts
            BY <2>1, <3>2, <3>3, <3>5
        <3> QED BY <3>6, Zenon DEF flat, hs
    <2> HIDE DEF hooks
    <2>3. bpmLists = [i \in DOMAIN jobs |-> bpmLists[i]] /\ \A i \in DOMAIN jobs : bpmLists[i] = FlattenSeq(hooks(i))
        BY Zenon
    <2> HIDE DEF bpmLists, jobs
    <2>4. IsList(bpmLists) /\ DOMAIN bpmLists = DOMAIN jobs
        BY <1>2, <2>3, ListLike, Zenon
    <2>5. \A i \in DOMAIN bpmLists : IsList(bpmLists[i])
        BY <2>2, <2>3, <2>4, Zenon
    <2>6. /\ IsList(bpm)
          /\ \A k \in DOMAIN bpm : \E i \in DOMAIN bpmLists : \E j \in DOMAIN bpmLists[i] : bpm[k] = bpmLists[i][j]
        BY <2>4, <2>5, FlattenList, Zenon
    <2> HIDE DEF bpm
    <2>7. \A i \in DOMAIN bpmLists : \A j \in DOMAIN bpmLists[i] : bpmLists[i][j].name[1] \in PreStarts
        BY <2>2, <2>3, <2>4, Zenon
    <2> QED BY <2>6, <2>7
<1>6. /\ containerRunCopier.name[1] = "container-run-copier"
      /\ templateRenderingContainer(g.name).name[1] = "template-render" /\ createDirContainer.name[1] = "create-dirs"
    BY DEF containerRunCopier, templateRenderingContainer, createDirContainer, Container
<1> HIDE DEF copiers, bosh, bpm
<1>7. \E r : InitOrder(<<containerRunCopier>> \o copiers \o <<templateRenderingContainer(g.name), createDirContainer>>
                          \o bosh \o bpm, r)
    BY <1>3, <1>4, <1>5, <1>6, InitOrdered, Zenon
<1> QED BY <1>1, <1>7, Zenon

LEMMA ProcessContainers ==
    ASSUME NEW g, JobsOK(g.jobs), NEW images, NEW configs, NEW defaults, NEW disks,
           \A i \in DOMAIN g.jobs : IsList(configs[g.jobs[i].name])
    PROVE  NamedAfter(JobsToContainers(g, images, configs, defaults, disks), g.jobs)
<1> DEFINE jobs == g.jobs
           procs(i) == configs[jobs[i].name]
           container(i, k) == bpmProcessContainer(jobs[i].name, procs(i)[k], images[i],
                                 processVolumeMounts(defaults, disks, jobs[i].name, procs(i)[k]), k = 1)
           ofJob(i) == [k \in DOMAIN procs(i) |-> container(i, k)]
           lists == [i \in DOMAIN jobs |-> ofJob(i)]
           flat == FlattenSeq(lists)
           logs == IF g.logs THEN <<logsTailerContainer>> ELSE <<>>
           all == flat \o logs
<1>1. JobsToContainers(g, images, configs, defaults, disks) = all
    BY Zenon DEF JobsToContainers
<1>2. IsList(jobs)
    BY DEF JobsOK
<1>3. IsList(flat) /\ \A k \in DOMAIN flat : \E i \in DOMAIN jobs : flat[k].name[1] = jobs[i].name
    <2>1. \A i, k : container(i, k).name[1] = jobs[i].name
        BY DEF bpmProcessContainer, Container
    <2> HIDE DEF container
    <2>2. ASSUME NEW i \in DOMAIN jobs
          PROVE  IsList(ofJob(i)) /\ \A k \in DOMAIN ofJob(i) : ofJob(i)[k].name[1] = jobs[i].name
        <3> DEFINE cs == ofJob(i)
        <3>1. IsList(procs(i))
            OBVIOUS
        <3>2. cs = [k \in DOMAIN procs(i) |-> cs[k]] /\ \A k \in DOMAIN procs(i) : cs[k] = container(i, k)
            BY Zenon
        <3> HIDE DEF cs, procs
        <3>3. IsList(cs) /\ DOMAIN cs = DOMAIN procs(i)
            BY <3>1, <3>2, ListLike, Zenon
        <3>4. \A k \in DOMAIN cs : cs[k].name[1] = jobs[i].name
            BY <2>1, <3>2, <3>3, Zenon
        <3> QED BY <3>3, <3>4, Zenon DEF cs
    <2> HIDE DEF ofJob
    <2>3. lists = [i \in DOMAIN jobs |-> lists[i]] /\ \A i \in DOMAIN jobs : lists[i] = ofJob(i)
        BY Zenon
    <2> HIDE DEF lists, jobs
    <2>4. IsList(lists) /\ DOMAIN lists = DOMAIN jobs
        BY <1>2, <2>3, ListLike, Zenon
    <2>5. \A i \in DOMAIN lists : IsList(lists[i])
        BY <2>2, <2>3, <2>4, Zenon
    <2>6. /\ IsList(flat)
          /\ \A k \in DOMAIN flat : \E i \in DOMAIN lists : \E j \in DOMAIN lists[i] : flat[k] = lists[i][j]
        BY <2>4, <2>5, FlattenList, Zenon
    <2> HIDE DEF flat
    <2>7. \A i \in DOMAIN jobs : \A j \in DOMAIN lists[i] : lists[i][j].name[1] = jobs[i].name
        BY <2>2, <2>3, Zenon
    <2> QED BY <2>4, <2>6, <2>7
<1>4. IsList(logs) /\ \A k \in DOMAIN logs : logs[k].name = Logs
    <2> DEFINE x == logsTailerContainer
    <2>1. x.name = Logs
        BY DEF logsTailerContainer, Container, Logs
    <2> HIDE DEF x
    <2>2. IsList(<<x>>) /\ DOMAIN <<x>> = {1} /\ <<x>>[1] = x
        BY ListOfOne, Zenon
    <2>3. logs = <<x>> \/ logs = <<>>
        BY Zenon DEF x
    <2> HIDE DEF logs
    <2> QED BY <2>1, <2>2, <2>3, ListOfNone
<1> HIDE DEF flat, logs
<1>5. ToSet(all) \subseteq ToSet(flat) \cup ToSet(logs)
    BY <1>3, <1>4, ListJoin
<1> HIDE DEF all
<1>6. ASSUME NEW k \in DOMAIN all
      PROVE  all[k].name = Logs \/ \E j \in DOMAIN jobs : all[k].name[1] = jobs[j].name
    <2>1. all[k] \in ToSet(all)
        BY Zenon DEF ToSet
    <2>2. (\E j \in DOMAIN flat : all[k] = flat[j]) \/ (\E j \in DOMAIN logs : all[k] = logs[j])
        BY <1>5, <2>1 DEF ToSet
    <2> HIDE DEF jobs
    <2> QED BY <1>3, <1>4, <2>2
<1>7. NamedAfter(all, g.jobs)
    BY <1>6, Zenon DEF NamedAfter
<1> QED BY <1>1, <1>7, Zenon

\* What the resource of a group is.
ResourceOK(r, h) ==
    /\ h.jobs # <<>>
    /\ \E k \in DOMAIN r.template.init : InitOrder(r.template.init, k)
    /\ NamedAfter(r.template.containers, h.jobs)
    /\ h.lifecycle \in Services => r.replicas = h.instances /\ r.services = serviceToKubeServices(h)
    /\ h.lifecycle \notin Services => r.services = <<>>

LEMMA ResourceShape ==
    ASSUME NEW m, NEW d, ManifestOK(m), Shaped(d, m), NEW g, NEW configs, \A n \in DOMAIN configs : IsList(configs[n]),
           NEW r \in BPMResources(d, g, configs)
    PROVE  \E h \in ByName(d.groups, g) : ResourceOK(r, h)
<1>1. PICK h \in ByName(d.groups, g) :
          \E template \in Then(GenerateBPMDisks(h, configs), LAMBDA disks : podTemplate(d, h, configs, disks)) :
             r = IF h.lifecycle \in Services THEN serviceToExtendedSts(d, h, template)
                 ELSE errandToExtendedJob(d, h, template)
    BY DEF BPMResources
<1>2. PICK template \in Then(GenerateBPMDisks(h, configs), LAMBDA disks : podTemplate(d, h, configs, disks)) :
             r = IF h.lifecycle \in Services THEN serviceToExtendedSts(d, h, template)
                 ELSE errandToExtendedJob(d, h, template)
    BY <1>1
<1>3. PICK disks : template \in podTemplate(d, h, configs, disks)
    BY <1>2, Zenon DEF Then
<1> DEFINE defaults == VolumeMounts(GenerateDefaultDisks(h.name))
<1>4. /\ h.jobs # <<>>
      /\ \E images \in jobImages(d, h, configs) :
            /\ template.init = JobsToInitContainers(h, images, configs, defaults, disks)
            /\ template.containers = JobsToContainers(h, images, configs, defaults, disks)
    <2> DEFINE made(images) == [volumes |-> Volumes(GenerateDefaultDisks(h.name)) \o Volumes(disks),
                                init |-> JobsToInitContainers(h, images, configs, defaults, disks),
                                containers |-> JobsToContainers(h, images, configs, defaults, disks)]
    <2>1. h.jobs # <<>> /\ template \in {made(images) : images \in jobImages(d, h, configs)}
        BY <1>3, Zenon DEF podTemplate
    <2>2. PICK images \in jobImages(d, h, configs) : template = made(images)
        <3> HIDE DEF made
        <3> QED BY <2>1
    <2> QED BY <2>1, <2>2
<1>5. PICK images \in jobImages(d, h, configs) :
            /\ template.init = JobsToInitContainers(h, images, configs, defaults, disks)
            /\ template.containers = JobsToContainers(h, images, configs, defaults, disks)
    BY <1>4
<1>6. \A i \in DOMAIN h.jobs : IsList(configs[h.jobs[i].name])
    <2>1. \A i \in DOMAIN h.jobs : h.jobs[i].name \in DOMAIN configs
        BY Zenon DEF jobImages
    <2> QED BY <2>1
<1>7. JobsOK(h.jobs)
    <2>1. PICK i \in DOMAIN d.groups : h = d.groups[i]
        BY DEF ByName
    <2> QED BY <2>1 DEF Shaped, GroupLike, GroupOK
<1> HIDE DEF defaults
<1>8. (\E k : InitOrder(template.init, k)) /\ NamedAfter(template.containers, h.jobs)
    BY <1>5, <1>6, <1>7, InitContainers, ProcessContainers, Zenon
<1>9. /\ r.template = template
      /\ h.lifecycle \in Services => r.replicas = h.instances /\ r.services = serviceToKubeServices(h)
      /\ h.lifecycle \notin Services => r.services = <<>>
    BY <1>2 DEF serviceToExtendedSts, errandToExtendedJob
<1>10. \A k : InitOrder(template.init, k) => k \in DOMAIN template.init
    BY ListIs DEF InitOrder
<1>11. ResourceOK(r, h)
    BY <1>4, <1>8, <1>9, <1>10, Zenon DEF ResourceOK
<1> QED BY <1>11

-----------------------------------------------------------------------------
(* The inductive invariant.                                                *)

\* The commands: what is written was made from what was read.
IsOut(out) ==
    \/ out = Pending
    \/ out = [done |-> TRUE, value |-> {}]
    \/ \E v \in out.value : out = [done |-> TRUE, value |-> {v}]

GroupOutputs(g) ==
    /\ IsOut(resolved[g]) /\ IsOut(bpmInfo[g]) /\ IsOut(resource[g])
    /\ \A jobs \in resolved[g].value :
          \E d \in desired.value : JobsLinked(jobs, d) /\ \E h \in ByName(d.groups, g) : JobsResolved(jobs, h)
    /\ \A configs \in bpmInfo[g].value :
          desired.value # {} /\ \A n \in DOMAIN configs : IsList(configs[n])
    /\ \A r \in resource[g].value :
          \E d \in desired.value : \E h \in ByName(d.groups, g) : ResourceOK(r, h)

OutputsInv ==
    /\ manifest \in Manifests
    /\ IsOut(desired)
    /\ \A d \in desired.value :
          /\ Shaped(d, manifest)
          /\ Direct(manifest) => Delivered(d, manifest, [v \in manifest.variables |-> Files[v]])
    /\ resolved = [g \in GroupNames |-> resolved[g]]
    /\ bpmInfo = [g \in GroupNames |-> bpmInfo[g]]
    /\ resource = [g \in GroupNames |-> resource[g]]
    /\ \A g \in GroupNames : GroupOutputs(g)

\* What a pod depends on, which does not change once there is a pod.
There(s) == Deployed(s) /\ resolved[s[1]].value # {}
RenderAt(s) == CHOOSE r \in DOMAIN Template(s).init : InitOrder(Template(s).init, r)
Context(s) ==
    [there |-> There(s), group |-> GroupOf(manifest, s[1]), render |-> RenderAt(s),
     inits |-> Len(Template(s).init), jobs |-> JobsOf(s), index |-> specIndex(s), names |-> ContainerNames(s)]

ContextOK(c) ==
    /\ GroupOK(c.group)
    /\ c.inits \in Nat /\ c.render \in 2..(c.inits - 1)
    /\ Len(c.jobs) \in Nat \ {0} /\ DOMAIN c.jobs = 1..Len(c.jobs)
    /\ \A i \in DOMAIN c.jobs : c.jobs[i].instances = jobInstances(c.group)
    /\ \A n \in c.names : n = Logs \/ \E i \in DOMAIN c.jobs : n[1] = c.jobs[i].job.name

\* Files are rendered for one instance, the one with the pod's index.
RenderedFor(c, p) ==
    \A n \in DOMAIN p.rendered :
        /\ c.index + 1 \in DOMAIN jobInstances(c.group)
        /\ p.rendered[n].spec = jobInstances(c.group)[c.index + 1]

\* The first k jobs are rendered with the address that the pod has now.
RenderedNow(c, p, k) ==
    \A i \in 1..k :
        /\ c.jobs[i].job.name \in DOMAIN p.rendered
        /\ p.rendered[c.jobs[i].job.name].ip = p.ip

\* What an init container does is done once the next one runs; template-render
\* does it job by job.
PodUp(c, p) ==
    /\ p.at \in 1..c.inits
    /\ p.phase = "run" => p.at = c.inits /\ p.running \subseteq c.names
    /\ p.at > 1 => p.tools
    /\ (p.at > c.render + 1 \/ p.phase = "run") => p.dirs
    /\ p.job \in 0..(Len(c.jobs) - 1) /\ (p.at # c.render => p.job = 0)
    /\ RenderedNow(c, p, IF p.at > c.render THEN Len(c.jobs) ELSE p.job)
    /\ RenderedFor(c, p)

PodFields == {"phase", "at", "job", "ip", "tools", "specs", "rendered", "dirs", "running"}
PodOK(c, p, n) ==
    /\ DOMAIN p = PodFields
    /\ p.phase \in {"none", "init", "run"} /\ p.ip \in 1..(n + 1)
    /\ p.phase # "run" => p.running = {}
    /\ p.phase = "none" => p.job = 0 /\ p.rendered = <<>>
    /\ p.phase # "none" => c.there /\ PodUp(c, p)

PodsInv ==
    /\ faults \in 0..MaxFaults(manifest)
    /\ pods = [s \in Slots |-> pods[s]]
    /\ \A s \in Slots : PodOK(Context(s), pods[s], faults)

\* The instance that the pod of a slot is.
Own(s) == <<s[1], specIndex(s)>>
IdentityInv ==
    /\ identity = [s \in Slots |-> identity[s]]
    /\ \A s \in NamedSlots :
          /\ identity[s] # None =>
                There(s) /\ identity[s] = Own(s) /\ specIndex(s) + 1 \in DOMAIN jobInstances(GroupOf(manifest, s[1]))
          /\ pods[s].running \ {Logs} # {} => identity[s] # None

TailInv == TailTypeOK /\ DOMAIN tail = DOMAIN Off /\ tail.events \in Seq(LogDirs \cup LogFiles)

Inv == OutputsInv /\ PodsInv /\ IdentityInv /\ TailInv

-----------------------------------------------------------------------------
(* The outputs.                                                            *)

LEMMA OutputIs ==
    ASSUME NEW results, NEW out \in Output(results)
    PROVE  IsOut(out) /\ out.done = TRUE /\ out.value \subseteq results
BY DEF Output, IsOut

LEMMA TheIn ==
    ASSUME NEW out, out.value # {} PROVE The(out) \in out.value
BY DEF The

LEMMA OutputsInit ==
    ASSUME Init PROVE OutputsInv
<1>1. IsOut(Pending) /\ Pending.value = {}
    BY DEF Pending, IsOut
<1> HIDE DEF Pending
<1>2. \A g \in GroupNames : resolved[g] = Pending /\ bpmInfo[g] = Pending /\ resource[g] = Pending
    BY DEF Init
<1>3. \A g \in GroupNames : GroupOutputs(g)
    BY <1>1, <1>2 DEF GroupOutputs
<1>4. /\ resolved = [g \in GroupNames |-> resolved[g]] /\ bpmInfo = [g \in GroupNames |-> bpmInfo[g]]
      /\ resource = [g \in GroupNames |-> resource[g]]
    BY DEF Init
<1> QED BY <1>1, <1>3, <1>4 DEF OutputsInv, Init

\* Nothing else than the pipeline changes the outputs.
LEMMA OutputsStay ==
    ASSUME OutputsInv, UNCHANGED <<manifest, outputs>> PROVE OutputsInv'
<1>1. manifest' = manifest /\ desired' = desired /\ resolved' = resolved /\ bpmInfo' = bpmInfo /\ resource' = resource
    BY DEF outputs
<1>2. \A g \in GroupNames : GroupOutputs(g)'
    BY <1>1 DEF OutputsInv, GroupOutputs
<1> QED BY <1>1, <1>2 DEF OutputsInv

LEMMA InterpolateOutputs ==
    ASSUME OutputsInv, Interpolate PROVE OutputsInv'
<1> DEFINE files == [v \in manifest.variables |-> Files[v]]
<1>1. desired' \in Output(DesiredManifest(manifest, Secrets, files)) /\ ~desired.done
    BY DEF Interpolate
<1> HIDE DEF files
<1>2. IsOut(desired') /\ desired'.value \subseteq DesiredManifest(manifest, Secrets, files)
    BY <1>1, OutputIs
<1>3. ManifestOK(manifest)
    BY RenderingAssumption DEF OutputsInv
<1>4. \A d \in desired'.value : Shaped(d, manifest) /\ (Direct(manifest) => Delivered(d, manifest, files))
    <2>1. FilesOK(files)
        BY <1>3, RenderingAssumption DEF ManifestOK, FilesOK, files
    <2> QED BY <1>2, <1>3, <2>1, DesiredShape
<1>5. desired.value = {}
    BY <1>1 DEF OutputsInv, IsOut, Pending
<1>6. manifest' = manifest /\ resolved' = resolved /\ bpmInfo' = bpmInfo /\ resource' = resource
    BY DEF Interpolate
<1>7. ASSUME NEW g \in GroupNames PROVE GroupOutputs(g)'
    <2>1. GroupOutputs(g)
        BY DEF OutputsInv
    <2> QED BY <1>5, <1>6, <2>1 DEF GroupOutputs
<1> QED BY <1>2, <1>4, <1>6, <1>7 DEF OutputsInv, files

\* One output more.
LEMMA OtherGroups ==
    ASSUME OutputsInv, NEW g \in GroupNames, UNCHANGED <<manifest, desired>>, GroupOutputs(g)',
           \A x \in GroupNames \ {g} : /\ resolved'[x] = resolved[x] /\ bpmInfo'[x] = bpmInfo[x]
                                       /\ resource'[x] = resource[x],
           resolved' = [x \in GroupNames |-> resolved'[x]],
           bpmInfo' = [x \in GroupNames |-> bpmInfo'[x]],
           resource' = [x \in GroupNames |-> resource'[x]]
    PROVE  OutputsInv'
<1>1. ASSUME NEW x \in GroupNames \ {g} PROVE GroupOutputs(x)'
    <2>1. GroupOutputs(x)
        BY DEF OutputsInv
    <2> QED BY <2>1 DEF GroupOutputs
<1>2. \A x \in GroupNames : GroupOutputs(x)'
    BY <1>1
<1> QED BY <1>2 DEF OutputsInv

LEMMA ResolveOutputs ==
    ASSUME OutputsInv, NEW g \in GroupNames, ResolveGroup(g) PROVE OutputsInv'
<1>1. PICK out \in Output(resolveManifest(The(desired), g)) : resolved' = [resolved EXCEPT ![g] = out]
    BY DEF ResolveGroup, ResolvedProperties
<1>2. /\ resolved' = [x \in GroupNames |-> resolved'[x]] /\ resolved'[g] = out
      /\ \A x \in GroupNames \ {g} : resolved'[x] = resolved[x]
    <2>1. resolved = [x \in GroupNames |-> resolved[x]]
        BY DEF OutputsInv
    <2> QED BY <1>1, <2>1
<1>3. UNCHANGED <<manifest, desired, bpmInfo, resource>>
    BY DEF ResolveGroup
<1>4. IsOut(out) /\ out.value \subseteq resolveManifest(The(desired), g)
    BY OutputIs
<1>5. The(desired) \in desired.value
    BY TheIn DEF ResolveGroup
<1>6. ASSUME NEW jobs \in out.value
      PROVE  \E d \in desired.value : JobsLinked(jobs, d) /\ \E h \in ByName(d.groups, g) : JobsResolved(jobs, h)
    <2>1. \E h \in ByName(The(desired).groups, g) : JobsResolved(jobs, h)
        BY <1>4, ResolvedJobs
    <2>2. ManifestOK(manifest) /\ Shaped(The(desired), manifest)
        BY <1>5, RenderingAssumption DEF OutputsInv
    <2>3. JobsLinked(jobs, The(desired))
        BY <1>4, <2>2, ResolvedLinks
    <2> QED BY <1>5, <2>1, <2>3
<1>7. GroupOutputs(g)
    BY DEF OutputsInv
<1>8. GroupOutputs(g)'
    BY <1>2, <1>3, <1>4, <1>6, <1>7 DEF GroupOutputs
<1>9. bpmInfo' = [x \in GroupNames |-> bpmInfo'[x]] /\ resource' = [x \in GroupNames |-> resource'[x]]
    BY <1>3 DEF OutputsInv
<1> QED BY <1>2, <1>3, <1>8, <1>9, OtherGroups

LEMMA ConfigureOutputs ==
    ASSUME OutputsInv, NEW g \in GroupNames, ConfigureGroup(g) PROVE OutputsInv'
<1>1. PICK out \in Output(BPMConfigs(The(desired), g)) : bpmInfo' = [bpmInfo EXCEPT ![g] = out]
    BY DEF ConfigureGroup
<1>2. /\ bpmInfo' = [x \in GroupNames |-> bpmInfo'[x]] /\ bpmInfo'[g] = out
      /\ \A x \in GroupNames \ {g} : bpmInfo'[x] = bpmInfo[x]
    <2>1. bpmInfo = [x \in GroupNames |-> bpmInfo[x]]
        BY DEF OutputsInv
    <2> QED BY <1>1, <2>1
<1>3. UNCHANGED <<manifest, desired, resolved, resource>>
    BY DEF ConfigureGroup
<1>4. IsOut(out) /\ out.value \subseteq BPMConfigs(The(desired), g)
    BY OutputIs
<1>5. The(desired) \in desired.value
    BY TheIn DEF ConfigureGroup
<1>6. ManifestOK(manifest) /\ Shaped(The(desired), manifest)
    BY <1>5, RenderingAssumption DEF OutputsInv
<1>7. \A configs \in out.value : \A n \in DOMAIN configs : IsList(configs[n])
    BY <1>4, <1>6, ConfigLists
<1>8. GroupOutputs(g)
    BY DEF OutputsInv
<1>9. GroupOutputs(g)'
    BY <1>2, <1>3, <1>4, <1>5, <1>7, <1>8 DEF GroupOutputs
<1>10. resolved' = [x \in GroupNames |-> resolved'[x]] /\ resource' = [x \in GroupNames |-> resource'[x]]
    BY <1>3 DEF OutputsInv
<1> QED BY <1>2, <1>3, <1>9, <1>10, OtherGroups

LEMMA DeployOutputs ==
    ASSUME OutputsInv, NEW g \in GroupNames, DeployGroup(g) PROVE OutputsInv'
<1>1. PICK out \in Output(BPMResources(The(desired), g, The(bpmInfo[g]))) : resource' = [resource EXCEPT ![g] = out]
    BY DEF DeployGroup
<1>2. /\ resource' = [x \in GroupNames |-> resource'[x]] /\ resource'[g] = out
      /\ \A x \in GroupNames \ {g} : resource'[x] = resource[x]
    <2>1. resource = [x \in GroupNames |-> resource[x]]
        BY DEF OutputsInv
    <2> QED BY <1>1, <2>1
<1>3. UNCHANGED <<manifest, desired, resolved, bpmInfo>>
    BY DEF DeployGroup
<1>4. IsOut(out) /\ out.value \subseteq BPMResources(The(desired), g, The(bpmInfo[g]))
    BY OutputIs
<1>5. GroupOutputs(g)
    BY DEF OutputsInv
<1>6. The(bpmInfo[g]) \in bpmInfo[g].value
    BY TheIn DEF DeployGroup
<1>7. The(desired) \in desired.value /\ \A n \in DOMAIN The(bpmInfo[g]) : IsList(The(bpmInfo[g])[n])
    BY <1>5, <1>6, TheIn DEF GroupOutputs
<1>8. ManifestOK(manifest) /\ Shaped(The(desired), manifest)
    BY <1>7, RenderingAssumption DEF OutputsInv
<1>9. ASSUME NEW r \in out.value
      PROVE  \E d \in desired.value : \E h \in ByName(d.groups, g) : ResourceOK(r, h)
    <2>1. \E h \in ByName(The(desired).groups, g) : ResourceOK(r, h)
        BY <1>4, <1>7, <1>8, ResourceShape
    <2> QED BY <1>7, <2>1
<1>10. GroupOutputs(g)'
    BY <1>2, <1>3, <1>4, <1>5, <1>9 DEF GroupOutputs
<1>11. resolved' = [x \in GroupNames |-> resolved'[x]] /\ bpmInfo' = [x \in GroupNames |-> bpmInfo'[x]]
    BY <1>3 DEF OutputsInv
<1> QED BY <1>2, <1>3, <1>10, <1>11, OtherGroups

LEMMA PipelineOutputs ==
    ASSUME OutputsInv, Pipeline PROVE OutputsInv'
BY InterpolateOutputs, ResolveOutputs, ConfigureOutputs, DeployOutputs DEF Pipeline

-----------------------------------------------------------------------------
(* Slots and what their pods depend on.                                    *)

LEMMA SlotIs ==
    ASSUME NEW s \in Slots
    PROVE  /\ s[1] \in GroupNames /\ s[2] \in Nat /\ s[3] \in Nat /\ s = <<s[1], s[2], s[3]>>
<1>1. PICK m \in Manifests : \E i \in DOMAIN m.groups : s \in SlotsOf(m.groups[i])
    BY DEF Slots
<1>2. PICK i \in DOMAIN m.groups : s \in SlotsOf(m.groups[i])
    BY <1>1
<1> DEFINE g == m.groups[i]
<1>3. g.name \in GroupNames
    BY DEF GroupNames
<1> HIDE DEF g
<1>4. s \in {g.name} \X (0..(Len(Zones(g)) - 1)) \X (0..(g.instances - 1))
    BY <1>2 DEF SlotsOf, g
<1> QED BY <1>3, <1>4

LEMMA DeployedIs ==
    ASSUME NEW s \in Slots, Deployed(s)
    PROVE  LET g == GroupOf(manifest, s[1])
           IN /\ s[1] = g.name /\ s[2] \in 0..(Len(Zones(g)) - 1) /\ s[3] \in 0..(g.instances - 1)
              /\ g.lifecycle \in Services
<1> DEFINE g == GroupOf(manifest, s[1])
<1>1. s \in SlotsOf(g)
    BY DEF Deployed
<1> HIDE DEF g
<1>2. /\ s[1] = g.name /\ s[2] \in 0..(Len(Zones(g)) - 1) /\ s[3] \in 0..(g.instances - 1)
      /\ g.lifecycle \in Services
    BY <1>1 DEF SlotsOf
<1> QED BY <1>2 DEF g

\* The group of the user and of the desired manifest, the resource and the
\* resolved jobs of a slot belong together.
LEMMA ThereIs ==
    ASSUME OutputsInv, NEW s \in Slots, There(s)
    PROVE  /\ \E i \in DOMAIN manifest.groups : GroupOf(manifest, s[1]) = manifest.groups[i]
           /\ \E h : /\ GroupOK(h) /\ GroupLike(h, GroupOf(manifest, s[1])) /\ GroupOK(GroupOf(manifest, s[1]))
                     /\ ResourceOK(The(resource[s[1]]), h) /\ JobsResolved(JobsOf(s), h)
<1> DEFINE g == s[1]
<1>1. g \in GroupNames /\ GroupOutputs(g)
    BY SlotIs DEF OutputsInv
<1>2. The(resource[g]) \in resource[g].value /\ The(resolved[g]) \in resolved[g].value
    BY TheIn DEF There, Deployed
<1>3. PICK d \in desired.value : \E h \in ByName(d.groups, g) : ResourceOK(The(resource[g]), h)
    BY <1>1, <1>2 DEF GroupOutputs
<1>4. PICK h \in ByName(d.groups, g) : ResourceOK(The(resource[g]), h)
    BY <1>3
<1>5. PICK e \in desired.value : \E k \in ByName(e.groups, g) : JobsResolved(The(resolved[g]), k)
    BY <1>1, <1>2 DEF GroupOutputs
<1>6. PICK k \in ByName(e.groups, g) : JobsResolved(The(resolved[g]), k)
    BY <1>5
<1>7. d = e
    BY DEF OutputsInv, IsOut, Pending
<1>8. ManifestOK(manifest) /\ Shaped(d, manifest)
    BY RenderingAssumption DEF OutputsInv
<1>9. h = GroupOf(d, g) /\ k = GroupOf(d, g) /\ GroupLike(h, GroupOf(manifest, g)) /\ GroupOK(GroupOf(manifest, g))
    BY <1>4, <1>6, <1>7, <1>8, NamedGroup
<1>10. JobsOf(s) = The(resolved[g]) /\ GroupOK(h)
    BY <1>9 DEF JobsOf, GroupLike
<1>11. \E i \in DOMAIN manifest.groups : GroupOf(manifest, g) = manifest.groups[i]
    BY <1>4, <1>8, NamedGroup
<1> QED BY <1>4, <1>6, <1>9, <1>10, <1>11

LEMMA SameInstances ==
    ASSUME NEW h, NEW g, GroupLike(h, g) PROVE jobInstances(h) = jobInstances(g) /\ Zones(h) = Zones(g)
<1>1. h.name = g.name /\ h.instances = g.instances /\ h.azs = g.azs
    BY DEF GroupLike
<1>2. Zones(h) = Zones(g)
    BY <1>1, Zenon DEF Zones
<1> QED BY <1>1, <1>2, Zenon DEF jobInstances

LEMMA ContextIs ==
    ASSUME OutputsInv, NEW s \in Slots, There(s)
    PROVE  /\ ContextOK(Context(s)) /\ InitOrder(Template(s).init, RenderAt(s))
           /\ The(resource[s[1]]).replicas = GroupOf(manifest, s[1]).instances
<1> DEFINE g == GroupOf(manifest, s[1])
           r == The(resource[s[1]])
           jobs == JobsOf(s)
<1>1. PICK h : GroupOK(h) /\ GroupLike(h, g) /\ GroupOK(g) /\ ResourceOK(r, h) /\ JobsResolved(jobs, h)
    BY ThereIs
<1>2. r.replicas = g.instances
    <2>1. g.lifecycle \in Services
        BY DeployedIs DEF There
    <2> QED BY <1>1, <2>1 DEF GroupLike, ResourceOK
<1>3. InitOrder(Template(s).init, RenderAt(s))
    <2>1. Template(s) = r.template
        BY DEF Template
    <2>2. \E k \in DOMAIN Template(s).init : InitOrder(Template(s).init, k)
        BY <1>1, <2>1 DEF ResourceOK
    <2> QED BY <2>2, Zenon DEF RenderAt
<1>4. /\ jobs = [i \in DOMAIN h.jobs |-> jobs[i]] /\ IsList(h.jobs) /\ h.jobs # <<>>
      /\ \A i \in DOMAIN h.jobs : jobs[i].job = h.jobs[i] /\ jobs[i].instances = jobInstances(g)
    BY <1>1, SameInstances DEF JobsResolved, GroupOK, JobsOK, ResourceOK
<1>5. IsList(jobs) /\ DOMAIN jobs = DOMAIN h.jobs
    BY <1>4, ListLike, Zenon
<1>6. Len(jobs) \in Nat \ {0} /\ DOMAIN jobs = 1..Len(jobs)
    <2>1. Len(jobs) \in Nat /\ DOMAIN jobs = 1..Len(jobs) /\ DOMAIN h.jobs = 1..Len(h.jobs) /\ Len(h.jobs) \in Nat
        BY <1>4, <1>5, ListIs
    <2>2. Len(h.jobs) # 0
        BY <1>4, EmptySeq DEF IsList
    <2>3. 1 \in DOMAIN h.jobs
        BY <2>1, <2>2
    <2> QED BY <1>5, <2>1, <2>3
<1>7. \A n \in ContainerNames(s) : n = Logs \/ \E i \in DOMAIN jobs : n[1] = jobs[i].job.name
    <2>1. NamedAfter(Template(s).containers, h.jobs)
        BY <1>1 DEF ResourceOK, Template
    <2>2. \A i \in DOMAIN jobs : h.jobs[i].name = jobs[i].job.name
        BY <1>4, <1>5
    <2> HIDE DEF jobs, g, r
    <2> QED BY <1>5, <2>1, <2>2 DEF NamedAfter, ContainerNames
<1> DEFINE c == Context(s)
<1>8. /\ c.group = g /\ c.inits = Len(Template(s).init) /\ c.render = RenderAt(s) /\ c.jobs = jobs
      /\ c.names = ContainerNames(s)
    BY DEF Context
<1>9. Len(Template(s).init) \in Nat /\ RenderAt(s) \in 2..(Len(Template(s).init) - 1)
    BY <1>3, ListIs DEF InitOrder
<1> HIDE DEF c, g, jobs
<1>10. ContextOK(c)
    BY <1>1, <1>4, <1>5, <1>6, <1>7, <1>8, <1>9 DEF ContextOK
<1> QED BY <1>2, <1>3, <1>10 DEF c, g

-----------------------------------------------------------------------------
(* Pods.                                                                   *)

LEMMA ContextStays ==
    ASSUME NEW s, manifest' = manifest, resource'[s[1]] = resource[s[1]], resolved'[s[1]] = resolved[s[1]]
    PROVE  Context(s)' = Context(s) /\ (There(s)' <=> There(s)) /\ specIndex(s)' = specIndex(s)
<1>1. Template(s)' = Template(s) /\ JobsOf(s)' = JobsOf(s) /\ specIndex(s)' = specIndex(s)
    BY DEF Template, JobsOf, specIndex
<1>2. There(s)' = There(s)
    BY DEF There, Deployed
<1>3. RenderAt(s)' = RenderAt(s) /\ ContainerNames(s)' = ContainerNames(s)
    BY <1>1, Zenon DEF RenderAt, ContainerNames
<1> QED BY <1>1, <1>2, <1>3, Zenon DEF Context

\* What a pod depends on is there before the pod and is not written again.
LEMMA PipelineStays ==
    ASSUME OutputsInv, NEW s \in Slots, There(s), Pipeline
    PROVE  manifest' = manifest /\ resource'[s[1]] = resource[s[1]] /\ resolved'[s[1]] = resolved[s[1]]
<1>1. s[1] \in GroupNames /\ GroupOutputs(s[1])
    BY SlotIs DEF OutputsInv
<1>2. resource[s[1]].done /\ resolved[s[1]].done
    <2>1. \A out : IsOut(out) /\ out.value # {} => out.done
        BY DEF IsOut, Pending
    <2> QED BY <1>1, <2>1 DEF GroupOutputs, There, Deployed
<1>3. DOMAIN resource = GroupNames /\ DOMAIN resolved = GroupNames
    BY Zenon DEF OutputsInv
<1>4. CASE Interpolate
    BY <1>4 DEF Interpolate
<1>5. ASSUME NEW g \in GroupNames, ResolveGroup(g)
      PROVE  manifest' = manifest /\ resource'[s[1]] = resource[s[1]] /\ resolved'[s[1]] = resolved[s[1]]
    <2>1. g # s[1]
        BY <1>2, <1>5 DEF ResolveGroup
    <2> QED BY <1>1, <1>3, <1>5, <2>1 DEF ResolveGroup
<1>6. ASSUME NEW g \in GroupNames, ConfigureGroup(g)
      PROVE  manifest' = manifest /\ resource'[s[1]] = resource[s[1]] /\ resolved'[s[1]] = resolved[s[1]]
    BY <1>6 DEF ConfigureGroup
<1>7. ASSUME NEW g \in GroupNames, DeployGroup(g)
      PROVE  manifest' = manifest /\ resource'[s[1]] = resource[s[1]] /\ resolved'[s[1]] = resolved[s[1]]
    <2>1. g # s[1]
        BY <1>2, <1>7 DEF DeployGroup
    <2> QED BY <1>1, <1>3, <1>7, <2>1 DEF DeployGroup
<1> QED BY <1>4, <1>5, <1>6, <1>7 DEF Pipeline

\* A slot without a pod does not depend on anything.
LEMMA NoPodOK ==
    ASSUME NEW c, NEW p, NEW n, PodOK(c, p, n), p.phase = "none", NEW d PROVE PodOK(d, p, n)
BY DEF PodOK

LEMMA ThereOf ==
    ASSUME NEW s, Context(s).there PROVE There(s)
BY DEF Context

LEMMA PipelinePods ==
    ASSUME OutputsInv, PodsInv, Pipeline PROVE PodsInv'
<1>1. manifest' = manifest /\ pods' = pods /\ faults' = faults
    BY DEF Pipeline, Interpolate, ResolveGroup, ConfigureGroup, DeployGroup
<1>2. ASSUME NEW s \in Slots PROVE PodOK(Context(s), pods[s], faults)'
    <2> DEFINE p == pods[s]
    <2>1. PodOK(Context(s), p, faults)
        BY DEF PodsInv
    <2>2. CASE p.phase = "none"
        <3>1. PodOK(Context(s)', p, faults)
            BY <2>1, <2>2, NoPodOK
        <3> QED BY <1>1, <3>1, Zenon
    <2>3. CASE p.phase # "none"
        <3>1. There(s)
            BY <2>1, <2>3, ThereOf DEF PodOK
        <3>2. Context(s)' = Context(s)
            BY <3>1, PipelineStays, ContextStays, Zenon
        <3> QED BY <1>1, <2>1, <3>2, Zenon
    <2> QED BY <2>2, <2>3
<1> QED BY <1>1, <1>2 DEF PodsInv

\* One pod changes.
LEMMA OtherPods ==
    ASSUME PodsInv, UNCHANGED <<manifest, outputs>>, faults' \in 0..MaxFaults(manifest), faults' >= faults,
           MaxFaults(manifest) \in Nat,
           NEW s \in Slots, NEW p, pods' = [pods EXCEPT ![s] = p], PodOK(Context(s), p, faults')
    PROVE  PodsInv'
<1>1. manifest' = manifest /\ resource' = resource /\ resolved' = resolved
    BY DEF outputs
<1>2. \A x \in Slots : Context(x)' = Context(x)
    BY <1>1, ContextStays
<1>3. /\ pods' = [x \in Slots |-> pods'[x]] /\ pods'[s] = p
      /\ \A x \in Slots \ {s} : pods'[x] = pods[x]
    <2>1. pods = [x \in Slots |-> pods[x]]
        BY DEF PodsInv
    <2> QED BY <2>1
<1>4. ASSUME NEW x \in Slots \ {s} PROVE PodOK(Context(x), pods[x], faults')
    <2>1. PodOK(Context(x), pods[x], faults)
        BY DEF PodsInv
    <2>2. faults \in Nat /\ faults' \in Nat
        BY DEF PodsInv
    <2> QED BY <2>1, <2>2 DEF PodOK
<1>5. \A x \in Slots : PodOK(Context(x)', pods'[x], faults')
    BY <1>2, <1>3, <1>4, Zenon
<1> QED BY <1>1, <1>3, <1>5 DEF PodsInv

\* Which init container runs says how far the pod is.
LEMMA InitAt ==
    ASSUME NEW init, NEW r, InitOrder(init, r), NEW at \in 1..Len(init)
    PROVE  /\ init[at].name[1] = "container-run-copier" => at < r
           /\ init[at].name[1] = "spec-copier" => at \in 2..(r - 1)
           /\ init[at].name[1] = "template-render" => at = r
           /\ init[at].name[1] = "create-dirs" => at = r + 1
           /\ init[at].name[1] \in PreStarts => at > r + 1
<1> DEFINE kind == init[at].name[1]
<1>1. Len(init) \in Nat /\ r \in Nat /\ r >= 2 /\ r < Len(init)
    BY ListIs DEF InitOrder
<1>2. at = 1 => kind = "container-run-copier"
    BY DEF InitOrder
<1>3. at \in 2..(r - 1) => kind = "spec-copier"
    BY DEF InitOrder
<1>4. at = r => kind = "template-render"
    BY DEF InitOrder
<1>5. at = r + 1 => kind = "create-dirs"
    BY DEF InitOrder
<1>6. at > r + 1 => kind \in PreStarts
    BY <1>1 DEF InitOrder
<1>7. at = 1 \/ at \in 2..(r - 1) \/ at = r \/ at = r + 1 \/ at > r + 1
    BY <1>1
<1> HIDE DEF kind
<1>8. /\ kind = "container-run-copier" => at < r
      /\ kind = "spec-copier" => at \in 2..(r - 1)
      /\ kind = "template-render" => at = r
      /\ kind = "create-dirs" => at = r + 1
      /\ kind \in PreStarts => at > r + 1
    BY <1>1, <1>2, <1>3, <1>4, <1>5, <1>6, <1>7 DEF PreStarts
<1> QED BY <1>8 DEF kind

\* An init container has succeeded.
LEMMA NextInit ==
    ASSUME NEW c, ContextOK(c), c.there, NEW n \in Nat, NEW p, DOMAIN p = PodFields, p.phase = "init",
           p.ip \in 1..(n + 1), p.running = {}, p.at \in 1..c.inits, p.job = 0, p.tools, RenderedFor(c, p),
           p.at > c.render => p.dirs, p.at >= c.render => RenderedNow(c, p, Len(c.jobs)),
           NEW q, q = IF p.at = c.inits THEN [p EXCEPT !.phase = "run"] ELSE [p EXCEPT !.at = @ + 1]
    PROVE  PodOK(c, q, n)
<1>1. c.inits \in Nat /\ c.render \in 2..(c.inits - 1) /\ Len(c.jobs) \in Nat \ {0}
    BY DEF ContextOK
<1>2. /\ DOMAIN q = PodFields /\ q.rendered = p.rendered /\ q.ip = p.ip /\ q.job = 0 /\ q.tools
      /\ q.running = {} /\ q.dirs = p.dirs
      /\ q.phase = (IF p.at = c.inits THEN "run" ELSE "init") /\ q.at = (IF p.at = c.inits THEN p.at ELSE p.at + 1)
    BY DEF PodFields
<1>3. RenderedFor(c, q)
    BY <1>2, Zenon DEF RenderedFor
<1>4. q.at > c.render => RenderedNow(c, q, Len(c.jobs))
    <2>1. q.at > c.render => p.at >= c.render
        BY <1>1, <1>2
    <2> QED BY <1>2, <2>1, Zenon DEF RenderedNow
<1>5. ~(q.at > c.render) => RenderedNow(c, q, q.job)
    BY <1>2 DEF RenderedNow
<1>6. RenderedNow(c, q, IF q.at > c.render THEN Len(c.jobs) ELSE q.job)
    BY <1>4, <1>5, Zenon
<1>7. (q.at > c.render + 1 \/ q.phase = "run") => q.dirs
    BY <1>1, <1>2
<1>8. PodUp(c, q)
    <2>1. /\ q.at \in 1..c.inits /\ (q.phase = "run" => q.at = c.inits /\ q.running \subseteq c.names)
          /\ q.job \in 0..(Len(c.jobs) - 1)
        BY <1>1, <1>2
    <2> QED BY <1>2, <1>3, <1>6, <1>7, <2>1, Zenon DEF PodUp
<1> QED BY <1>2, <1>8 DEF PodOK

\* A pod that runs an init container.
LEMMA InInit ==
    ASSUME OutputsInv, PodsInv, NEW s \in Slots, pods[s].phase = "init"
    PROVE  LET c == Context(s)
               p == pods[s]
           IN /\ There(s) /\ c.there /\ ContextOK(c) /\ faults \in Nat
              /\ DOMAIN p = PodFields /\ p.ip \in 1..(faults + 1) /\ p.running = {} /\ PodUp(c, p)
              /\ InitOrder(Template(s).init, c.render) /\ c.inits = Len(Template(s).init) /\ c.jobs = JobsOf(s)
              /\ c.index = specIndex(s)
<1> DEFINE c == Context(s)
           p == pods[s]
<1>1. PodOK(c, p, faults) /\ faults \in Nat
    BY DEF PodsInv
<1>2. /\ c.there = There(s) /\ c.render = RenderAt(s) /\ c.inits = Len(Template(s).init) /\ c.jobs = JobsOf(s)
      /\ c.index = specIndex(s)
    BY DEF Context
<1> HIDE DEF c
<1>3. c.there /\ PodUp(c, p) /\ DOMAIN p = PodFields /\ p.ip \in 1..(faults + 1) /\ p.running = {}
    BY <1>1 DEF PodOK
<1>4. There(s)
    BY <1>2, <1>3
<1>5. ContextOK(c) /\ InitOrder(Template(s).init, RenderAt(s))
    BY <1>4, ContextIs DEF c
<1> QED BY <1>1, <1>2, <1>3, <1>4, <1>5 DEF c

LEMMA FaultBound ==
    ASSUME OutputsInv, PodsInv
    PROVE  MaxFaults(manifest) \in Nat /\ faults \in 0..MaxFaults(manifest) /\ faults \in Nat /\ faults >= faults
BY RenderingAssumption DEF OutputsInv, PodsInv

\* The step of an init container: the pod with what it has done.
LEMMA InitStep ==
    ASSUME OutputsInv, PodsInv, UNCHANGED <<manifest, outputs, faults>>, NEW s \in Slots, NEW q,
           pods' = [pods EXCEPT ![s] = Finished(s, q)], pods[s].phase = "init",
           DOMAIN q = PodFields, q.phase = "init", q.ip \in 1..(faults + 1), q.running = {},
           q.at \in 1..Context(s).inits, q.job = 0, q.tools, RenderedFor(Context(s), q),
           q.at > Context(s).render => q.dirs,
           q.at >= Context(s).render => RenderedNow(Context(s), q, Len(Context(s).jobs))
    PROVE  PodsInv'
<1> DEFINE c == Context(s)
           f == Finished(s, q)
<1>1. c.there /\ ContextOK(c) /\ c.inits = Len(Template(s).init)
    BY InInit
<1>2. f = IF q.at = c.inits THEN [q EXCEPT !.phase = "run"] ELSE [q EXCEPT !.at = @ + 1]
    BY <1>1 DEF Finished
<1> HIDE DEF c, f
<1>3. PodOK(c, f, faults)
    BY <1>1, <1>2, FaultBound, NextInit DEF c
<1>4. faults' \in 0..MaxFaults(manifest) /\ faults' >= faults /\ MaxFaults(manifest) \in Nat /\ PodOK(Context(s), f, faults')
    BY <1>3, FaultBound DEF c
<1>5. pods' = [pods EXCEPT ![s] = f] /\ UNCHANGED <<manifest, outputs>>
    BY DEF f
<1> QED BY <1>4, <1>5, OtherPods

LEMMA CreatePods ==
    ASSUME OutputsInv, PodsInv, NEW s \in Slots, CreatePod(s) PROVE PodsInv'
<1> DEFINE p == pods[s]
           q == [p EXCEPT !.phase = "init", !.at = 1]
           c == Context(s)
<1>1. p.phase = "none" /\ There(s) /\ UNCHANGED <<manifest, outputs, faults>>
    BY DEF CreatePod, There
<1>2. pods' = [pods EXCEPT ![s] = q]
    BY DEF CreatePod
<1>3. PodOK(c, p, faults)
    BY DEF PodsInv
<1>4. c.there /\ ContextOK(c)
    <2>1. c.there = There(s)
        BY DEF Context
    <2> QED BY <1>1, <2>1, ContextIs
<1> HIDE DEF c
<1>5. DOMAIN p = PodFields /\ p.job = 0 /\ p.rendered = <<>> /\ p.running = {} /\ p.ip \in 1..(faults + 1)
    BY <1>1, <1>3 DEF PodOK
<1>6. /\ DOMAIN q = PodFields /\ q.phase = "init" /\ q.at = 1 /\ q.job = 0 /\ q.rendered = <<>> /\ q.running = {}
      /\ q.ip = p.ip
    BY <1>5 DEF PodFields
<1> HIDE DEF q
<1>7. c.inits \in Nat /\ c.render \in 2..(c.inits - 1) /\ Len(c.jobs) \in Nat \ {0}
    BY <1>4 DEF ContextOK
<1>8. RenderedFor(c, q) /\ RenderedNow(c, q, 0)
    BY <1>6 DEF RenderedFor, RenderedNow
<1>9. PodUp(c, q)
    BY <1>6, <1>7, <1>8 DEF PodUp
<1>10. PodOK(c, q, faults)
    BY <1>4, <1>5, <1>6, <1>9 DEF PodOK
<1>11. faults' \in 0..MaxFaults(manifest) /\ faults' >= faults /\ MaxFaults(manifest) \in Nat /\ PodOK(Context(s), q, faults')
    BY <1>1, <1>10, FaultBound DEF c
<1> QED BY <1>1, <1>2, <1>11, OtherPods

LEMMA CopyContainerRunPods ==
    ASSUME OutputsInv, PodsInv, NEW s \in Slots, CopyContainerRun(s) PROVE PodsInv'
<1> DEFINE p == pods[s]
           q == [p EXCEPT !.tools = TRUE]
           c == Context(s)
<1>1. p.phase = "init" /\ UNCHANGED <<manifest, outputs, faults>> /\ pods' = [pods EXCEPT ![s] = Finished(s, q)]
    BY DEF CopyContainerRun, RunsInit
<1>2. /\ ContextOK(c) /\ DOMAIN p = PodFields /\ p.ip \in 1..(faults + 1) /\ p.running = {} /\ PodUp(c, p)
      /\ InitOrder(Template(s).init, c.render) /\ c.inits = Len(Template(s).init)
    BY <1>1, InInit
<1> HIDE DEF c
<1>3. p.at \in 1..c.inits /\ (p.at # c.render => p.job = 0) /\ RenderedFor(c, p)
    BY <1>2 DEF PodUp
<1>4. p.at < c.render
    BY <1>2, <1>3, InitAt DEF CopyContainerRun, RunsInit, InitContainer
<1>5. /\ DOMAIN q = PodFields /\ q.phase = "init" /\ q.at = p.at /\ q.job = p.job /\ q.rendered = p.rendered
      /\ q.running = {} /\ q.ip = p.ip /\ q.tools
    BY <1>1, <1>2 DEF PodFields
<1> HIDE DEF q
<1>6. RenderedFor(c, q)
    BY <1>3, <1>5, Zenon DEF RenderedFor
<1>7. c.render \in Nat /\ c.inits \in Nat
    BY <1>2 DEF ContextOK
<1>8. q.job = 0 /\ ~(q.at > c.render) /\ ~(q.at >= c.render) /\ q.ip \in 1..(faults + 1) /\ q.at \in 1..c.inits
    BY <1>2, <1>3, <1>4, <1>5, <1>7
<1> QED BY <1>1, <1>5, <1>6, <1>8, InitStep DEF c

LEMMA CopySpecsPods ==
    ASSUME OutputsInv, PodsInv, NEW s \in Slots, CopySpecs(s) PROVE PodsInv'
<1> DEFINE p == pods[s]
           q == [p EXCEPT !.specs = @ \cup {InitContainer(s).name[2]}]
           c == Context(s)
<1>1. p.phase = "init" /\ UNCHANGED <<manifest, outputs, faults>> /\ pods' = [pods EXCEPT ![s] = Finished(s, q)]
    BY DEF CopySpecs, RunsInit
<1>2. /\ ContextOK(c) /\ DOMAIN p = PodFields /\ p.ip \in 1..(faults + 1) /\ p.running = {} /\ PodUp(c, p)
      /\ InitOrder(Template(s).init, c.render) /\ c.inits = Len(Template(s).init)
    BY <1>1, InInit
<1> HIDE DEF c
<1>3. p.at \in 1..c.inits /\ (p.at # c.render => p.job = 0) /\ RenderedFor(c, p) /\ (p.at > 1 => p.tools)
    BY <1>2 DEF PodUp
<1>4. p.at \in 2..(c.render - 1)
    BY <1>2, <1>3, InitAt DEF CopySpecs, RunsInit, InitContainer
<1>5. /\ DOMAIN q = PodFields /\ q.phase = "init" /\ q.at = p.at /\ q.job = p.job /\ q.rendered = p.rendered
      /\ q.running = {} /\ q.ip = p.ip /\ q.tools = p.tools
    BY <1>1, <1>2 DEF PodFields
<1> HIDE DEF q
<1>6. RenderedFor(c, q)
    BY <1>3, <1>5, Zenon DEF RenderedFor
<1>7. c.render \in Nat /\ c.inits \in Nat
    BY <1>2 DEF ContextOK
<1>8. /\ q.job = 0 /\ q.tools /\ ~(q.at > c.render) /\ ~(q.at >= c.render)
      /\ q.ip \in 1..(faults + 1) /\ q.at \in 1..c.inits
    BY <1>2, <1>3, <1>4, <1>5, <1>7
<1> QED BY <1>1, <1>5, <1>6, <1>8, InitStep DEF c

\* template-render renders for the instance with the pod's index.
LEMMA RenderingInstance ==
    ASSUME NEW s, NEW c, ContextOK(c), c.index = specIndex(s), NEW k \in DOMAIN c.jobs,
           NEW instance \in CurrentInstance(s, c.jobs[k])
    PROVE  c.index + 1 \in DOMAIN jobInstances(c.group) /\ instance = jobInstances(c.group)[c.index + 1]
<1> DEFINE all == jobInstances(c.group)
           n == c.group.instances * Len(Zones(c.group))
<1>1. c.jobs[k].instances = all /\ GroupOK(c.group)
    BY DEF ContextOK
<1>2. n \in Nat /\ DOMAIN all = 1..n /\ \A i \in DOMAIN all : all[i].index = i - 1
    BY <1>1, Instances
<1> HIDE DEF all, n
<1>3. PICK i \in DOMAIN all : all[i].index = c.index /\ instance = all[i]
    BY <1>1 DEF CurrentInstance
<1>4. i \in Nat /\ c.index = i - 1
    BY <1>2, <1>3
<1>5. c.index + 1 = i
    BY <1>4
<1> QED BY <1>3, <1>5 DEF all

LEMMA RenderPods ==
    ASSUME OutputsInv, PodsInv, NEW s \in Slots, RenderJobTemplates(s) PROVE PodsInv'
<1> DEFINE p == pods[s]
           c == Context(s)
           k == p.job + 1
           job == JobsOf(s)[k]
           files(i) == [n \in DOMAIN p.rendered \cup {job.job.name} |->
                          IF n = job.job.name THEN [spec |-> i, ip |-> p.ip] ELSE p.rendered[n]]
           pod(i) == [p EXCEPT !.rendered = files(i), !.job = k]
<1>1. p.phase = "init" /\ UNCHANGED <<manifest, outputs, faults>>
    BY DEF RenderJobTemplates, RunsInit
<1>2. PICK i \in CurrentInstance(s, job) :
          pods' = [pods EXCEPT ![s] = IF k < Len(JobsOf(s)) THEN pod(i) ELSE Finished(s, [pod(i) EXCEPT !.job = 0])]
    BY Zenon DEF RenderJobTemplates
<1>3. /\ c.there /\ ContextOK(c) /\ DOMAIN p = PodFields /\ p.ip \in 1..(faults + 1) /\ p.running = {} /\ PodUp(c, p)
      /\ InitOrder(Template(s).init, c.render) /\ c.inits = Len(Template(s).init) /\ c.jobs = JobsOf(s)
      /\ c.index = specIndex(s)
    BY <1>1, InInit
<1> HIDE DEF c
<1>4. /\ p.at \in 1..c.inits /\ p.job \in 0..(Len(c.jobs) - 1) /\ RenderedFor(c, p) /\ (p.at > 1 => p.tools)
      /\ RenderedNow(c, p, IF p.at > c.render THEN Len(c.jobs) ELSE p.job)
    BY <1>3 DEF PodUp
<1>5. c.render \in 2..(c.inits - 1) /\ c.inits \in Nat /\ Len(c.jobs) \in Nat \ {0} /\ DOMAIN c.jobs = 1..Len(c.jobs)
    BY <1>3 DEF ContextOK
<1>6. p.at = c.render
    BY <1>3, <1>4, InitAt DEF RenderJobTemplates, RunsInit, InitContainer
<1>7. k \in DOMAIN c.jobs /\ k \in 1..Len(c.jobs) /\ p.job = k - 1 /\ job = c.jobs[k]
    BY <1>3, <1>4, <1>5
<1>8. RenderedNow(c, p, k - 1)
    BY <1>4, <1>5, <1>6, <1>7
<1> DEFINE f == files(i)
           q == pod(i)
<1>9. /\ c.index + 1 \in DOMAIN jobInstances(c.group) /\ i = jobInstances(c.group)[c.index + 1]
    <2> HIDE DEF k, job
    <2>1. i \in CurrentInstance(s, c.jobs[k])
        BY <1>7, Zenon
    <2>2. ContextOK(c) /\ c.index = specIndex(s) /\ k \in DOMAIN c.jobs
        BY <1>3, <1>7
    <2> HIDE DEF p
    <2> QED BY <2>1, <2>2, RenderingInstance
<1>10. /\ DOMAIN f = DOMAIN p.rendered \cup {job.job.name} /\ f[job.job.name] = [spec |-> i, ip |-> p.ip]
       /\ \A n \in DOMAIN p.rendered : f[n] = [spec |-> i, ip |-> p.ip] \/ f[n] = p.rendered[n]
    BY Zenon
<1> HIDE DEF files
<1>11. /\ DOMAIN q = PodFields /\ q.phase = "init" /\ q.at = p.at /\ q.job = k /\ q.rendered = f
       /\ q.running = {} /\ q.ip = p.ip /\ q.tools = p.tools
    BY <1>1, <1>3 DEF PodFields
<1> HIDE DEF f, pod, k, job
<1>12. \A n \in DOMAIN f : /\ (n = job.job.name \/ n \in DOMAIN p.rendered)
                           /\ f[n] = [spec |-> i, ip |-> p.ip] \/ (n \in DOMAIN p.rendered /\ f[n] = p.rendered[n])
    BY <1>10, Zenon
<1>13. ASSUME NEW x, x.rendered = f PROVE RenderedFor(c, x)
    <2>1. \A n \in DOMAIN f : f[n].spec = i
        <3>1. \A n \in DOMAIN p.rendered : p.rendered[n].spec = i
            BY <1>4, <1>9 DEF RenderedFor
        <3> QED BY <1>12, <3>1
    <2> QED BY <1>9, <1>13, <2>1 DEF RenderedFor
<1>14. ASSUME NEW x, x.rendered = f, x.ip = p.ip PROVE RenderedNow(c, x, k)
    <2> SUFFICES ASSUME NEW j \in 1..k
                 PROVE  c.jobs[j].job.name \in DOMAIN f /\ f[c.jobs[j].job.name].ip = p.ip
        BY <1>14, Zenon DEF RenderedNow
    <2>1. CASE j = k
        BY <1>7, <1>10, <2>1
    <2>2. CASE j # k
        <3>1. j \in 1..(k - 1)
            BY <1>7, <2>2
        <3>2. c.jobs[j].job.name \in DOMAIN p.rendered /\ p.rendered[c.jobs[j].job.name].ip = p.ip
            BY <1>8, <3>1 DEF RenderedNow
        <3> QED BY <1>10, <3>2
    <2> QED BY <2>1, <2>2
<1>15. CASE k < Len(JobsOf(s))
    <2>1. pods' = [pods EXCEPT ![s] = q]
        BY <1>2, <1>15, Zenon
    <2>2. RenderedFor(c, q) /\ RenderedNow(c, q, k)
        BY <1>11, <1>13, <1>14
    <2>3. PodUp(c, q)
        BY <1>3, <1>4, <1>5, <1>6, <1>7, <1>11, <1>15, <2>2 DEF PodUp
    <2>4. PodOK(c, q, faults)
        BY <1>3, <1>11, <2>3 DEF PodOK
    <2>5. faults' \in 0..MaxFaults(manifest) /\ faults' >= faults /\ MaxFaults(manifest) \in Nat
          /\ PodOK(Context(s), q, faults')
        BY <1>1, <2>4, FaultBound DEF c
    <2> QED BY <1>1, <2>1, <2>5, OtherPods
<1>16. CASE ~(k < Len(JobsOf(s)))
    <2> DEFINE x == [q EXCEPT !.job = 0]
    <2>1. pods' = [pods EXCEPT ![s] = Finished(s, x)]
        BY <1>2, <1>16, Zenon
    <2>2. /\ DOMAIN x = PodFields /\ x.phase = "init" /\ x.at = p.at /\ x.job = 0 /\ x.rendered = f
          /\ x.running = {} /\ x.ip = p.ip /\ x.tools = p.tools
        BY <1>11 DEF PodFields
    <2> HIDE DEF x
    <2>3. k = Len(c.jobs)
        BY <1>3, <1>5, <1>7, <1>16
    <2>4. RenderedFor(c, x) /\ RenderedNow(c, x, Len(c.jobs))
        BY <1>13, <1>14, <2>2, <2>3
    <2>5. x.tools /\ ~(x.at > c.render) /\ x.at \in 1..c.inits /\ x.ip \in 1..(faults + 1)
        BY <1>3, <1>4, <1>5, <1>6, <2>2
    <2> QED BY <1>1, <2>1, <2>2, <2>4, <2>5, InitStep DEF c
<1> QED BY <1>15, <1>16

LEMMA CreateDirsPods ==
    ASSUME OutputsInv, PodsInv, NEW s \in Slots, CreateDirs(s) PROVE PodsInv'
<1> DEFINE p == pods[s]
           q == [p EXCEPT !.dirs = TRUE]
           c == Context(s)
<1>1. p.phase = "init" /\ UNCHANGED <<manifest, outputs, faults>> /\ pods' = [pods EXCEPT ![s] = Finished(s, q)]
    BY DEF CreateDirs, RunsInit
<1>2. /\ ContextOK(c) /\ DOMAIN p = PodFields /\ p.ip \in 1..(faults + 1) /\ p.running = {} /\ PodUp(c, p)
      /\ InitOrder(Template(s).init, c.render) /\ c.inits = Len(Template(s).init)
    BY <1>1, InInit
<1> HIDE DEF c
<1>3. /\ p.at \in 1..c.inits /\ (p.at # c.render => p.job = 0) /\ RenderedFor(c, p) /\ (p.at > 1 => p.tools)
      /\ RenderedNow(c, p, IF p.at > c.render THEN Len(c.jobs) ELSE p.job)
    BY <1>2 DEF PodUp
<1>4. p.at = c.render + 1
    BY <1>2, <1>3, InitAt DEF CreateDirs, RunsInit, InitContainer
<1>5. /\ DOMAIN q = PodFields /\ q.phase = "init" /\ q.at = p.at /\ q.job = p.job /\ q.rendered = p.rendered
      /\ q.running = {} /\ q.ip = p.ip /\ q.tools = p.tools /\ q.dirs
    BY <1>1, <1>2 DEF PodFields
<1> HIDE DEF q
<1>6. c.render \in Nat /\ c.render > 0 /\ c.inits \in Nat
    BY <1>2 DEF ContextOK
<1>7. RenderedFor(c, q) /\ RenderedNow(c, q, Len(c.jobs))
    <2>1. p.at > c.render
        BY <1>4, <1>6
    <2> QED BY <1>3, <1>5, <2>1, Zenon DEF RenderedFor, RenderedNow
<1>8. q.job = 0 /\ q.tools /\ q.ip \in 1..(faults + 1) /\ q.at \in 1..c.inits
    BY <1>2, <1>3, <1>4, <1>5, <1>6
<1> QED BY <1>1, <1>5, <1>7, <1>8, InitStep DEF c

LEMMA PreStartPods ==
    ASSUME OutputsInv, PodsInv, NEW s \in Slots, PreStart(s) PROVE PodsInv'
<1> DEFINE p == pods[s]
           c == Context(s)
<1>1. p.phase = "init" /\ UNCHANGED <<manifest, outputs, faults>> /\ pods' = [pods EXCEPT ![s] = Finished(s, p)]
    BY DEF PreStart, RunsInit
<1>2. /\ ContextOK(c) /\ DOMAIN p = PodFields /\ p.ip \in 1..(faults + 1) /\ p.running = {} /\ PodUp(c, p)
      /\ InitOrder(Template(s).init, c.render) /\ c.inits = Len(Template(s).init)
    BY <1>1, InInit
<1> HIDE DEF c
<1>3. /\ p.at \in 1..c.inits /\ (p.at # c.render => p.job = 0) /\ RenderedFor(c, p) /\ (p.at > 1 => p.tools)
      /\ RenderedNow(c, p, IF p.at > c.render THEN Len(c.jobs) ELSE p.job)
      /\ (p.at > c.render + 1 => p.dirs)
    BY <1>2 DEF PodUp
<1>4. p.at > c.render + 1
    BY <1>2, <1>3, InitAt DEF PreStart, RunsInit, InitContainer
<1>5. c.render \in Nat /\ c.render > 0 /\ c.inits \in Nat
    BY <1>2 DEF ContextOK
<1>6. p.job = 0 /\ p.tools /\ p.dirs /\ p.at > c.render /\ RenderedNow(c, p, Len(c.jobs))
    BY <1>3, <1>4, <1>5
<1> QED BY <1>1, <1>2, <1>3, <1>6, InitStep DEF c

\* A slot that has a pod.
LEMMA IsUp ==
    ASSUME OutputsInv, PodsInv, NEW s \in Slots, pods[s].phase # "none"
    PROVE  LET c == Context(s)
               p == pods[s]
           IN /\ There(s) /\ c.there /\ ContextOK(c) /\ faults \in Nat
              /\ DOMAIN p = PodFields /\ p.ip \in 1..(faults + 1) /\ p.phase \in {"init", "run"} /\ PodUp(c, p)
              /\ (p.phase # "run" => p.running = {})
              /\ c.inits = Len(Template(s).init) /\ c.jobs = JobsOf(s) /\ c.names = ContainerNames(s)
              /\ c.index = specIndex(s) /\ c.group = GroupOf(manifest, s[1])
<1> DEFINE c == Context(s)
           p == pods[s]
<1>1. PodOK(c, p, faults) /\ faults \in Nat
    BY DEF PodsInv
<1>2. /\ c.there = There(s) /\ c.inits = Len(Template(s).init) /\ c.jobs = JobsOf(s) /\ c.names = ContainerNames(s)
      /\ c.index = specIndex(s) /\ c.group = GroupOf(manifest, s[1])
    BY DEF Context
<1> HIDE DEF c
<1>3. /\ c.there /\ PodUp(c, p) /\ DOMAIN p = PodFields /\ p.ip \in 1..(faults + 1)
      /\ p.phase \in {"init", "run"} /\ (p.phase # "run" => p.running = {})
    BY <1>1 DEF PodOK
<1>4. There(s)
    BY <1>2, <1>3
<1>5. ContextOK(c)
    BY <1>4, ContextIs DEF c
<1> QED BY <1>1, <1>2, <1>3, <1>4, <1>5 DEF c

LEMMA StartPods ==
    ASSUME OutputsInv, PodsInv, NEW s \in Slots, StartContainer(s) PROVE PodsInv'
<1> DEFINE p == pods[s]
           c == Context(s)
<1>1. PICK x \in ContainerNames(s) \ p.running : pods' = [pods EXCEPT ![s].running = @ \cup {x}]
    BY DEF StartContainer
<1>2. p.phase = "run" /\ UNCHANGED <<manifest, outputs, faults>>
    BY DEF StartContainer
<1> DEFINE q == [p EXCEPT !.running = @ \cup {x}]
<1>3. pods' = [pods EXCEPT ![s] = q]
    BY <1>1
<1>4. /\ c.there /\ ContextOK(c) /\ DOMAIN p = PodFields /\ p.ip \in 1..(faults + 1) /\ PodUp(c, p)
      /\ c.names = ContainerNames(s)
    BY <1>2, IsUp
<1> HIDE DEF c
<1>5. /\ DOMAIN q = PodFields /\ q.phase = "run" /\ q.at = p.at /\ q.job = p.job /\ q.rendered = p.rendered
      /\ q.running = p.running \cup {x} /\ q.ip = p.ip /\ q.tools = p.tools /\ q.dirs = p.dirs
    BY <1>2, <1>4 DEF PodFields
<1> HIDE DEF q
<1>6. RenderedFor(c, q)
    BY <1>4, <1>5, Zenon DEF RenderedFor, PodUp
<1>7. RenderedNow(c, q, IF q.at > c.render THEN Len(c.jobs) ELSE q.job)
    BY <1>4, <1>5, Zenon DEF RenderedNow, PodUp
<1>8. q.running \subseteq c.names
    BY <1>1, <1>2, <1>4, <1>5 DEF PodUp
<1>9. PodUp(c, q)
    BY <1>2, <1>4, <1>5, <1>6, <1>7, <1>8 DEF PodUp
<1>10. PodOK(c, q, faults)
    BY <1>4, <1>5, <1>9 DEF PodOK
<1>11. faults' \in 0..MaxFaults(manifest) /\ faults' >= faults /\ MaxFaults(manifest) \in Nat
       /\ PodOK(Context(s), q, faults')
    BY <1>2, <1>10, FaultBound DEF c
<1> QED BY <1>2, <1>3, <1>11, OtherPods

LEMMA FailBound ==
    ASSUME OutputsInv, PodsInv, CanFail
    PROVE  /\ MaxFaults(manifest) \in Nat /\ faults \in Nat /\ faults' = faults + 1
           /\ faults' \in 0..MaxFaults(manifest) /\ faults' >= faults
BY FaultBound DEF CanFail

LEMMA RenderFailsPods ==
    ASSUME OutputsInv, PodsInv, NEW s \in Slots, RenderFails(s) PROVE PodsInv'
<1> DEFINE p == pods[s]
           q == [p EXCEPT !.job = 0]
           c == Context(s)
<1>1. p.phase = "init" /\ UNCHANGED <<manifest, outputs>> /\ pods' = [pods EXCEPT ![s] = q] /\ CanFail
    BY DEF RenderFails, RunsInit
<1>2. /\ c.there /\ ContextOK(c) /\ DOMAIN p = PodFields /\ p.ip \in 1..(faults + 1) /\ p.running = {} /\ PodUp(c, p)
      /\ InitOrder(Template(s).init, c.render) /\ c.inits = Len(Template(s).init)
    BY <1>1, InInit
<1> HIDE DEF c
<1>3. /\ p.at \in 1..c.inits /\ RenderedFor(c, p) /\ (p.at > 1 => p.tools)
    BY <1>2 DEF PodUp
<1>4. p.at = c.render
    BY <1>2, <1>3, InitAt DEF RenderFails, RunsInit, InitContainer
<1>5. /\ DOMAIN q = PodFields /\ q.phase = "init" /\ q.at = p.at /\ q.job = 0 /\ q.rendered = p.rendered
      /\ q.running = {} /\ q.ip = p.ip /\ q.tools = p.tools
    BY <1>1, <1>2 DEF PodFields
<1> HIDE DEF q
<1>6. c.render \in 2..(c.inits - 1) /\ c.inits \in Nat /\ Len(c.jobs) \in Nat \ {0}
    BY <1>2 DEF ContextOK
<1>7. RenderedFor(c, q)
    BY <1>3, <1>5, Zenon DEF RenderedFor
<1>8. RenderedNow(c, q, 0)
    BY DEF RenderedNow
<1>9. PodUp(c, q)
    BY <1>3, <1>4, <1>5, <1>6, <1>7, <1>8 DEF PodUp
<1>10. /\ faults' \in 0..MaxFaults(manifest) /\ faults' >= faults /\ MaxFaults(manifest) \in Nat
       /\ faults \in Nat /\ faults' = faults + 1
    BY <1>1, FailBound
<1>11. PodOK(c, q, faults')
    BY <1>2, <1>5, <1>9, <1>10 DEF PodOK
<1> QED BY <1>1, <1>10, <1>11, OtherPods DEF c

LEMMA ContainerFailsPods ==
    ASSUME OutputsInv, PodsInv, NEW s \in Slots, ContainerFails(s) PROVE PodsInv'
<1> DEFINE p == pods[s]
           c == Context(s)
<1>1. PICK x \in p.running : pods' = [pods EXCEPT ![s].running = @ \ {x}]
    BY DEF ContainerFails
<1>2. UNCHANGED <<manifest, outputs>> /\ CanFail
    BY DEF ContainerFails
<1> DEFINE q == [p EXCEPT !.running = @ \ {x}]
<1>3. pods' = [pods EXCEPT ![s] = q]
    BY <1>1
<1>4. p.phase = "run"
    BY <1>1 DEF PodsInv, PodOK
<1>5. /\ c.there /\ ContextOK(c) /\ DOMAIN p = PodFields /\ p.ip \in 1..(faults + 1) /\ PodUp(c, p)
    BY <1>4, IsUp
<1> HIDE DEF c
<1>6. /\ DOMAIN q = PodFields /\ q.phase = "run" /\ q.at = p.at /\ q.job = p.job /\ q.rendered = p.rendered
      /\ q.running = p.running \ {x} /\ q.ip = p.ip /\ q.tools = p.tools /\ q.dirs = p.dirs
    BY <1>4, <1>5 DEF PodFields
<1> HIDE DEF q
<1>7. RenderedFor(c, q)
    BY <1>5, <1>6, Zenon DEF RenderedFor, PodUp
<1>8. RenderedNow(c, q, IF q.at > c.render THEN Len(c.jobs) ELSE q.job)
    BY <1>5, <1>6, Zenon DEF RenderedNow, PodUp
<1>9. PodUp(c, q)
    BY <1>4, <1>5, <1>6, <1>7, <1>8 DEF PodUp
<1>10. /\ faults' \in 0..MaxFaults(manifest) /\ faults' >= faults /\ MaxFaults(manifest) \in Nat
       /\ faults \in Nat /\ faults' = faults + 1
    BY <1>2, FailBound
<1>11. PodOK(c, q, faults')
    BY <1>5, <1>6, <1>9, <1>10 DEF PodOK
<1> QED BY <1>2, <1>3, <1>10, <1>11, OtherPods DEF c

LEMMA SandboxFailsPods ==
    ASSUME OutputsInv, PodsInv, NEW s \in Slots, SandboxFails(s) PROVE PodsInv'
<1> DEFINE p == pods[s]
           q == [p EXCEPT !.phase = "init", !.at = 1, !.job = 0, !.ip = @ + 1, !.running = {}]
           c == Context(s)
<1>1. p.phase # "none" /\ UNCHANGED <<manifest, outputs>> /\ pods' = [pods EXCEPT ![s] = q] /\ CanFail
    BY DEF SandboxFails
<1>2. /\ c.there /\ ContextOK(c) /\ DOMAIN p = PodFields /\ p.ip \in 1..(faults + 1) /\ PodUp(c, p)
    BY <1>1, IsUp
<1> HIDE DEF c
<1>3. /\ DOMAIN q = PodFields /\ q.phase = "init" /\ q.at = 1 /\ q.job = 0 /\ q.rendered = p.rendered
      /\ q.running = {} /\ q.ip = p.ip + 1
    BY <1>2 DEF PodFields
<1> HIDE DEF q
<1>4. c.render \in 2..(c.inits - 1) /\ c.inits \in Nat /\ Len(c.jobs) \in Nat \ {0}
    BY <1>2 DEF ContextOK
<1>5. RenderedFor(c, q)
    BY <1>2, <1>3, Zenon DEF RenderedFor, PodUp
<1>6. RenderedNow(c, q, 0)
    BY DEF RenderedNow
<1>7. PodUp(c, q)
    BY <1>3, <1>4, <1>5, <1>6 DEF PodUp
<1>8. /\ faults' \in 0..MaxFaults(manifest) /\ faults' >= faults /\ MaxFaults(manifest) \in Nat
      /\ faults \in Nat /\ faults' = faults + 1
    BY <1>1, FailBound
<1>9. PodOK(c, q, faults')
    BY <1>2, <1>3, <1>7, <1>8 DEF PodOK
<1> QED BY <1>1, <1>8, <1>9, OtherPods DEF c

LEMMA NoPodIs ==
    ASSUME NEW ip, NEW n \in Nat, ip \in 1..(n + 1), NEW c PROVE PodOK(c, NoPod(ip), n)
<1> DEFINE q == NoPod(ip)
<1>1. DOMAIN q = PodFields
    BY DEF NoPod, PodFields
<1>2. q.phase = "none" /\ q.ip = ip /\ q.running = {} /\ q.job = 0 /\ q.rendered = <<>>
    BY DEF NoPod
<1> HIDE DEF q
<1> QED BY <1>1, <1>2 DEF PodOK, q

LEMMA PodFailsPods ==
    ASSUME OutputsInv, PodsInv, NEW s \in Slots, PodFails(s) PROVE PodsInv'
<1> DEFINE p == pods[s]
           q == NoPod(p.ip + 1)
<1>1. p.phase # "none" /\ UNCHANGED <<manifest, outputs>> /\ pods' = [pods EXCEPT ![s] = q] /\ CanFail
    BY DEF PodFails
<1>2. p.ip \in 1..(faults + 1)
    BY <1>1, IsUp
<1>3. /\ faults' \in 0..MaxFaults(manifest) /\ faults' >= faults /\ MaxFaults(manifest) \in Nat
      /\ faults \in Nat /\ faults' = faults + 1
    BY <1>1, FailBound
<1>4. faults' \in Nat /\ p.ip + 1 \in 1..(faults' + 1)
    BY <1>2, <1>3
<1>5. PodOK(Context(s), q, faults')
    BY <1>4, NoPodIs
<1> HIDE DEF q
<1> QED BY <1>1, <1>3, <1>5, OtherPods

LEMMA SamePods ==
    ASSUME PodsInv, UNCHANGED <<manifest, outputs, pods, faults>> PROVE PodsInv'
<1>1. manifest' = manifest /\ resource' = resource /\ resolved' = resolved
    BY DEF outputs
<1>2. \A x \in Slots : Context(x)' = Context(x)
    BY <1>1, ContextStays
<1>3. \A x \in Slots : PodOK(Context(x)', pods[x], faults)
    BY <1>2, Zenon DEF PodsInv
<1>4. \A x \in Slots : PodOK(Context(x), pods[x], faults)'
    BY <1>3
<1> QED BY <1>1, <1>4 DEF PodsInv

LEMMA PodsInit ==
    ASSUME Init PROVE PodsInv
<1>1. \A s \in Slots : pods[s] = NoPod(1)
    BY Zenon DEF Init
<1>2. faults = 0 /\ MaxFaults(manifest) \in Nat
    BY RenderingAssumption DEF Init
<1>3. \A s \in Slots : PodOK(Context(s), pods[s], faults)
    BY <1>1, <1>2, NoPodIs
<1>4. pods = [s \in Slots |-> pods[s]]
    <2>1. pods = [s \in Slots |-> NoPod(1)]
        BY DEF Init
    <2> QED BY <2>1
<1> QED BY <1>2, <1>3, <1>4 DEF PodsInv

LEMMA PodsNext ==
    ASSUME OutputsInv, PodsInv, [Next]_vars PROVE PodsInv'
<1>1. CASE Pipeline
    BY <1>1, PipelinePods
<1>2. ASSUME NEW s \in Slots, PodStep(s) PROVE PodsInv'
    BY <1>2, CreatePods, CopyContainerRunPods, CopySpecsPods, RenderPods, CreateDirsPods, PreStartPods, StartPods
       DEF PodStep
<1>3. ASSUME NEW s \in Slots, WriteLog(s) \/ TailLogs(s) PROVE PodsInv'
    BY <1>3, SamePods DEF WriteLog, TailLogs
<1>4. ASSUME NEW s \in Slots, Fault(s) PROVE PodsInv'
    BY <1>4, RenderFailsPods, ContainerFailsPods, SandboxFailsPods, PodFailsPods DEF Fault
<1>5. CASE UNCHANGED vars
    BY <1>5, SamePods DEF vars
<1> QED BY <1>1, <1>2, <1>3, <1>4, <1>5 DEF Next

LEMMA OutputsNext ==
    ASSUME OutputsInv, [Next]_vars PROVE OutputsInv'
<1>1. CASE Pipeline
    BY <1>1, PipelineOutputs
<1>2. ASSUME NEW s \in Slots, PodStep(s) \/ WriteLog(s) \/ TailLogs(s) \/ Fault(s) PROVE OutputsInv'
    <2>1. UNCHANGED <<manifest, outputs>>
        BY <1>2 DEF PodStep, CreatePod, CopyContainerRun, CopySpecs, RenderJobTemplates, CreateDirs, PreStart,
                    StartContainer, WriteLog, TailLogs, Fault, RenderFails, ContainerFails, SandboxFails, PodFails
    <2> QED BY <2>1, OutputsStay
<1>3. CASE UNCHANGED vars
    BY <1>3, OutputsStay DEF vars
<1> QED BY <1>1, <1>2, <1>3 DEF Next

-----------------------------------------------------------------------------
(* The log tailer.                                                         *)

TailFields == {"phase", "list", "listed", "watched", "walk", "found", "events", "tailed", "owed"}

\* The log tailer's record, field by field.
TailOK(t) ==
    /\ DOMAIN t = TailFields
    /\ t.phase \in {"off", "listing", "watching", "tailing"}
    /\ t.list \subseteq {Root} \cup LogDirs /\ t.listed \subseteq {Root} \cup LogDirs
    /\ t.watched \subseteq {Root} \cup LogDirs /\ t.walk \subseteq {Root} \cup LogDirs
    /\ t.found \subseteq LogFiles /\ t.tailed \subseteq LogFiles /\ t.owed \subseteq LogFiles
    /\ t.events \in Seq(LogDirs \cup LogFiles)

LEMMA OffDomain == DOMAIN Off = TailFields
BY DEF Off, TailFields

LEMMA TailParts ==
    ASSUME TailInv PROVE disk \subseteq Everything /\ TailOK(tail)
BY OffDomain DEF TailInv, TailTypeOK, TailOK

\* What TailInv says of a record that is in order.
LEMMA TailFacts ==
    ASSUME NEW t, TailOK(t)
    PROVE  /\ DOMAIN t = DOMAIN Off
           /\ \A i \in DOMAIN t.events : t.events[i] \in LogDirs \cup LogFiles
           /\ t.list \cup t.listed \cup t.watched \cup t.walk \subseteq {Root} \cup LogDirs
           /\ t.found \cup t.tailed \cup t.owed \subseteq LogFiles
<1>1. DOMAIN t = DOMAIN Off
    BY OffDomain DEF TailOK
<1>2. \A i \in DOMAIN t.events : t.events[i] \in LogDirs \cup LogFiles
    BY DEF TailOK
<1>3. t.list \cup t.listed \cup t.watched \cup t.walk \subseteq {Root} \cup LogDirs
    BY DEF TailOK
<1>4. t.found \cup t.tailed \cup t.owed \subseteq LogFiles
    BY DEF TailOK
<1> QED BY <1>1, <1>2, <1>3, <1>4

LEMMA TailPrimed ==
    ASSUME disk' \subseteq Everything, TailOK(tail') PROVE TailInv'
BY TailFacts DEF TailInv, TailTypeOK, TailOK

LEMMA OffOK == TailOK(Off)
<1>1. /\ Off.phase = "off" /\ Off.list = {} /\ Off.listed = {} /\ Off.watched = {} /\ Off.walk = {}
      /\ Off.found = {} /\ Off.events = <<>> /\ Off.tailed = {} /\ Off.owed = {}
    BY DEF Off
<1>2. <<>> \in Seq(LogDirs \cup LogFiles)
    OBVIOUS
<1> QED BY <1>1, <1>2, OffDomain DEF TailOK

\* A file or a directory appears.
LEMMA AppearsTail ==
    ASSUME TailInv, NEW x \in LogDirs \cup LogFiles, Appears(x) PROVE TailInv'
<1> DEFINE e == Events(x)
           o == tail.owed \cup (ToSet(e) \cap LogFiles)
<1>1. disk \subseteq Everything /\ TailOK(tail)
    BY TailParts
<1>2. e \in Seq(LogDirs \cup LogFiles)
    BY <1>1 DEF Events, TailOK
<1>3. o \subseteq LogFiles
    BY <1>1 DEF TailOK
<1>4. tail' = [tail EXCEPT !.events = e, !.owed = o] /\ disk' \subseteq Everything
    BY <1>1 DEF Appears, Everything
<1> HIDE DEF e, o
<1>5. /\ DOMAIN tail' = TailFields /\ tail'.events = e /\ tail'.owed = o
      /\ \A f \in TailFields \ {"events", "owed"} : tail'[f] = tail[f]
    BY <1>1, <1>4 DEF TailOK, TailFields
<1>6. TailOK(tail')
    BY <1>1, <1>2, <1>3, <1>5 DEF TailOK, TailFields
<1> QED BY <1>4, <1>6, TailPrimed

LEMMA StepTail ==
    ASSUME TailInv, TailStep PROVE TailInv'
<1>1. disk \subseteq Everything /\ TailOK(tail)
    BY TailParts
<1>2. UNCHANGED disk
    BY DEF TailStep, TailLogsFromDir, getSubDirs, StartGoroutines, AddWatch, StartTailing, WalkDir,
           addExistingFiles, HandleEvent
<1> SUFFICES TailOK(tail')
    BY <1>1, <1>2, TailPrimed
<1>3. /\ DOMAIN tail = TailFields /\ DOMAIN Off = TailFields
      /\ tail.events \in Seq(LogDirs \cup LogFiles)
    BY <1>1, OffDomain DEF TailOK
<1>4. CASE TailLogsFromDir
    <2>1. /\ tail' = [Off EXCEPT !.phase = "listing", !.list = {Root}, !.owed = disk \cap LogFiles]
        BY <1>4 DEF TailLogsFromDir
    <2>2. /\ DOMAIN tail' = TailFields /\ tail'.phase = "listing" /\ tail'.list = {Root} /\ tail'.owed = disk \cap LogFiles
          /\ \A f \in TailFields \ {"phase", "list", "owed"} : tail'[f] = Off[f]
        BY <1>3, <2>1 DEF TailFields
    <2> QED BY <2>2, OffOK DEF TailOK, TailFields
<1>5. CASE getSubDirs
    <2>1. PICK d \in tail.list :
              tail' = [tail EXCEPT !.list = (@ \ {d}) \cup (EntriesOf(d) \cap LogDirs), !.listed = @ \cup {d}]
        BY <1>5 DEF getSubDirs
    <2>2. /\ DOMAIN tail' = TailFields /\ tail'.list = (tail.list \ {d}) \cup (EntriesOf(d) \cap LogDirs)
          /\ tail'.listed = tail.listed \cup {d}
          /\ \A f \in TailFields \ {"list", "listed"} : tail'[f] = tail[f]
        BY <1>3, <2>1 DEF TailFields
    <2> QED BY <1>1, <2>2 DEF TailOK, TailFields
<1>6. CASE StartGoroutines
    <2>1. tail' = [tail EXCEPT !.phase = "watching", !.walk = {Root}]
        BY <1>6 DEF StartGoroutines
    <2>2. /\ DOMAIN tail' = TailFields /\ tail'.phase = "watching" /\ tail'.walk = {Root}
          /\ \A f \in TailFields \ {"phase", "walk"} : tail'[f] = tail[f]
        BY <1>3, <2>1 DEF TailFields
    <2> QED BY <1>1, <2>2 DEF TailOK, TailFields
<1>7. CASE AddWatch
    <2>1. PICK d \in tail.listed \ tail.watched : tail' = [tail EXCEPT !.watched = @ \cup {d}]
        BY <1>7 DEF AddWatch
    <2>2. /\ DOMAIN tail' = TailFields /\ tail'.watched = tail.watched \cup {d}
          /\ \A f \in TailFields \ {"watched"} : tail'[f] = tail[f]
        BY <1>3, <2>1 DEF TailFields
    <2> QED BY <1>1, <2>2 DEF TailOK, TailFields
<1>8. CASE StartTailing
    <2>1. tail' = [tail EXCEPT !.phase = "tailing"]
        BY <1>8 DEF StartTailing
    <2>2. /\ DOMAIN tail' = TailFields /\ tail'.phase = "tailing"
          /\ \A f \in TailFields \ {"phase"} : tail'[f] = tail[f]
        BY <1>3, <2>1 DEF TailFields
    <2> QED BY <1>1, <2>2 DEF TailOK, TailFields
<1>9. CASE WalkDir
    <2>1. PICK d \in tail.walk :
              tail' = [tail EXCEPT !.walk = (@ \ {d}) \cup (EntriesOf(d) \cap LogDirs),
                                   !.found = @ \cup (EntriesOf(d) \cap LogFiles)]
        BY <1>9 DEF WalkDir
    <2>2. /\ DOMAIN tail' = TailFields /\ tail'.walk = (tail.walk \ {d}) \cup (EntriesOf(d) \cap LogDirs)
          /\ tail'.found = tail.found \cup (EntriesOf(d) \cap LogFiles)
          /\ \A f \in TailFields \ {"walk", "found"} : tail'[f] = tail[f]
        BY <1>3, <2>1 DEF TailFields
    <2> QED BY <1>1, <2>2 DEF TailOK, TailFields
<1>10. CASE addExistingFiles
    <2>1. PICK x \in tail.found : tail' = [LogTailors(x) EXCEPT !.found = @ \ {x}]
        BY <1>10 DEF addExistingFiles
    <2>2. /\ DOMAIN tail' = TailFields /\ tail'.tailed = tail.tailed \cup {x} /\ tail'.found = tail.found \ {x}
          /\ \A f \in TailFields \ {"tailed", "found"} : tail'[f] = tail[f]
        BY <1>3, <2>1 DEF TailFields, LogTailors
    <2> QED BY <1>1, <2>2 DEF TailOK, TailFields
<1>11. CASE HandleEvent
    <2> DEFINE x == Head(tail.events)
               e == Tail(tail.events)
    <2>1. x \in LogDirs \cup LogFiles /\ e \in Seq(LogDirs \cup LogFiles)
        BY <1>3, <1>11 DEF HandleEvent
    <2>2. CASE x \in LogDirs
        <3>1. tail' = [tail EXCEPT !.watched = @ \cup {x}, !.events = Tail(@)]
            BY <1>11, <2>2 DEF HandleEvent
        <3>2. /\ DOMAIN tail' = TailFields /\ tail'.watched = tail.watched \cup {x} /\ tail'.events = e
              /\ \A f \in TailFields \ {"watched", "events"} : tail'[f] = tail[f]
            BY <1>3, <3>1 DEF TailFields
        <3> HIDE DEF x, e
        <3> QED BY <1>1, <2>1, <2>2, <3>2 DEF TailOK, TailFields
    <2>3. CASE x \notin LogDirs
        <3>1. tail' = [LogTailors(x) EXCEPT !.events = Tail(@)]
            BY <1>11, <2>3 DEF HandleEvent
        <3>2. /\ DOMAIN tail' = TailFields /\ tail'.tailed = tail.tailed \cup {x} /\ tail'.events = e
              /\ \A f \in TailFields \ {"tailed", "events"} : tail'[f] = tail[f]
            BY <1>3, <3>1 DEF TailFields, LogTailors
        <3> HIDE DEF x, e
        <3> QED BY <1>1, <2>1, <2>3, <3>2 DEF TailOK, TailFields
    <2> QED BY <2>2, <2>3
<1> QED BY <1>4, <1>5, <1>6, <1>7, <1>8, <1>9, <1>10, <1>11 DEF TailStep

LEMMA TailNext ==
    ASSUME TailInv, [Next]_vars PROVE TailInv'
<1>1. disk \subseteq Everything /\ TailOK(tail)
    BY TailParts
<1>2. ASSUME UNCHANGED <<disk, tail>> PROVE TailInv'
    BY <1>1, <1>2, TailPrimed
<1>3. CASE Pipeline
    BY <1>2, <1>3 DEF Pipeline, Interpolate, ResolveGroup, ConfigureGroup, DeployGroup
<1>4. ASSUME NEW s \in Slots, PodStep(s) PROVE TailInv'
    <2>1. tail' = tail /\ (disk' = disk \/ disk' = disk \cup {Root}
                            \cup (LogDirs \cap {JobsOf(s)[i].job.name : i \in DOMAIN JobsOf(s)}))
        BY <1>4 DEF PodStep, CreatePod, CopyContainerRun, CopySpecs, RenderJobTemplates, CreateDirs, PreStart,
                    StartContainer
    <2>2. disk' \subseteq Everything
        BY <1>1, <2>1 DEF Everything
    <2> QED BY <1>1, <2>1, <2>2, TailPrimed
<1>5. ASSUME NEW s \in Slots, WriteLog(s) \/ TailLogs(s) PROVE TailInv'
    BY <1>5, AppearsTail, StepTail DEF WriteLog, TailLogs
<1>6. ASSUME NEW s \in Slots, Fault(s) PROVE TailInv'
    <2>1. (tail' = tail \/ tail' = Off) /\ (disk' = disk \/ disk' = {})
        BY <1>6 DEF Fault, RenderFails, ContainerFails, SandboxFails, PodFails, StopsTail
    <2>2. TailOK(tail') /\ disk' \subseteq Everything
        BY <1>1, <2>1, OffOK
    <2> QED BY <2>2, TailPrimed
<1>7. CASE UNCHANGED vars
    BY <1>2, <1>7 DEF vars
<1> QED BY <1>3, <1>4, <1>5, <1>6, <1>7 DEF Next

LEMMA TailInit ==
    ASSUME Init PROVE TailInv
<1>1. TailOK(tail) /\ disk = {}
    BY OffOK DEF Init
<1> QED BY <1>1, TailFacts DEF TailInv, TailTypeOK, TailOK

-----------------------------------------------------------------------------
(* Instances.                                                              *)

LEMMA IndexIs ==
    ASSUME OutputsInv, NEW s \in NamedSlots, There(s)
    PROVE  LET g == GroupOf(manifest, s[1])
           IN /\ GroupOK(g) /\ specIndex(s) = s[2] * g.instances + s[3] /\ specIndex(s) \in Nat
              /\ s[2] \in 0..(Len(Zones(g)) - 1) /\ s[3] \in 0..(g.instances - 1)
              /\ g.instances \in Nat /\ Len(Zones(g)) \in Nat
<1> DEFINE g == GroupOf(manifest, s[1])
<1>1. s \in Slots /\ s[1] \notin DOMAIN NameNumbers
    BY DEF NamedSlots
<1>2. s[2] \in 0..(Len(Zones(g)) - 1) /\ s[3] \in 0..(g.instances - 1)
    BY <1>1, DeployedIs DEF There
<1>3. The(resource[s[1]]).replicas = g.instances /\ ContextOK(Context(s)) /\ Context(s).group = g
    BY <1>1, ContextIs DEF Context
<1>4. GroupOK(g)
    BY <1>3 DEF ContextOK
<1>5. g.instances \in Nat /\ Len(Zones(g)) \in Nat
    BY <1>4, ZonesList
<1> HIDE DEF g
<1>6. s[2] \in Nat /\ s[3] \in Nat
    BY <1>2, <1>5
<1>7. podOrdinal(s) = s[3] /\ azIndex(s[2]) - 1 = s[2]
    BY <1>1, <1>6 DEF podOrdinal, azIndex
<1>8. specIndex(s) = s[2] * g.instances + s[3]
    BY <1>3, <1>7, Zenon DEF specIndex
<1>9. specIndex(s) \in Nat
    BY <1>5, <1>6, <1>8
<1> QED BY <1>2, <1>4, <1>5, <1>8, <1>9 DEF g

\* A process starts as the instance that its pod is.
LEMMA StartsAs ==
    ASSUME OutputsInv, PodsInv, NEW s \in NamedSlots, pods[s].phase = "run", NEW x \in ContainerNames(s), x # Logs
    PROVE  /\ There(s) /\ specIndex(s) + 1 \in DOMAIN jobInstances(GroupOf(manifest, s[1]))
           /\ <<s[1], pods[s].rendered[x[1]].spec.index>> = Own(s)
<1> DEFINE c == Context(s)
           p == pods[s]
           g == GroupOf(manifest, s[1])
<1>1. /\ There(s) /\ ContextOK(c) /\ PodUp(c, p) /\ c.names = ContainerNames(s)
      /\ c.index = specIndex(s) /\ c.group = g
    BY IsUp DEF NamedSlots
<1> HIDE DEF c, g
<1>2. c.render \in 2..(c.inits - 1) /\ c.inits \in Nat /\ Len(c.jobs) \in Nat /\ DOMAIN c.jobs = 1..Len(c.jobs) /\ GroupOK(g)
    BY <1>1 DEF ContextOK
<1>3. PICK i \in DOMAIN c.jobs : x[1] = c.jobs[i].job.name
    BY <1>1 DEF ContextOK
<1>4. p.at > c.render
    BY <1>1, <1>2 DEF PodUp
<1>5. x[1] \in DOMAIN p.rendered
    BY <1>1, <1>2, <1>3, <1>4 DEF PodUp, RenderedNow
<1>6. c.index + 1 \in DOMAIN jobInstances(g) /\ p.rendered[x[1]].spec = jobInstances(g)[c.index + 1]
    BY <1>1, <1>5 DEF PodUp, RenderedFor
<1>7. /\ DOMAIN jobInstances(g) = 1..(g.instances * Len(Zones(g))) /\ g.instances * Len(Zones(g)) \in Nat
      /\ \A k \in DOMAIN jobInstances(g) : jobInstances(g)[k].index = k - 1
    BY <1>2, Instances
<1>8. c.index \in Nat
    BY <1>1, IndexIs
<1>9. jobInstances(g)[c.index + 1].index = c.index
    BY <1>6, <1>7, <1>8
<1> QED BY <1>1, <1>6, <1>8, <1>9 DEF Own, g

\* All steps of pods but StartContainer, and all faults: one pod changes, and it
\* runs no container that it did not run.
OnePod(s) ==
    /\ UNCHANGED <<manifest, outputs, identity>>
    /\ \A x \in Slots \ {s} : pods'[x] = pods[x]
    /\ pods'[s].running \subseteq pods[s].running

LEMMA StopsOnly ==
    ASSUME PodsInv, NEW s \in Slots, NEW q, pods' = [pods EXCEPT ![s] = q], q.running \subseteq pods[s].running,
           UNCHANGED <<manifest, outputs, identity>>
    PROVE  OnePod(s)
<1>1. DOMAIN pods = Slots
    BY Zenon DEF PodsInv
<1> QED BY <1>1 DEF OnePod

LEMMA FinishedRuns ==
    ASSUME NEW s, NEW q, DOMAIN q = PodFields PROVE Finished(s, q).running = q.running
BY DEF Finished, PodFields

LEMMA PodStops ==
    ASSUME PodsInv, NEW s \in Slots, PodStep(s) \/ Fault(s), ~StartContainer(s) PROVE OnePod(s)
<1> DEFINE p == pods[s]
<1>1. DOMAIN p = PodFields
    BY DEF PodsInv, PodOK
<1>2. UNCHANGED <<manifest, outputs, identity>>
    BY DEF PodStep, CreatePod, CopyContainerRun, CopySpecs, RenderJobTemplates, CreateDirs, PreStart,
           Fault, RenderFails, ContainerFails, SandboxFails, PodFails
<1> SUFFICES \E q : pods' = [pods EXCEPT ![s] = q] /\ q.running \subseteq p.running
    BY <1>2, StopsOnly
<1>3. CASE CreatePod(s)
    <2> DEFINE q == [p EXCEPT !.phase = "init", !.at = 1]
    <2>1. pods' = [pods EXCEPT ![s] = q]
        BY <1>3 DEF CreatePod
    <2>2. q.running = p.running
        BY <1>1 DEF PodFields
    <2> QED BY <2>1, <2>2
<1>4. CASE CopyContainerRun(s)
    <2> DEFINE q == [p EXCEPT !.tools = TRUE]
    <2>1. pods' = [pods EXCEPT ![s] = Finished(s, q)]
        BY <1>4 DEF CopyContainerRun
    <2>2. DOMAIN q = PodFields /\ q.running = p.running
        BY <1>1 DEF PodFields
    <2> HIDE DEF q
    <2>3. Finished(s, q).running = p.running
        BY <2>2, FinishedRuns
    <2> QED BY <2>1, <2>3
<1>5. CASE CopySpecs(s)
    <2> DEFINE q == [p EXCEPT !.specs = @ \cup {InitContainer(s).name[2]}]
    <2>1. pods' = [pods EXCEPT ![s] = Finished(s, q)]
        BY <1>5 DEF CopySpecs
    <2>2. DOMAIN q = PodFields /\ q.running = p.running
        BY <1>1 DEF PodFields
    <2> HIDE DEF q
    <2>3. Finished(s, q).running = p.running
        BY <2>2, FinishedRuns
    <2> QED BY <2>1, <2>3
<1>6. CASE RenderJobTemplates(s)
    <2>1. PICK f, k : pods' = [pods EXCEPT ![s] =
                IF k < Len(JobsOf(s)) THEN [p EXCEPT !.rendered = f, !.job = k]
                ELSE Finished(s, [[p EXCEPT !.rendered = f, !.job = k] EXCEPT !.job = 0])]
        BY <1>6, Zenon DEF RenderJobTemplates
    <2> DEFINE q == [p EXCEPT !.rendered = f, !.job = k]
               r == [q EXCEPT !.job = 0]
    <2>2. DOMAIN q = PodFields /\ q.running = p.running
        BY <1>1 DEF PodFields
    <2>3. DOMAIN r = PodFields /\ r.running = q.running
        BY <2>2 DEF PodFields
    <2>4. pods' = [pods EXCEPT ![s] = q] \/ pods' = [pods EXCEPT ![s] = Finished(s, r)]
        BY <2>1, Zenon
    <2> HIDE DEF q, r
    <2> QED BY <2>2, <2>3, <2>4, FinishedRuns
<1>7. CASE CreateDirs(s)
    <2> DEFINE q == [p EXCEPT !.dirs = TRUE]
    <2>1. pods' = [pods EXCEPT ![s] = Finished(s, q)]
        BY <1>7 DEF CreateDirs
    <2>2. DOMAIN q = PodFields /\ q.running = p.running
        BY <1>1 DEF PodFields
    <2> HIDE DEF q
    <2>3. Finished(s, q).running = p.running
        BY <2>2, FinishedRuns
    <2> QED BY <2>1, <2>3
<1>8. CASE PreStart(s)
    BY <1>1, <1>8, FinishedRuns DEF PreStart
<1>9. CASE RenderFails(s)
    <2> DEFINE q == [p EXCEPT !.job = 0]
    <2>1. pods' = [pods EXCEPT ![s] = q]
        BY <1>9 DEF RenderFails
    <2>2. q.running = p.running
        BY <1>1 DEF PodFields
    <2> QED BY <2>1, <2>2
<1>10. CASE ContainerFails(s)
    <2>1. PICK x \in p.running : pods' = [pods EXCEPT ![s].running = @ \ {x}]
        BY <1>10 DEF ContainerFails
    <2> DEFINE q == [p EXCEPT !.running = @ \ {x}]
    <2>2. pods' = [pods EXCEPT ![s] = q]
        BY <2>1
    <2>3. q.running = p.running \ {x}
        BY <1>1 DEF PodFields
    <2> QED BY <2>2, <2>3
<1>11. CASE SandboxFails(s)
    <2> DEFINE q == [p EXCEPT !.phase = "init", !.at = 1, !.job = 0, !.ip = @ + 1, !.running = {}]
    <2>1. pods' = [pods EXCEPT ![s] = q]
        BY <1>11 DEF SandboxFails
    <2>2. q.running = {}
        BY <1>1 DEF PodFields
    <2> QED BY <2>1, <2>2
<1>12. CASE PodFails(s)
    <2>1. pods' = [pods EXCEPT ![s] = NoPod(p.ip + 1)]
        BY <1>12 DEF PodFails
    <2>2. NoPod(p.ip + 1).running = {}
        BY DEF NoPod
    <2> QED BY <2>1, <2>2
<1> QED BY <1>3, <1>4, <1>5, <1>6, <1>7, <1>8, <1>9, <1>10, <1>11, <1>12 DEF PodStep, Fault

LEMMA NoneIsNot ==
    ASSUME OutputsInv, NEW s \in NamedSlots, There(s) PROVE Own(s) # None
<1>1. s[1] \in GroupNames /\ specIndex(s) \in Nat
    BY SlotIs, IndexIs DEF NamedSlots
<1> QED BY <1>1, NoneAssumption DEF Own

\* What the identity of a slot depends on stays.
LEMMA SameSlot ==
    ASSUME NEW s, manifest' = manifest, resource'[s[1]] = resource[s[1]], resolved'[s[1]] = resolved[s[1]]
    PROVE  /\ There(s)' = There(s) /\ specIndex(s)' = specIndex(s) /\ Own(s)' = Own(s)
           /\ GroupOf(manifest, s[1])' = GroupOf(manifest, s[1])
<1>1. specIndex(s)' = specIndex(s)
    BY DEF specIndex
<1> QED BY <1>1 DEF There, Deployed, Own

LEMMA IdentityInit ==
    ASSUME Init PROVE IdentityInv
<1>1. \A s \in Slots : identity[s] = None /\ pods[s] = NoPod(1)
    BY Zenon DEF Init
<1>2. NoPod(1).running = {}
    BY DEF NoPod
<1>3. identity = [s \in Slots |-> identity[s]]
    <2>1. identity = [s \in Slots |-> None]
        BY DEF Init
    <2> QED BY <2>1
<1> QED BY <1>1, <1>2, <1>3 DEF IdentityInv, NamedSlots

\* What IdentityInv says of one slot.
OwnIdentity(s) ==
    /\ identity[s] # None =>
          There(s) /\ identity[s] = Own(s) /\ specIndex(s) + 1 \in DOMAIN jobInstances(GroupOf(manifest, s[1]))
    /\ pods[s].running \ {Logs} # {} => identity[s] # None

LEMMA IdentityPipeline ==
    ASSUME OutputsInv, IdentityInv, Pipeline PROVE IdentityInv'
<1>1. UNCHANGED <<manifest, pods, identity>>
    BY DEF Pipeline, Interpolate, ResolveGroup, ConfigureGroup, DeployGroup
<1>2. ASSUME NEW s \in NamedSlots PROVE OwnIdentity(s)'
    <2>1. OwnIdentity(s) /\ s \in Slots
        BY DEF IdentityInv, OwnIdentity, NamedSlots
    <2>2. CASE identity[s] = None
        BY <1>1, <2>1, <2>2 DEF OwnIdentity
    <2>3. CASE identity[s] # None
        <3>1. resource'[s[1]] = resource[s[1]] /\ resolved'[s[1]] = resolved[s[1]]
            BY <2>1, <2>3, PipelineStays DEF OwnIdentity
        <3> QED BY <1>1, <2>1, <3>1, SameSlot DEF OwnIdentity
    <2> QED BY <2>2, <2>3
<1> QED BY <1>1, <1>2 DEF IdentityInv, OwnIdentity

LEMMA IdentityOnePod ==
    ASSUME OutputsInv, IdentityInv, NEW x, OnePod(x) PROVE IdentityInv'
<1>1. manifest' = manifest /\ resource' = resource /\ resolved' = resolved /\ identity' = identity
    BY DEF OnePod, outputs
<1>2. ASSUME NEW s \in NamedSlots PROVE OwnIdentity(s)'
    <2>1. OwnIdentity(s) /\ s \in Slots
        BY DEF IdentityInv, OwnIdentity, NamedSlots
    <2>2. pods'[s].running \subseteq pods[s].running
        BY <2>1 DEF OnePod
    <2> QED BY <1>1, <2>1, <2>2, SameSlot DEF OwnIdentity
<1> QED BY <1>1, <1>2 DEF IdentityInv, OwnIdentity

LEMMA IdentityStart ==
    ASSUME OutputsInv, PodsInv, IdentityInv, NEW x \in Slots, StartContainer(x) PROVE IdentityInv'
<1>1. manifest' = manifest /\ resource' = resource /\ resolved' = resolved /\ pods[x].phase = "run"
    BY DEF StartContainer, outputs
<1>2. PICK c \in ContainerNames(x) \ pods[x].running :
          /\ pods' = [pods EXCEPT ![x].running = @ \cup {c}]
          /\ identity' = IF c = Logs THEN identity
                         ELSE [identity EXCEPT ![x] = <<x[1], pods[x].rendered[c[1]].spec.index>>]
    BY DEF StartContainer
<1>3. DOMAIN pods = Slots /\ DOMAIN identity = Slots
    BY Zenon DEF PodsInv, IdentityInv
<1>4. DOMAIN pods[x] = PodFields
    BY DEF PodsInv, PodOK
<1>5. /\ pods'[x].running = pods[x].running \cup {c} /\ \A s \in Slots \ {x} : pods'[s] = pods[s]
    BY <1>2, <1>3, <1>4 DEF PodFields
<1>6. /\ \A s \in Slots \ {x} : identity'[s] = identity[s]
      /\ c = Logs => identity'[x] = identity[x]
      /\ c # Logs => identity'[x] = <<x[1], pods[x].rendered[c[1]].spec.index>>
    BY <1>2, <1>3
<1>7. identity' = [s \in Slots |-> identity'[s]]
    <2>1. identity = [s \in Slots |-> identity[s]]
        BY DEF IdentityInv
    <2>2. CASE c = Logs
        BY <1>2, <2>1, <2>2
    <2>3. CASE c # Logs
        <3>1. identity' = [identity EXCEPT ![x] = <<x[1], pods[x].rendered[c[1]].spec.index>>]
            BY <1>2, <2>3
        <3> QED BY <1>3, <3>1
    <2> QED BY <2>2, <2>3
<1>8. ASSUME NEW s \in NamedSlots PROVE OwnIdentity(s)'
    <2>1. OwnIdentity(s) /\ s \in Slots
        BY DEF IdentityInv, OwnIdentity, NamedSlots
    <2>2. CASE s # x
        BY <1>1, <1>5, <1>6, <2>1, <2>2, SameSlot DEF OwnIdentity
    <2>3. CASE s = x /\ c = Logs
        BY <1>1, <1>5, <1>6, <2>1, <2>3, SameSlot DEF OwnIdentity
    <2>4. CASE s = x /\ c # Logs
        <3>1. /\ There(s) /\ specIndex(s) + 1 \in DOMAIN jobInstances(GroupOf(manifest, s[1])) /\ identity'[s] = Own(s)
            BY <1>1, <1>2, <1>6, <2>4, StartsAs
        <3>2. Own(s) # None
            BY <3>1, NoneIsNot
        <3> QED BY <1>1, <3>1, <3>2, SameSlot DEF OwnIdentity
    <2> QED BY <2>2, <2>3, <2>4
<1> QED BY <1>7, <1>8 DEF IdentityInv, OwnIdentity

LEMMA IdentityNext ==
    ASSUME OutputsInv, PodsInv, IdentityInv, [Next]_vars PROVE IdentityInv'
<1>1. CASE Pipeline
    BY <1>1, IdentityPipeline
<1>2. ASSUME NEW s \in Slots, PodStep(s) \/ Fault(s) PROVE IdentityInv'
    <2>1. CASE StartContainer(s)
        BY <2>1, IdentityStart
    <2>2. CASE ~StartContainer(s)
        BY <1>2, <2>2, PodStops, IdentityOnePod
    <2> QED BY <2>1, <2>2
<1>3. ASSUME UNCHANGED <<manifest, outputs, pods, identity>> PROVE IdentityInv'
    <2>1. OnePod(manifest)
        BY <1>3 DEF OnePod
    <2> QED BY <2>1, IdentityOnePod
<1>4. ASSUME NEW s \in Slots, WriteLog(s) \/ TailLogs(s) PROVE IdentityInv'
    BY <1>3, <1>4 DEF WriteLog, TailLogs
<1>5. CASE UNCHANGED vars
    BY <1>3, <1>5 DEF vars
<1> QED BY <1>1, <1>2, <1>4, <1>5 DEF Next

\* The conjunction of the parts is an invariant.
LEMMA Invariant == Spec => []Inv
<1>1. Init => Inv
    BY OutputsInit, PodsInit, IdentityInit, TailInit DEF Inv
<1>2. Inv /\ [Next]_vars => Inv'
    BY OutputsNext, PodsNext, IdentityNext, TailNext DEF Inv
<1> QED BY <1>1, <1>2, PTL DEF Spec

-----------------------------------------------------------------------------
(* The theorems.                                                           *)

LEMMA OutIsOutput ==
    ASSUME NEW out, IsOut(out) PROVE IsOutput(out)
<1>1. CASE out = Pending
    BY <1>1, FS_EmptySet DEF Pending, IsOutput
<1>2. CASE out = [done |-> TRUE, value |-> {}]
    BY <1>2, FS_EmptySet DEF IsOutput
<1>3. ASSUME NEW v, out = [done |-> TRUE, value |-> {v}] PROVE IsOutput(out)
    <2>1. Cardinality({v}) = 1
        BY FS_Singleton
    <2> QED BY <1>3, <2>1 DEF IsOutput
<1> QED BY <1>1, <1>2, <1>3 DEF IsOut

\* The type invariant of the commands' outputs, the pods and the log tailer: in
\* particular a pod runs only containers of its template, and an init container
\* only while there is one.
THEOREM TypeCorrect == Spec => []TypeOK
<1>1. Inv => TypeOK
    <2> SUFFICES ASSUME Inv PROVE TypeOK
        OBVIOUS
    <2>1. OutputsInv /\ PodsInv /\ TailInv
        BY DEF Inv
    <2>2. GroupsIn(manifest) \subseteq GroupNames
        BY <2>1 DEF OutputsInv, GroupsIn, GroupNames
    <2>3. IsOutput(desired) /\ \A g \in GroupNames : IsOutput(resolved[g]) /\ IsOutput(bpmInfo[g]) /\ IsOutput(resource[g])
        BY <2>1, OutIsOutput DEF OutputsInv, GroupOutputs
    <2>4. faults \in 0..MaxFaults(manifest) /\ MaxFaults(manifest) \in Nat /\ faults \in Nat
        BY <2>1, FaultBound
    <2>5. ASSUME NEW s \in Slots
          PROVE  /\ pods[s].phase \in {"none", "init", "run"}
                 /\ pods[s].ip \in 1..(MaxFaults(manifest) + 1)
                 /\ pods[s].phase # "none" => pods[s].at \in 1..Len(Template(s).init)
                 /\ pods[s].phase = "run" => pods[s].running \subseteq ContainerNames(s)
                 /\ pods[s].phase # "run" => pods[s].running = {}
        <3>1. PodOK(Context(s), pods[s], faults)
            BY <2>1 DEF PodsInv
        <3>2. Context(s).inits = Len(Template(s).init) /\ Context(s).names = ContainerNames(s)
            BY DEF Context
        <3>3. pods[s].phase # "none" => PodUp(Context(s), pods[s])
            BY <3>1 DEF PodOK
        <3>4. pods[s].phase # "none" => pods[s].at \in 1..Len(Template(s).init)
            BY <3>2, <3>3 DEF PodUp
        <3>5. pods[s].phase = "run" => pods[s].running \subseteq ContainerNames(s)
            BY <3>2, <3>3 DEF PodUp
        <3>6. pods[s].ip \in 1..(MaxFaults(manifest) + 1)
            BY <2>4, <3>1 DEF PodOK
        <3> QED BY <3>1, <3>4, <3>5, <3>6 DEF PodOK
    <2>6. TailTypeOK
        BY <2>1 DEF TailInv
    <2> QED BY <2>2, <2>3, <2>4, <2>5, <2>6 DEF TypeOK
<1> QED BY <1>1, Invariant, PTL

\* Pre-start scripts, hooks and processes find container-run, their directories
\* and the templates of all jobs, rendered for one instance and with the address
\* the pod has now, although directories outlive a sandbox and template-render
\* may fail half way (JobsToInitContainers, RenderJobTemplates).
THEOREM PreparedBeforeUse == Spec => []PreparedFirst
<1>1. Inv => PreparedFirst
    <2> SUFFICES ASSUME Inv, NEW s \in Slots, Active(s)
                 PROVE  /\ pods[s].tools /\ pods[s].dirs
                        /\ \A i \in DOMAIN JobsOf(s) :
                              /\ JobsOf(s)[i].job.name \in DOMAIN pods[s].rendered
                              /\ pods[s].rendered[JobsOf(s)[i].job.name].ip = pods[s].ip
                        /\ \A n, k \in DOMAIN pods[s].rendered :
                              pods[s].rendered[n].spec = pods[s].rendered[k].spec
        BY DEF PreparedFirst
    <2> DEFINE c == Context(s)
               p == pods[s]
    <2>1. OutputsInv /\ PodsInv
        BY DEF Inv
    <2>2. p.phase # "none"
        BY <2>1 DEF Active, PodsInv, PodOK
    <2>3. /\ ContextOK(c) /\ PodUp(c, p) /\ c.jobs = JobsOf(s) /\ p.phase \in {"init", "run"}
          /\ (p.phase # "run" => p.running = {})
        BY <2>1, <2>2, IsUp
    <2>4. c.render \in 2..(c.inits - 1) /\ c.inits \in Nat /\ Len(c.jobs) \in Nat /\ DOMAIN c.jobs = 1..Len(c.jobs)
        BY <2>3 DEF ContextOK
    <2>5. p.at > c.render /\ (p.at > c.render + 1 \/ p.phase = "run")
        <3>1. CASE p.phase = "run"
            BY <2>3, <2>4, <3>1 DEF PodUp
        <3>2. CASE p.phase = "init"
            <4>1. InitOrder(Template(s).init, c.render) /\ c.inits = Len(Template(s).init)
                BY <2>1, <3>2, InInit
            <4>2. InitContainer(s).name[1] \in PreStarts
                BY <2>3, <3>2 DEF Active
            <4>3. p.at \in 1..c.inits
                BY <2>3 DEF PodUp
            <4>4. p.at > c.render + 1
                BY <4>1, <4>2, <4>3, InitAt DEF InitContainer
            <4> QED BY <2>4, <4>3, <4>4
        <3> QED BY <2>3, <3>1, <3>2
    <2> HIDE DEF c
    <2>6. p.tools /\ p.dirs
        BY <2>3, <2>4, <2>5 DEF PodUp
    <2>7. RenderedNow(c, p, Len(c.jobs)) /\ RenderedFor(c, p)
        BY <2>3, <2>5 DEF PodUp
    <2>8. \A i \in DOMAIN c.jobs : c.jobs[i].job.name \in DOMAIN p.rendered /\ p.rendered[c.jobs[i].job.name].ip = p.ip
        BY <2>4, <2>7 DEF RenderedNow
    <2>9. \A n, k \in DOMAIN p.rendered : p.rendered[n].spec = p.rendered[k].spec
        BY <2>7 DEF RenderedFor
    <2> QED BY <2>3, <2>6, <2>8, <2>9
<1> QED BY <1>1, Invariant, PTL

-----------------------------------------------------------------------------
(* There are finitely many slots.                                          *)

LEMMA Interval ==
    ASSUME NEW n \in Nat
    PROVE  IsFiniteSet(1..n) /\ IsFiniteSet(0..(n - 1)) /\ Cardinality(0..(n - 1)) = n
<1>1. 0 \in Int /\ 1 \in Int /\ n \in Int
    OBVIOUS
<1>2. IsFiniteSet(1..n)
    BY <1>1, FS_Interval
<1> DEFINE k == n - 1
<1>3. k \in Int /\ (0 > k => n = 0) /\ k - 0 + 1 = n
    OBVIOUS
<1> HIDE DEF k
<1>4. IsFiniteSet(0..k) /\ Cardinality(0..k) = (IF 0 > k THEN 0 ELSE k - 0 + 1)
    BY <1>1, <1>3, FS_Interval
<1>5. IsFiniteSet(0..k) /\ Cardinality(0..k) = n
    BY <1>3, <1>4
<1> QED BY <1>2, <1>5 DEF k

LEMMA GroupSlotsFinite ==
    ASSUME NEW g, GroupOK(g) PROVE IsFiniteSet(SlotsOf(g))
<1> DEFINE z == 0..(Len(Zones(g)) - 1)
           o == 0..(g.instances - 1)
           S == SlotsOf(g)
           f == [t \in S |-> <<t[2], t[3]>>]
<1>1. Len(Zones(g)) \in Nat /\ g.instances \in Nat
    BY ZonesList
<1>2. IsFiniteSet(z) /\ IsFiniteSet(o)
    BY <1>1, Interval
<1>3. IsFiniteSet(z \X o)
    BY <1>2, FS_Product
<1>4. \A t \in S : t[1] = g.name /\ t[2] \in z /\ t[3] \in o /\ t = <<t[1], t[2], t[3]>>
    BY DEF SlotsOf
<1> HIDE DEF z, o, S
<1>5. f \in [S -> z \X o]
    BY <1>4
<1>6. \A t, u \in S : f[t] = f[u] => t = u
    <2> SUFFICES ASSUME NEW t \in S, NEW u \in S, <<t[2], t[3]>> = <<u[2], u[3]>> PROVE t = u
        OBVIOUS
    <2>1. t[1] = u[1] /\ t[2] = u[2] /\ t[3] = u[3]
        BY <1>4
    <2> QED BY <1>4, <2>1, Zenon
<1>7. f \in Injection(S, z \X o)
    BY <1>5, <1>6 DEF Injection, IsInjective
<1> HIDE DEF f
<1> QED BY <1>3, <1>7, FS_Injection DEF S

LEMMA SlotsFinite == IsFiniteSet(Slots)
<1> DEFINE part(m) == UNION {SlotsOf(m.groups[i]) : i \in DOMAIN m.groups}
           f == [m \in Manifests |-> part(m)]
<1>1. ASSUME NEW m \in Manifests PROVE IsFiniteSet(part(m))
    <2> DEFINE D == DOMAIN m.groups
               h == [i \in D |-> SlotsOf(m.groups[i])]
               T == {SlotsOf(m.groups[i]) : i \in D}
    <2>1. IsList(m.groups) /\ \A i \in D : GroupOK(m.groups[i])
        BY RenderingAssumption DEF ManifestOK
    <2>2. IsFiniteSet(D)
        <3>1. Len(m.groups) \in Nat /\ D = 1..Len(m.groups)
            BY <2>1, ListIs
        <3> QED BY <3>1, Interval
    <2>3. DOMAIN h = D /\ h = [i \in D |-> h[i]] /\ {h[i] : i \in D} = T
        OBVIOUS
    <2> HIDE DEF h, D
    <2>4. IsFiniteSet({h[i] : i \in D})
        BY <2>2, <2>3, ImageFinite
    <2>5. IsFiniteSet(T)
        BY <2>3, <2>4, Zenon
    <2>6. \A t \in T : IsFiniteSet(t)
        BY <2>1, GroupSlotsFinite
    <2> HIDE DEF T
    <2>7. IsFiniteSet(UNION T)
        BY <2>5, <2>6, FS_UNION
    <2> QED BY <2>7, Zenon DEF T, D
<1>2. DOMAIN f = Manifests /\ f = [m \in Manifests |-> f[m]] /\ \A m \in Manifests : f[m] = part(m)
    OBVIOUS
<1>3. Slots = UNION {f[m] : m \in Manifests}
    <2>1. Slots = UNION {part(m) : m \in Manifests}
        BY Zenon DEF Slots
    <2> HIDE DEF f, part
    <2> QED BY <1>2, <2>1
<1> HIDE DEF f, part
<1>4. IsFiniteSet({f[m] : m \in Manifests})
    BY <1>2, ImageFinite, RenderingAssumption
<1>5. \A t \in {f[m] : m \in Manifests} : IsFiniteSet(t)
    BY <1>1, <1>2
<1>6. IsFiniteSet(UNION {f[m] : m \in Manifests})
    <2> DEFINE T == {f[m] : m \in Manifests}
    <2>1. IsFiniteSet(T) /\ \A t \in T : IsFiniteSet(t)
        BY <1>4, <1>5
    <2> HIDE DEF T
    <2>2. IsFiniteSet(UNION T)
        BY <2>1, FS_UNION
    <2> QED BY <2>2, Zenon DEF T
<1> QED BY <1>3, <1>6, Zenon

-----------------------------------------------------------------------------
(* Pods implement instances.                                               *)

\* Zone and ordinal are what the index says.
LEMMA Digits ==
    ASSUME NEW n \in Nat, NEW a \in Nat, NEW b \in Nat, NEW x \in Nat, NEW y \in Nat, b < n, y < n,
           a * n + b = x * n + y
    PROVE  a = x /\ b = y
<1>1. ASSUME NEW p \in Nat, NEW q \in Nat, NEW v \in Nat, NEW w \in Nat, v < n, w < n, p * n + v = q * n + w, p < q
      PROVE  FALSE
    <2>1. (q - p) * n = v - w
        BY <1>1
    <2>2. PICK d \in Nat : q - p = d + 1
        <3>1. q - p - 1 \in Nat /\ q - p = (q - p - 1) + 1
            BY <1>1
        <3> QED BY <3>1
    <2>3. (d + 1) * n = d * n + n /\ d * n \in Nat
        OBVIOUS
    <2> QED BY <1>1, <2>1, <2>2, <2>3
<1>2. a = x
    BY <1>1
<1> QED BY <1>2

\* The group of a slot has at least as many slots as instances.
LEMMA EnoughSlots ==
    ASSUME OutputsInv, NEW s \in Slots, There(s)
    PROVE  LET g == GroupOf(manifest, s[1])
               S == {x \in Slots : x[1] = s[1]}
           IN Cardinality(S) \in Nat /\ Len(Zones(g)) * g.instances <= Cardinality(S)
<1> DEFINE g == GroupOf(manifest, s[1])
           S == {x \in Slots : x[1] = s[1]}
           z == 0..(Len(Zones(g)) - 1)
           o == 0..(g.instances - 1)
           f == [p \in z \X o |-> <<s[1], p[1], p[2]>>]
<1>1. GroupOK(g) /\ manifest \in Manifests
    BY ThereIs DEF OutputsInv
<1>2. Len(Zones(g)) \in Nat \ {0} /\ g.instances \in Nat
    BY <1>1, ZonesList
<1>3. s[1] = g.name /\ g.lifecycle \in Services
    BY DeployedIs DEF There
<1>4. \E i \in DOMAIN manifest.groups : g = manifest.groups[i]
    BY ThereIs, Zenon
<1>5. IsFiniteSet(S) /\ Cardinality(S) \in Nat
    <2>1. S \in SUBSET Slots
        OBVIOUS
    <2> HIDE DEF S
    <2>2. IsFiniteSet(S)
        BY <2>1, SlotsFinite, FS_Subset
    <2> QED BY <2>2, FS_CardinalityType
<1>6. IsFiniteSet(z) /\ Cardinality(z) = Len(Zones(g))
    BY <1>2, Interval
<1>7. IsFiniteSet(o) /\ Cardinality(o) = g.instances
    BY <1>2, Interval
<1>8. IsFiniteSet(z \X o) /\ Cardinality(z \X o) = Len(Zones(g)) * g.instances
    <2> HIDE DEF z, o
    <2> QED BY <1>6, <1>7, FS_Product
<1>9. \A a \in z, b \in o : <<s[1], a, b>> \in S
    <2>1. \A a \in z, b \in o : <<s[1], a, b>> \in SlotsOf(g)
        BY <1>3 DEF SlotsOf
    <2>2. SlotsOf(g) \subseteq Slots
        BY <1>1, <1>4 DEF Slots
    <2> QED BY <2>1, <2>2
<1> HIDE DEF S, z, o
<1>10. f \in [z \X o -> S]
    BY <1>9
<1>11. \A p, q \in z \X o : f[p] = f[q] => p = q
    OBVIOUS
<1>12. f \in Injection(z \X o, S)
    BY <1>10, <1>11 DEF Injection, IsInjective
<1> HIDE DEF f
<1>13. Cardinality(z \X o) <= Cardinality(S)
    <2> DEFINE P == z \X o
    <2>1. f \in Injection(P, S)
        BY <1>12
    <2> HIDE DEF P
    <2>2. Cardinality(P) <= Cardinality(S)
        BY <1>5, <2>1, FS_Injection
    <2> QED BY <2>2 DEF P
<1> QED BY <1>5, <1>8, <1>13 DEF S

\* The state of InstanceIdentity.
AbsIdentity == [s \in NamedSlots |-> identity[s]]
AbsUp == {s \in NamedSlots : pods[s].running \ {Logs} # {}}

\* The instance of a slot is one of its group, and no other slot's.
LEMMA OwnIsOne ==
    ASSUME OutputsInv, NEW s \in NamedSlots, There(s) PROVE Own(s) \in InstancesFor(s)
<1> DEFINE g == GroupOf(manifest, s[1])
           S == {x \in Slots : x[1] = s[1]}
<1>1. s \in Slots
    BY DEF NamedSlots
<1>2. Cardinality(S) \in Nat /\ Len(Zones(g)) * g.instances <= Cardinality(S)
    BY <1>1, EnoughSlots
<1>3. /\ specIndex(s) = s[2] * g.instances + s[3] /\ specIndex(s) \in Nat
      /\ s[2] \in 0..(Len(Zones(g)) - 1) /\ s[3] \in 0..(g.instances - 1)
      /\ g.instances \in Nat /\ Len(Zones(g)) \in Nat
    BY IndexIs
<1> HIDE DEF g, S
<1>4. specIndex(s) < Len(Zones(g)) * g.instances
    <2> DEFINE a == s[2]
               b == s[3]
               n == g.instances
               z == Len(Zones(g))
    <2>1. a \in Nat /\ b \in Nat /\ b < n /\ n \in Nat /\ z \in Nat /\ a + 1 <= z
        BY <1>3
    <2> HIDE DEF a, b, n, z
    <2>2. PICK d \in Nat : z = a + 1 + d
        <3>1. z - a - 1 \in Nat /\ z = a + 1 + (z - a - 1)
            BY <2>1
        <3> QED BY <3>1
    <2>3. z * n = a * n + n + d * n /\ d * n \in Nat /\ a * n \in Nat
        BY <2>1, <2>2
    <2>4. a * n + b < z * n
        BY <2>1, <2>3
    <2> QED BY <1>3, <2>4 DEF a, b, n, z
<1>5. Len(Zones(g)) * g.instances \in Nat
    BY <1>3
<1>6. specIndex(s) \in 0..(Cardinality(S) - 1)
    BY <1>2, <1>3, <1>4, <1>5
<1> QED BY <1>6 DEF Own, InstancesFor, S

LEMMA OwnIsAlone ==
    ASSUME OutputsInv, NEW s \in NamedSlots, There(s), NEW t \in NamedSlots, There(t), Own(s) = Own(t) PROVE s = t
<1> DEFINE g == GroupOf(manifest, s[1])
<1>1. s[1] = t[1] /\ specIndex(s) = specIndex(t)
    BY DEF Own
<1>2. /\ specIndex(s) = s[2] * g.instances + s[3] /\ s[2] \in 0..(Len(Zones(g)) - 1) /\ s[3] \in 0..(g.instances - 1)
      /\ g.instances \in Nat /\ Len(Zones(g)) \in Nat
    BY IndexIs
<1>3. /\ specIndex(t) = t[2] * g.instances + t[3] /\ t[2] \in 0..(Len(Zones(g)) - 1) /\ t[3] \in 0..(g.instances - 1)
    BY <1>1, IndexIs
<1> HIDE DEF g
<1>4. /\ s[2] \in Nat /\ s[3] \in Nat /\ t[2] \in Nat /\ t[3] \in Nat /\ s[3] < g.instances /\ t[3] < g.instances
      /\ s[2] * g.instances + s[3] = t[2] * g.instances + t[3] /\ g.instances \in Nat
    <2>1. s[2] * g.instances + s[3] = t[2] * g.instances + t[3]
        BY <1>1, <1>2, <1>3, Zenon
    <2>2. /\ g.instances \in Nat /\ Len(Zones(g)) \in Nat
          /\ s[2] \in 0..(Len(Zones(g)) - 1) /\ s[3] \in 0..(g.instances - 1)
          /\ t[2] \in 0..(Len(Zones(g)) - 1) /\ t[3] \in 0..(g.instances - 1)
        BY <1>2, <1>3, Zenon
    <2>3. s[2] \in Nat /\ s[3] \in Nat /\ t[2] \in Nat /\ t[3] \in Nat /\ s[3] < g.instances /\ t[3] < g.instances
        BY <2>2
    <2> QED BY <2>1, <2>2, <2>3, Zenon
<1>5. s[2] = t[2] /\ s[3] = t[3]
    <2> DEFINE a == s[2]
               b == s[3]
               x == t[2]
               y == t[3]
               n == g.instances
    <2>1. a \in Nat /\ b \in Nat /\ x \in Nat /\ y \in Nat /\ n \in Nat /\ b < n /\ y < n /\ a * n + b = x * n + y
        BY <1>4
    <2> HIDE DEF a, b, x, y, n
    <2>2. a = x /\ b = y
        BY <2>1, Digits
    <2> QED BY <2>2 DEF a, b, x, y
<1>6. s = <<s[1], s[2], s[3]>> /\ t = <<t[1], t[2], t[3]>>
    BY SlotIs DEF NamedSlots
<1> QED BY <1>1, <1>5, <1>6, Zenon

\* A pod stops, or nothing of the instances changes.
LEMMA OnePodMaps ==
    ASSUME NEW x, OnePod(x) PROVE [Identity!Next]_<<AbsIdentity, AbsUp>>
<1>1. AbsIdentity' = AbsIdentity
    BY DEF OnePod, AbsIdentity
<1>2. \A s \in NamedSlots \ {x} : pods'[s] = pods[s]
    BY DEF OnePod, NamedSlots
<1>3. pods'[x].running \subseteq pods[x].running
    BY DEF OnePod
<1>4. CASE x \in AbsUp /\ pods'[x].running \ {Logs} = {}
    <2>1. x \in NamedSlots /\ AbsUp' = AbsUp \ {x}
        BY <1>2, <1>4 DEF AbsUp
    <2>2. Identity!Stop(x)
        BY <1>1, <1>4, <2>1 DEF Identity!Stop, AbsUp, AbsIdentity
    <2> QED BY <2>1, <2>2 DEF Identity!Next
<1>5. CASE ~(x \in AbsUp /\ pods'[x].running \ {Logs} = {})
    <2>1. ASSUME NEW s \in NamedSlots PROVE s \in AbsUp' <=> s \in AbsUp
        <3>1. s \in AbsUp' <=> pods'[s].running \ {Logs} # {}
            BY DEF AbsUp
        <3>2. s \in AbsUp <=> pods[s].running \ {Logs} # {}
            BY DEF AbsUp
        <3> QED BY <1>2, <1>3, <1>5, <3>1, <3>2
    <2>2. AbsUp' \subseteq NamedSlots /\ AbsUp \subseteq NamedSlots
        BY DEF AbsUp
    <2>3. AbsUp' = AbsUp
        BY <2>1, <2>2
    <2> QED BY <1>1, <2>3
<1> QED BY <1>4, <1>5

LEMMA StartMaps ==
    ASSUME Inv, NEW x \in Slots, StartContainer(x) PROVE [Identity!Next]_<<AbsIdentity, AbsUp>>
<1>1. OutputsInv /\ PodsInv /\ IdentityInv /\ pods[x].phase = "run"
    BY DEF Inv, StartContainer
<1>2. PICK c \in ContainerNames(x) \ pods[x].running :
          /\ pods' = [pods EXCEPT ![x].running = @ \cup {c}]
          /\ identity' = IF c = Logs THEN identity
                         ELSE [identity EXCEPT ![x] = <<x[1], pods[x].rendered[c[1]].spec.index>>]
    BY DEF StartContainer
<1>3. DOMAIN pods = Slots /\ DOMAIN identity = Slots
    BY <1>1, Zenon DEF PodsInv, IdentityInv
<1>4. DOMAIN pods[x] = PodFields
    BY <1>1 DEF PodsInv, PodOK
<1>5. pods'[x].running = pods[x].running \cup {c} /\ \A s \in Slots \ {x} : pods'[s] = pods[s]
    BY <1>2, <1>3, <1>4 DEF PodFields
<1>6. /\ \A s \in Slots \ {x} : identity'[s] = identity[s]
      /\ c = Logs => identity'[x] = identity[x]
      /\ c # Logs => identity'[x] = <<x[1], pods[x].rendered[c[1]].spec.index>>
    BY <1>2, <1>3
<1>7. NamedSlots \subseteq Slots
    BY DEF NamedSlots
<1>8. ASSUME x \in NamedSlots => c = Logs \/ x \in AbsUp PROVE UNCHANGED <<AbsIdentity, AbsUp>>
    <2>1. ASSUME NEW s \in NamedSlots PROVE identity'[s] = identity[s] /\ (s \in AbsUp' <=> s \in AbsUp)
        <3>1. (s \in AbsUp' <=> pods'[s].running \ {Logs} # {}) /\ (s \in AbsUp <=> pods[s].running \ {Logs} # {})
            BY DEF AbsUp
        <3>2. CASE s # x
            BY <1>5, <1>6, <1>7, <3>1, <3>2
        <3>3. CASE s = x /\ c = Logs
            BY <1>5, <1>6, <3>1, <3>3
        <3>4. CASE s = x /\ c # Logs
            <4>1. x \in AbsUp
                BY <1>8, <3>4
            <4>2. identity[x] = Own(x)
                BY <1>1, <3>1, <3>4, <4>1 DEF IdentityInv
            <4>3. identity'[x] = Own(x)
                BY <1>1, <1>2, <1>6, <3>4, StartsAs
            <4> QED BY <1>5, <3>1, <3>4, <4>1, <4>2, <4>3
        <3> QED BY <3>2, <3>3, <3>4
    <2>2. AbsUp' \subseteq NamedSlots /\ AbsUp \subseteq NamedSlots
        BY DEF AbsUp
    <2>3. AbsUp' = AbsUp
        BY <2>1, <2>2
    <2>4. AbsIdentity' = AbsIdentity
        BY <2>1 DEF AbsIdentity
    <2> QED BY <2>3, <2>4
<1>9. ASSUME x \in NamedSlots, c # Logs, x \notin AbsUp PROVE Identity!Next
    <2>1. There(x) /\ identity'[x] = Own(x)
        BY <1>1, <1>2, <1>6, <1>9, StartsAs
    <2>2. identity[x] = None \/ identity[x] = Own(x)
        BY <1>1, <1>9 DEF IdentityInv
    <2>3. ASSUME NEW t \in NamedSlots, t # x PROVE identity[t] # Own(x)
        <3>1. CASE identity[t] = None
            BY <1>1, <1>9, <2>1, <3>1, NoneIsNot
        <3>2. CASE identity[t] # None
            <4>1. There(t) /\ identity[t] = Own(t)
                BY <1>1, <3>2 DEF IdentityInv
            <4> QED BY <1>1, <1>9, <2>1, <2>3, <4>1, OwnIsAlone
        <3> QED BY <3>1, <3>2
    <2>4. AbsIdentity' = [AbsIdentity EXCEPT ![x] = Own(x)]
        <3>1. \A t \in NamedSlots : identity'[t] = IF t = x THEN Own(x) ELSE identity[t]
            BY <1>6, <1>7, <2>1
        <3> QED BY <3>1 DEF AbsIdentity
    <2>5. AbsUp' = AbsUp \cup {x}
        BY <1>5, <1>7, <1>9 DEF AbsUp
    <2>6. Own(x) \in InstancesFor(x)
        BY <1>1, <1>9, <2>1, OwnIsOne
    <2>7. PICK i : i = Own(x)
        OBVIOUS
    <2>8. Identity!Start(x, i)
        <3>1. AbsIdentity[x] \in {None, i} /\ \A t \in NamedSlots \ {x} : AbsIdentity[t] # i
            BY <1>9, <2>2, <2>3, <2>7 DEF AbsIdentity
        <3> QED BY <1>9, <2>4, <2>5, <2>7, <3>1 DEF Identity!Start, AbsIdentity, AbsUp
    <2>9. i \in [s \in NamedSlots |-> InstancesFor(s)][x]
        BY <1>9, <2>6, <2>7
    <2> QED BY <1>9, <2>8, <2>9 DEF Identity!Next
<1> QED BY <1>8, <1>9

\* The pods implement the instances of BOSH: each runs as an instance that no
\* other pod of its group is, and through every restart and replacement, with any
\* number of zones and replicas, it stays that instance (template-render's index).
THEOREM PodsKeepIdentity == Spec => KeepsIdentity
<1>1. Init => Identity!Init
    <2> SUFFICES ASSUME Init PROVE Identity!Init
        OBVIOUS
    <2>1. \A s \in NamedSlots : identity[s] = None /\ pods[s] = NoPod(1)
        BY Zenon DEF Init, NamedSlots
    <2>2. NoPod(1).running = {}
        BY DEF NoPod
    <2> QED BY <2>1, <2>2 DEF Identity!Init
<1>2. Inv /\ [Next]_vars => [Identity!Next]_<<AbsIdentity, AbsUp>>
    <2> SUFFICES ASSUME Inv, [Next]_vars PROVE [Identity!Next]_<<AbsIdentity, AbsUp>>
        OBVIOUS
    <2>1. PodsInv
        BY DEF Inv
    <2>2. ASSUME UNCHANGED <<pods, identity>> PROVE UNCHANGED <<AbsIdentity, AbsUp>>
        BY <2>2 DEF AbsIdentity, AbsUp
    <2>3. CASE Pipeline
        BY <2>2, <2>3 DEF Pipeline, Interpolate, ResolveGroup, ConfigureGroup, DeployGroup
    <2>4. ASSUME NEW s \in Slots, PodStep(s) \/ Fault(s) PROVE [Identity!Next]_<<AbsIdentity, AbsUp>>
        <3>1. CASE StartContainer(s)
            BY <3>1, StartMaps
        <3>2. CASE ~StartContainer(s)
            BY <2>1, <2>4, <3>2, PodStops, OnePodMaps
        <3> QED BY <3>1, <3>2
    <2>5. ASSUME NEW s \in Slots, WriteLog(s) \/ TailLogs(s) PROVE [Identity!Next]_<<AbsIdentity, AbsUp>>
        BY <2>2, <2>5 DEF WriteLog, TailLogs
    <2>6. CASE UNCHANGED vars
        BY <2>2, <2>6 DEF vars
    <2> QED BY <2>3, <2>4, <2>5, <2>6 DEF Next
<1> QED BY <1>1, <1>2, Invariant, PTL DEF Spec, KeepsIdentity, Identity!Spec, AbsIdentity, AbsUp

-----------------------------------------------------------------------------
(* Services.                                                               *)

\* What a Service with the name of an instance selects.
LEMMA ServiceSelects ==
    ASSUME NEW h, GroupOK(h), NEW x \in ToSet(serviceToKubeServices(h)), NEW k \in Nat, x.name = <<h.name, k>>
    PROVE  x.selector = podLabels(h, k % Len(Zones(h)), k \div Len(Zones(h)))
<1> DEFINE z == Len(Zones(h))
           n == h.instances * z
           item(i) == [name |-> <<h.name, i - 1>>, selector |-> podLabels(h, (i - 1) % z, (i - 1) \div z)]
           a == [i \in 1..n |-> item(i)]
           y == [name |-> <<h.name>>, selector |-> [group |-> h.name]]
           b == <<y>>
           c == a \o b
<1>1. z \in Nat \ {0} /\ h.instances \in Nat
    BY ZonesList
<1>2. n \in Nat
    BY <1>1
<1>3. serviceToKubeServices(h) = <<>> \/ serviceToKubeServices(h) = c
    BY Zenon DEF serviceToKubeServices
<1> HIDE DEF z, n
<1>4. IsList(a) /\ DOMAIN a = 1..n /\ \A i \in 1..n : a[i] = item(i)
    <2>1. a \in [1..n -> {item(i) : i \in 1..n}]
        OBVIOUS
    <2>2. \A i \in 1..n : a[i] = item(i)
        BY Zenon
    <2> HIDE DEF a, item
    <2> QED BY <1>2, <2>1, <2>2, ListOf
<1>5. \A i \in Nat : item(i).name = <<h.name, i - 1>> /\ item(i).selector = podLabels(h, (i - 1) % z, (i - 1) \div z)
    OBVIOUS
<1>6. y.name = <<h.name>>
    OBVIOUS
<1> HIDE DEF item, a, y
<1>7. IsList(b) /\ ToSet(b) = {y}
    BY ListOfOne DEF ToSet
<1> HIDE DEF b
<1>8. ToSet(c) \subseteq ToSet(a) \cup {y}
    BY <1>4, <1>7, ListJoin
<1>9. x \in ToSet(a) \cup {y}
    <2>1. ToSet(<<>>) = {}
        BY DEF ToSet
    <2> HIDE DEF c
    <2> QED BY <1>3, <1>8, <2>1
<1>10. x # y
    <2>1. <<h.name, k>> # <<h.name>>
        <3>1. Len(<<h.name, k>>) = 2 /\ Len(<<h.name>>) = 1
            OBVIOUS
        <3> QED BY <3>1
    <2> QED BY <1>6, <2>1
<1>11. PICK i \in 1..n : x = item(i)
    BY <1>4, <1>9, <1>10 DEF ToSet
<1>12. i \in Nat /\ i - 1 \in Int /\ k = i - 1
    <2>1. i \in Nat
        BY <1>2, <1>11
    <2>2. x.name = <<h.name, i - 1>>
        BY <1>5, <1>11, <2>1
    <2>3. <<h.name, k>> = <<h.name, i - 1>>
        BY <2>2, Zenon
    <2> QED BY <2>1, <2>3
<1>13. x.selector = podLabels(h, (i - 1) % z, (i - 1) \div z)
    BY <1>5, <1>11, <1>12, Zenon
<1> QED BY <1>12, <1>13, Zenon DEF z

\* The pods that a Service selects, which is one for an instance.
LEMMA SelectsOne ==
    ASSUME NEW x, NEW g, NEW a, NEW b, x.selector = podLabels(g, a, b)
    PROVE  /\ \A s \in Selected(x) : s \in Slots /\ Deployed(s) /\ s[1] = g.name /\ s[2] = a /\ s[3] = b
           /\ \A s \in Slots : Deployed(s) /\ s[1] = g.name /\ s[2] = a /\ s[3] = b => s \in Selected(x)
<1> DEFINE sel == x.selector
<1>1. sel.group = g.name /\ sel.zone = a /\ sel.ordinal = b /\ "zone" \in DOMAIN sel
    BY DEF podLabels
<1> HIDE DEF sel
<1>2. \A s \in Slots : s \in Selected(x) <=> Deployed(s) /\ s[1] = g.name /\ s[2] = a /\ s[3] = b
    BY <1>1, Zenon DEF Selected, sel
<1>3. Selected(x) \subseteq Slots
    BY DEF Selected
<1> QED BY <1>2, <1>3

LEMMA SmallDivision ==
    ASSUME NEW a \in Nat, NEW b \in Nat, a < b PROVE a % b = a /\ a \div b = 0
OBVIOUS

LEMMA DivisionByOne ==
    ASSUME NEW a \in Nat PROVE a % 1 = 0 /\ a \div 1 = a
OBVIOUS

\* In a group with one zone or one replica every pod is rendered with the address
\* of the Service that selects it (template-render's index, jobInstances' order).
THEOREM AddressesAreOwn == Spec => []OwnAddress
<1>1. Inv => OwnAddress
    <2> SUFFICES ASSUME Inv, NEW s \in NamedSlots, pods[s].phase # "none",
                        Len(Zones(GroupOf(manifest, s[1]))) = 1 \/ The(resource[s[1]]).replicas = 1,
                        NEW n \in DOMAIN pods[s].rendered,
                        NEW x \in ServicesNamed(s[1], pods[s].rendered[n].spec.address)
                 PROVE  Selected(x) = {s}
        BY Zenon DEF OwnAddress, AddressIsOwn
    <2> DEFINE g == GroupOf(manifest, s[1])
               k == specIndex(s)
               z == Len(Zones(g))
    <2>1. OutputsInv /\ PodsInv /\ s \in Slots
        BY DEF Inv, NamedSlots
    <2>2. /\ There(s) /\ PodUp(Context(s), pods[s]) /\ Context(s).index = k /\ Context(s).group = g
        BY <2>1, IsUp
    <2>3. /\ k = s[2] * g.instances + s[3] /\ k \in Nat /\ s[2] \in 0..(z - 1) /\ s[3] \in 0..(g.instances - 1)
          /\ g.instances \in Nat /\ z \in Nat /\ GroupOK(g)
        BY <2>1, <2>2, IndexIs
    <2>4. k + 1 \in DOMAIN jobInstances(g) /\ pods[s].rendered[n].spec = jobInstances(g)[k + 1]
        BY <2>2 DEF PodUp, RenderedFor
    <2>5. s[1] = g.name /\ g.lifecycle \in Services
        BY <2>1, <2>2, DeployedIs DEF There
    <2>6. PICK h : GroupOK(h) /\ GroupLike(h, g) /\ ResourceOK(The(resource[s[1]]), h)
        BY <2>1, <2>2, ThereIs
    <2>7. /\ h.name = g.name /\ Zones(h) = Zones(g) /\ The(resource[s[1]]).services = serviceToKubeServices(h)
          /\ The(resource[s[1]]).replicas = g.instances
        BY <2>5, <2>6, SameInstances DEF GroupLike, ResourceOK
    <2>8. (z = 1 /\ k = s[3] /\ s[2] = 0) \/ (k = s[2] /\ s[3] = 0)
        <3>1. z = 1 \/ g.instances = 1
            BY <2>7
        <3>2. CASE z = 1
            <4>1. s[2] = 0
                BY <2>3, <3>2
            <4> QED BY <2>3, <3>2, <4>1
        <3>3. CASE g.instances = 1
            <4>1. s[3] = 0
                BY <2>3, <3>3
            <4> QED BY <2>3, <3>3, <4>1
        <3> QED BY <3>1, <3>2, <3>3
    <2>9. k % z = s[2] /\ k \div z = s[3]
        <3>1. CASE z = 1 /\ k = s[3] /\ s[2] = 0
            BY <2>3, <3>1, DivisionByOne
        <3>2. CASE k = s[2] /\ s[3] = 0
            <4>1. k < z
                BY <2>3, <3>2
            <4> QED BY <2>3, <3>2, <4>1, SmallDivision
        <3> QED BY <2>8, <3>1, <3>2
    <2>10. pods[s].rendered[n].spec.address = <<h.name, k>>
        <3>1. \A i \in DOMAIN jobInstances(g) : jobInstances(g)[i].address = <<g.name, i - 1>>
            BY <2>3, Instances
        <3>2. (k + 1) - 1 = k
            BY <2>3
        <3>3. PICK i : i = k + 1
            OBVIOUS
        <3> HIDE DEF k, g
        <3>4. i \in DOMAIN jobInstances(g) /\ pods[s].rendered[n].spec = jobInstances(g)[i] /\ i - 1 = k
            <4>1. i \in DOMAIN jobInstances(g)
                BY <2>4, <3>3, Zenon
            <4>2. pods[s].rendered[n].spec = jobInstances(g)[i]
                BY <2>4, <3>3, Zenon
            <4>3. i - 1 = k
                BY <3>2, <3>3, Zenon
            <4> QED BY <4>1, <4>2, <4>3
        <3>5. jobInstances(g)[i].address = <<g.name, i - 1>>
            BY <3>1, <3>4
        <3> QED BY <2>7, <3>4, <3>5, Zenon
    <2>11. x \in ToSet(serviceToKubeServices(h)) /\ x.name = <<h.name, k>>
        BY <2>7, <2>10 DEF ServicesNamed
    <2> HIDE DEF g, k, z
    <2>12. x.selector = podLabels(h, k % Len(Zones(h)), k \div Len(Zones(h)))
        BY <2>3, <2>6, <2>11, ServiceSelects
    <2>13. x.selector = podLabels(h, s[2], s[3])
        BY <2>7, <2>9, <2>12, Zenon DEF z
    <2>14. s \in Selected(x)
        BY <2>1, <2>2, <2>5, <2>7, <2>13, SelectsOne DEF There
    <2>15. ASSUME NEW t \in Selected(x) PROVE t = s
        <3>1. t \in Slots /\ t[1] = s[1] /\ t[2] = s[2] /\ t[3] = s[3]
            BY <2>5, <2>7, <2>13, SelectsOne
        <3>2. t = <<t[1], t[2], t[3]>> /\ s = <<s[1], s[2], s[3]>>
            BY <2>1, <3>1, SlotIs
        <3> QED BY <3>1, <3>2, Zenon
    <2> QED BY <2>14, <2>15
<1> QED BY <1>1, Invariant, PTL

-----------------------------------------------------------------------------
(* Values.                                                                 *)

\* The values that may be in the with-ops manifest of m.
ValuesIn(m) ==
    {At(m, l) : l \in Leaves(m)} \cup {Secrets[v] : v \in ImplicitVariables(m) \cap DOMAIN Secrets}

\* The Secret of an implicit variable is a text or names an explicit variable, and
\* the Secret of an explicit one has the file that is asked for.
VariablesThere ==
    \A m \in Manifests :
        /\ \A v \in ImplicitVariables(m) \cap DOMAIN Secrets : IsRef(Secrets[v]) => Secrets[v].var \in m.variables
        /\ \A v \in ValuesIn(m) : IsRef(v) /\ v.var \in m.variables => FileOf(v) \in DOMAIN Files[v.var]

\* Every property of a job reaches the desired manifest with its variables
\* replaced: through the Go map's order of implicit variables, addons, two YAML
\* documents with anchors and aliases, and interpolation (WithOpsManifest,
\* Marshal, InterpolateVariables).  Left out, as in the property, are references
\* to a field of an implicit variable and long texts under a quoted key.
THEOREM ValuesAreDelivered == VariablesThere /\ Spec => []ValuesDelivered
<1>1. VariablesThere /\ Inv => ValuesDelivered
    <2> SUFFICES ASSUME VariablesThere, Inv, NEW l \in Leaves(manifest), ~FieldOfImplicit(At(manifest, l)),
                        ~(Quoted(l) /\ Expected(At(manifest, l)).text \in LongTexts),
                        NEW d \in desired.value
                 PROVE  l \in Leaves(d) /\ At(d, l) = Expected(At(manifest, l))
        BY Zenon DEF ValuesDelivered, DeliveredAt
    <2> DEFINE Vs == ImplicitVariables(manifest)
               files == [v \in manifest.variables |-> Files[v]]
               a == At(manifest, l)
               first == Replaced(a, Vs)
    <2>1. manifest \in Manifests /\ (Direct(manifest) => Delivered(d, manifest, files))
        BY Zenon DEF Inv, OutputsInv
    <2>2. Direct(manifest)
        <3> SUFFICES ASSUME NEW v \in Vs \cap DOMAIN Secrets, Secrets[v].var \in Vs PROVE FALSE
            BY Zenon DEF Direct
        <3>1. IsRef(Secrets[v]) /\ Secrets[v].var \notin manifest.variables
            BY DEF ImplicitVariables, IsRef
        <3> QED BY <2>1, <3>1, Zenon DEF VariablesThere
    <2>3. /\ Vs \subseteq DOMAIN Secrets
          /\ ~(Quoted(l) /\ Filled(first, files).text \in LongTexts)
                => l \in Leaves(d) /\ At(d, l) = Filled(first, files)
        BY <2>1, <2>2, Zenon DEF Delivered
    <2>4. a.var \in Vs <=> IsRef(a) /\ a.var \notin manifest.variables
        BY DEF ImplicitVariables, IsRef
    <2>5. first \in ValuesIn(manifest)
        <3>1. CASE a.var \in Vs /\ a.field = ""
            <4>1. first = Secrets[a.var]
                BY <3>1, Zenon DEF Replaced
            <4> HIDE DEF first, a
            <4> QED BY <2>3, <3>1, <4>1 DEF ValuesIn
        <3>2. CASE ~(a.var \in Vs /\ a.field = "")
            <4>1. first = a
                BY <3>2, Zenon DEF Replaced
            <4> QED BY <4>1 DEF ValuesIn
        <3> QED BY <3>1, <3>2
    <2>6. first = IF IsImplicit(a) THEN Secrets[a.var] ELSE a
        BY <2>4, Zenon DEF Replaced, IsImplicit, FieldOfImplicit
    <2>7. Expected(a) = IF IsRef(first) /\ first.var \in manifest.variables
                        THEN Files[first.var][FileOf(first)] ELSE first
        <3> HIDE DEF first, a
        <3> QED BY <2>6, Zenon DEF Expected, FileOf
    <2>8. ~(Quoted(l) /\ Expected(a).text \in LongTexts)
        BY Zenon
    <2> HIDE DEF first, a, Vs
    <2>9. IsRef(first) /\ first.var \in manifest.variables => FileOf(first) \in DOMAIN Files[first.var]
        BY <2>1, <2>5, Zenon DEF VariablesThere
    <2>10. DOMAIN files = manifest.variables /\ \A v \in manifest.variables : files[v] = Files[v]
        BY Zenon
    <2> HIDE DEF files
    <2>11. Filled(first, files) = IF IsRef(first) /\ first.var \in manifest.variables
                                  THEN Files[first.var][FileOf(first)] ELSE first
        BY <2>9, <2>10, Zenon DEF Filled
    <2>12. Filled(first, files) = Expected(a)
        BY <2>7, <2>11, Zenon
    <2> QED BY <2>3, <2>8, <2>12, Zenon DEF a
<1>2. VariablesThere => [](VariablesThere)
    <2>1. VariablesThere => VariablesThere'
        BY DEF VariablesThere
    <2> QED BY <2>1, PTL
<1> QED BY <1>1, <1>2, Invariant, PTL

-----------------------------------------------------------------------------
(* Links reach their providers.                                            *)

\* The slot of the instance with number k.
SlotAt(h, k) == <<h.name, k % Len(Zones(h)), k \div Len(Zones(h))>>

LEMMA DivisionIs ==
    ASSUME NEW z \in Nat \ {0}, NEW n \in Nat, NEW k \in Nat, k < n * z
    PROVE  /\ k % z \in 0..(z - 1) /\ k \div z \in 0..(n - 1)
           /\ k = (k \div z) * z + (k % z)
<1> DEFINE q == k \div z
           r == k % z
<1>1. q \in Int /\ r \in 0..(z - 1) /\ k = z * q + r
    OBVIOUS
<1> HIDE DEF q, r
<1>2. z * q = q * z
    BY <1>1
<1>3. q >= 0
    <2> SUFFICES ASSUME q < 0 PROVE FALSE
        BY <1>1
    <2>1. PICK p \in Nat : q = -1 - p
        <3>1. -1 - q \in Nat /\ q = -1 - (-1 - q)
            BY <1>1
        <3> QED BY <3>1
    <2>2. z * q = -z - z * p /\ z * p \in Nat
        BY <2>1
    <2> QED BY <1>1, <2>2
<1>4. q < n
    <2> SUFFICES ASSUME q >= n PROVE FALSE
        BY <1>1
    <2>1. PICK p \in Nat : q = n + p
        <3>1. q - n \in Nat /\ q = n + (q - n)
            BY <1>1
        <3> QED BY <3>1
    <2>2. z * q = n * z + z * p /\ z * p \in Nat /\ n * z \in Nat
        BY <2>1
    <2> QED BY <1>1, <2>2
<1>5. q \in 0..(n - 1)
    BY <1>1, <1>3, <1>4
<1> QED BY <1>1, <1>2, <1>5 DEF q, r

LEMMA DivisionOf ==
    ASSUME NEW z \in Nat \ {0}, NEW n \in Nat, NEW a \in 0..(z - 1), NEW b \in 0..(n - 1)
    PROVE  /\ b * z + a \in Nat /\ b * z + a < n * z
           /\ (b * z + a) % z = a /\ (b * z + a) \div z = b
<1> DEFINE k == b * z + a
<1>1. k \in Nat /\ k < n * z
    <2>1. PICK p \in Nat : n = b + 1 + p
        <3>1. n - b - 1 \in Nat /\ n = b + 1 + (n - b - 1)
            OBVIOUS
        <3> QED BY <3>1
    <2>2. n * z = b * z + z + p * z /\ p * z \in Nat /\ b * z \in Nat
        BY <2>1
    <2> QED BY <2>2
<1> HIDE DEF k
<1> DEFINE q == k \div z
           r == k % z
<1>2. r \in 0..(z - 1) /\ q \in 0..(n - 1) /\ k = q * z + r
    BY <1>1, DivisionIs
<1> HIDE DEF q, r
<1>3. q * z + r = b * z + a
    BY <1>2 DEF k
<1>4. z \in Nat /\ q \in Nat /\ r \in Nat /\ r < z /\ b \in Nat /\ a \in Nat /\ a < z
    BY <1>2
<1>5. q = b /\ r = a
    BY <1>3, <1>4, Digits
<1> QED BY <1>1, <1>5 DEF k, q, r

\* A group with Services has one for every instance.
LEMMA ServiceThere ==
    ASSUME NEW h, GroupOK(h), serviceToKubeServices(h) # <<>>, NEW k \in Nat, k < h.instances * Len(Zones(h))
    PROVE  \E x \in ToSet(serviceToKubeServices(h)) : x.name = <<h.name, k>>
<1> DEFINE z == Len(Zones(h))
           n == h.instances * z
           item(i) == [name |-> <<h.name, i - 1>>, selector |-> podLabels(h, (i - 1) % z, (i - 1) \div z)]
           a == [i \in 1..n |-> item(i)]
           b == <<[name |-> <<h.name>>, selector |-> [group |-> h.name]]>>
           c == a \o b
<1>1. z \in Nat \ {0} /\ h.instances \in Nat
    BY ZonesList
<1>2. n \in Nat /\ k + 1 \in 1..n /\ (k + 1) - 1 = k
    BY <1>1
<1>3. serviceToKubeServices(h) = c
    BY Zenon DEF serviceToKubeServices
<1> HIDE DEF z, n
<1>4. IsList(a) /\ DOMAIN a = 1..n /\ \A i \in 1..n : a[i] = item(i)
    <2>1. a \in [1..n -> {item(i) : i \in 1..n}]
        OBVIOUS
    <2>2. \A i \in 1..n : a[i] = item(i)
        BY Zenon
    <2> HIDE DEF a, item
    <2> QED BY <1>2, <2>1, <2>2, ListOf
<1>5. item(k + 1).name = <<h.name, k>>
    <2>1. item(k + 1).name = <<h.name, (k + 1) - 1>>
        OBVIOUS
    <2> HIDE DEF item
    <2> QED BY <1>2, <2>1, Zenon
<1> HIDE DEF item, a
<1>6. IsList(b)
    BY ListOfOne
<1> HIDE DEF b
<1>7. k + 1 \in DOMAIN c /\ c[k + 1] = a[k + 1]
    BY <1>2, <1>4, <1>6, ConcatLeft, ConcatLen, ListConcat, ListIs
<1> HIDE DEF c
<1>8. c[k + 1] \in ToSet(c) /\ c[k + 1].name = <<h.name, k>>
    BY <1>2, <1>4, <1>5, <1>7, Zenon DEF ToSet
<1> QED BY <1>3, <1>8, Zenon

\* The group h of the desired manifest is deployed under its name, with Services.
Serves(h) ==
    /\ GroupOK(h) /\ GroupLike(h, GroupOf(manifest, h.name)) /\ h.lifecycle \in Services
    /\ manifest \in Manifests /\ \E i \in DOMAIN manifest.groups : GroupOf(manifest, h.name) = manifest.groups[i]
    /\ resource[h.name].value # {} /\ serviceToKubeServices(h) # <<>>
    /\ The(resource[h.name]).services = serviceToKubeServices(h)

Reached(name, address) == UNION {Selected(x) : x \in ServicesNamed(name, address)}

\* The address of an instance leads to the one pod at its slot.
LEMMA ReachedIs ==
    ASSUME NEW h, Serves(h), NEW k \in Nat, k < h.instances * Len(Zones(h))
    PROVE  /\ Reached(h.name, <<h.name, k>>) = {SlotAt(h, k)}
           /\ SlotAt(h, k) \in Slots /\ Deployed(SlotAt(h, k))
<1> DEFINE g == GroupOf(manifest, h.name)
           z == Len(Zones(h))
           a == k % z
           b == k \div z
           s == SlotAt(h, k)
<1>1. z \in Nat \ {0} /\ h.instances \in Nat
    BY ZonesList DEF Serves
<1>2. a \in 0..(z - 1) /\ b \in 0..(h.instances - 1)
    <2> HIDE DEF z
    <2> QED BY <1>1, DivisionIs DEF z
<1> HIDE DEF a, b, z
<1>3. s = <<h.name, a, b>>
    BY Zenon DEF SlotAt, a, b, z
<1>4. GroupOK(h) /\ g.name = h.name /\ g.lifecycle \in Services /\ g.instances = h.instances /\ Len(Zones(g)) = z
    BY SameInstances DEF Serves, GroupLike, z
<1>5. PICK i \in DOMAIN manifest.groups : g = manifest.groups[i]
    BY Zenon DEF Serves
<1>6. manifest \in Manifests /\ resource[h.name].value # {}
    BY Zenon DEF Serves
<1> HIDE DEF g, s
<1>7. s[1] = h.name /\ s[2] = a /\ s[3] = b
    BY <1>3
<1>8. s \in SlotsOf(g)
    BY <1>2, <1>3, <1>4 DEF SlotsOf
<1>9. s \in Slots
    BY <1>5, <1>6, <1>8 DEF Slots
<1>10. Deployed(s)
    <2>1. h.name \in GroupsIn(manifest)
        BY <1>4, <1>5 DEF GroupsIn
    <2> QED BY <1>6, <1>7, <1>8, <2>1, Zenon DEF Deployed, g
<1>11. ASSUME NEW x \in ServicesNamed(h.name, <<h.name, k>>) PROVE Selected(x) = {s}
    <2>1. x \in ToSet(serviceToKubeServices(h)) /\ x.name = <<h.name, k>>
        BY DEF ServicesNamed, Serves
    <2>2. x.selector = podLabels(h, a, b)
        BY <1>4, <2>1, ServiceSelects DEF a, b, z
    <2>3. s \in Selected(x)
        BY <1>7, <1>9, <1>10, <2>2, SelectsOne
    <2>4. ASSUME NEW t \in Selected(x) PROVE t = s
        <3>1. t \in Slots /\ t[1] = s[1] /\ t[2] = s[2] /\ t[3] = s[3]
            BY <1>7, <2>2, SelectsOne
        <3>2. t = <<t[1], t[2], t[3]>> /\ s = <<s[1], s[2], s[3]>>
            BY <1>9, <3>1, SlotIs
        <3> QED BY <3>1, <3>2, Zenon
    <2> QED BY <2>3, <2>4
<1>12. ServicesNamed(h.name, <<h.name, k>>) # {}
    <2>1. PICK x \in ToSet(serviceToKubeServices(h)) : x.name = <<h.name, k>>
        BY <1>4, ServiceThere DEF Serves
    <2> QED BY <2>1 DEF ServicesNamed, Serves
<1>13. Reached(h.name, <<h.name, k>>) = {s}
    BY <1>11, <1>12 DEF Reached
<1> QED BY <1>9, <1>10, <1>13, Zenon DEF s

\* The names of the groups of a manifest differ.
NamesDiffer ==
    \A m \in Manifests : \A i, j \in DOMAIN m.groups : m.groups[i].name = m.groups[j].name => i = j

\* The link of a consumer is one of a group of the desired manifest.
LEMMA ConsumedIs ==
    ASSUME OutputsInv, NEW c \in Consumers, NEW n \in DOMAIN ConsumingJob(c).links
    PROVE  \E d \in desired.value : LinkOf(ConsumingJob(c).links[n], d)
<1>1. PICK g \in GroupNames : resolved[g].value # {} /\ c \in ConsumersIn(g)
    BY DEF Consumers
<1> DEFINE jobs == The(resolved[g])
<1>2. PICK i \in DOMAIN jobs : c[1] = g /\ c[2] = i
    <2> DEFINE wanted(job) == Specs[<<job.release, job.name>>].consumes
               of(i) == {<<g, i, k>> : k \in DOMAIN wanted(jobs[i].job)}
    <2>1. c \in UNION {of(i) : i \in DOMAIN jobs}
        BY <1>1, Zenon DEF ConsumersIn
    <2>2. PICK i \in DOMAIN jobs : c \in of(i)
        BY <2>1
    <2>3. PICK k : c = <<g, i, k>>
        BY <2>2
    <2> QED BY <2>3
<1>3. jobs \in resolved[g].value
    BY <1>1, TheIn
<1>4. PICK d \in desired.value : JobsLinked(jobs, d)
    <2>1. GroupOutputs(g)
        BY DEF OutputsInv
    <2> QED BY <1>3, <2>1 DEF GroupOutputs
<1> HIDE DEF jobs
<1>5. ConsumingJob(c) = jobs[i]
    BY <1>2, Zenon DEF ConsumingJob, jobs
<1>6. LinkOf(jobs[i].links[n], d)
    BY <1>4, <1>5 DEF JobsLinked, Linked
<1> QED BY <1>5, <1>6

\* The group of a link serves, if its resource has Services.
LEMMA ProviderServes ==
    ASSUME NamesDiffer, OutputsInv, NEW d \in desired.value, NEW i \in DOMAIN d.groups,
           resource[d.groups[i].name].value # {}, The(resource[d.groups[i].name]).services # <<>>
    PROVE  Serves(d.groups[i])
<1> DEFINE a == d.groups[i].name
           r == The(resource[a])
<1>1. manifest \in Manifests /\ ManifestOK(manifest) /\ Shaped(d, manifest)
    BY RenderingAssumption DEF OutputsInv
<1>2. i \in DOMAIN manifest.groups /\ manifest.groups[i].name = a
    BY <1>1 DEF Shaped, GroupLike
<1> HIDE DEF a
<1>3. a \in GroupNames
    BY <1>1, <1>2 DEF GroupNames
<1>4. r \in resource[a].value
    BY TheIn DEF a
<1> HIDE DEF r
<1>5. PICK e \in desired.value : \E h \in ByName(e.groups, a) : ResourceOK(r, h)
    BY <1>3, <1>4 DEF OutputsInv, GroupOutputs
<1>6. PICK h \in ByName(e.groups, a) : ResourceOK(r, h)
    BY <1>5
<1>7. d = e
    BY DEF OutputsInv, IsOut, Pending
<1>8. h = d.groups[i]
    <2>1. PICK j \in DOMAIN d.groups : h = d.groups[j] /\ d.groups[j].name = a
        BY <1>6, <1>7 DEF ByName
    <2>2. j \in DOMAIN manifest.groups /\ manifest.groups[j].name = a
        BY <1>1, <2>1 DEF Shaped, GroupLike
    <2>3. j = i
        BY <1>1, <1>2, <2>2 DEF NamesDiffer
    <2> QED BY <2>1, <2>3
<1>9. /\ h.name = a /\ GroupLike(h, GroupOf(manifest, a))
      /\ \E k \in DOMAIN manifest.groups : GroupOf(manifest, a) = manifest.groups[k]
    BY <1>1, <1>6, <1>7, NamedGroup
<1>10. GroupOK(h)
    BY <1>9 DEF GroupLike
<1>11. r.services # <<>> /\ resource[a].value # {}
    BY DEF r, a
<1>12. h.lifecycle \in Services /\ r.services = serviceToKubeServices(h)
    BY <1>6, <1>11, Zenon DEF ResourceOK
<1>13. Serves(h)
    BY <1>1, <1>9, <1>10, <1>11, <1>12, Zenon DEF Serves, r
<1> QED BY <1>8, <1>13, Zenon

\* Each of the instances leads to one pod of the group, which is in its zone, and
\* together they lead to all.
ReachAll(name, instances) ==
    /\ UNION {Reached(name, instances[i].address) : i \in DOMAIN instances}
         = {s \in Slots : Deployed(s) /\ s[1] = name}
    /\ \A i \in DOMAIN instances : \E s \in Slots :
          /\ Reached(name, instances[i].address) = {s}
          /\ Zones(GroupOf(manifest, s[1]))[s[2] + 1] = instances[i].az
    /\ \A i, k \in DOMAIN instances : i # k =>
          Reached(name, instances[i].address) \cap Reached(name, instances[k].address) = {}

LEMMA InstancesReach ==
    ASSUME NEW h, Serves(h) PROVE ReachAll(h.name, jobInstances(h))
<1> DEFINE all == jobInstances(h)
           z == Len(Zones(h))
           n == h.instances
           to(i) == Reached(h.name, all[i].address)
<1>1. z \in Nat \ {0} /\ n \in Nat /\ GroupOK(h)
    BY ZonesList DEF Serves
<1>2. DOMAIN all = 1..(n * z) /\ \A i \in DOMAIN all : all[i].address = <<h.name, i - 1>>
    BY <1>1, Instances
<1>3. \A i \in DOMAIN all : all[i].az = Zones(h)[((i - 1) % z) + 1]
    <2> DEFINE item(k) == [index |-> k - 1, az |-> Zones(h)[((k - 1) % z) + 1],
                           bootstrap |-> k = 1, instance |-> (k - 1) \div z, address |-> <<h.name, k - 1>>]
    <2>1. DOMAIN all = 1..(n * z) /\ \A i \in 1..(n * z) : all[i] = item(i)
        BY Zenon DEF jobInstances
    <2>2. \A i : item(i).az = Zones(h)[((i - 1) % z) + 1]
        OBVIOUS
    <2> HIDE DEF item, all, z
    <2> QED BY <2>1, <2>2, Zenon
<1> HIDE DEF all, z, n
<1>4. \A i \in DOMAIN all : i \in Nat /\ i - 1 \in Nat /\ i - 1 < n * z
    <2>1. n * z \in Nat
        BY <1>1
    <2> QED BY <1>2, <2>1
<1>5. ASSUME NEW i \in DOMAIN all
      PROVE  to(i) = {SlotAt(h, i - 1)} /\ SlotAt(h, i - 1) \in Slots /\ Deployed(SlotAt(h, i - 1))
    <2> DEFINE k == i - 1
    <2>1. k \in Nat /\ k < h.instances * Len(Zones(h)) /\ all[i].address = <<h.name, k>>
        BY <1>2, <1>4 DEF n, z
    <2> HIDE DEF k
    <2>2. /\ Reached(h.name, <<h.name, k>>) = {SlotAt(h, k)}
          /\ SlotAt(h, k) \in Slots /\ Deployed(SlotAt(h, k))
        BY <2>1, ReachedIs
    <2> QED BY <2>1, <2>2, Zenon DEF k
<1> HIDE DEF to
<1>6. \A k : SlotAt(h, k)[1] = h.name /\ SlotAt(h, k)[2] = k % z /\ SlotAt(h, k)[3] = k \div z
    BY DEF SlotAt, z
<1>7. Zones(GroupOf(manifest, h.name)) = Zones(h)
    BY SameInstances DEF Serves
<1>8. ASSUME NEW i \in DOMAIN all
      PROVE  \E s \in Slots : to(i) = {s} /\ Zones(GroupOf(manifest, s[1]))[s[2] + 1] = all[i].az
    <2> DEFINE s == SlotAt(h, i - 1)
    <2>1. s[1] = h.name /\ s[2] = (i - 1) % z
        BY <1>6, Zenon
    <2>2. to(i) = {s} /\ s \in Slots
        BY <1>5
    <2>3. all[i].az = Zones(h)[((i - 1) % z) + 1]
        BY <1>3
    <2> HIDE DEF s
    <2>4. Zones(GroupOf(manifest, s[1]))[s[2] + 1] = all[i].az
        BY <1>7, <2>1, <2>3, Zenon
    <2> QED BY <2>2, <2>4
<1>9. ASSUME NEW i \in DOMAIN all, NEW k \in DOMAIN all, i # k PROVE to(i) \cap to(k) = {}
    <2> SUFFICES ASSUME SlotAt(h, i - 1) = SlotAt(h, k - 1) PROVE i = k
        BY <1>5, <1>9
    <2> DEFINE x == i - 1
               y == k - 1
    <2>1. x \in Nat /\ y \in Nat /\ x < n * z /\ y < n * z
        BY <1>4
    <2>2. i = x + 1 /\ k = y + 1
        BY <1>4
    <2>3. SlotAt(h, x) = SlotAt(h, y)
        OBVIOUS
    <2> HIDE DEF x, y
    <2>4. x % z = y % z /\ x \div z = y \div z
        BY <1>6, <2>3, Zenon
    <2>5. x = (x \div z) * z + (x % z) /\ y = (y \div z) * z + (y % z)
        BY <1>1, <2>1, DivisionIs
    <2>6. x = y
        BY <2>4, <2>5, Zenon
    <2> QED BY <2>2, <2>6
<1>10. ASSUME NEW s \in Slots, Deployed(s), s[1] = h.name PROVE \E i \in DOMAIN all : s \in to(i)
    <2> DEFINE g == GroupOf(manifest, s[1])
               k == s[3] * z + s[2]
    <2>1. g.instances = n /\ Len(Zones(g)) = z
        BY <1>7, <1>10 DEF Serves, GroupLike, n, z
    <2>2. s[2] \in 0..(Len(Zones(g)) - 1) /\ s[3] \in 0..(g.instances - 1)
        BY <1>10, DeployedIs
    <2>3. s = <<s[1], s[2], s[3]>>
        BY SlotIs
    <2> HIDE DEF g
    <2>4. k \in Nat /\ k < n * z /\ k % z = s[2] /\ k \div z = s[3]
        <3> DEFINE a == s[2]
                   b == s[3]
        <3>1. a \in 0..(z - 1) /\ b \in 0..(n - 1)
            BY <2>1, <2>2, Zenon
        <3> HIDE DEF a, b
        <3>2. b * z + a \in Nat /\ b * z + a < n * z /\ (b * z + a) % z = a /\ (b * z + a) \div z = b
            BY <1>1, <3>1, DivisionOf
        <3> QED BY <3>2, Zenon DEF a, b
    <2> HIDE DEF k
    <2>5. SlotAt(h, k) = s
        BY <1>10, <2>3, <2>4, Zenon DEF SlotAt, z
    <2>6. k + 1 \in DOMAIN all /\ (k + 1) - 1 = k
        <3>1. n * z \in Nat
            BY <1>1
        <3> QED BY <1>2, <2>4, <3>1
    <2>7. to(k + 1) = {SlotAt(h, (k + 1) - 1)}
        BY <1>5, <2>6
    <2>8. s \in to(k + 1)
        BY <2>5, <2>6, <2>7
    <2> QED BY <2>6, <2>8
<1>11. UNION {to(i) : i \in DOMAIN all} = {s \in Slots : Deployed(s) /\ s[1] = h.name}
    <2>1. ASSUME NEW i \in DOMAIN all, NEW s \in to(i) PROVE s \in Slots /\ Deployed(s) /\ s[1] = h.name
        <3>1. s = SlotAt(h, i - 1)
            BY <1>5, <2>1
        <3> QED BY <1>5, <1>6, <3>1, Zenon
    <2> QED BY <1>10, <2>1
<1> QED BY <1>8, <1>9, <1>11, Zenon DEF ReachAll, to, all

\* A consumer that goes through the instances of a link reaches every pod of the
\* provider once, in the zone it was told: instances, Services and pods are
\* numbered alike (jobInstances and serviceToKubeServices), and links are
\* collected and looked up with the instances of their own group.
THEOREM LinksReachProviders == NamesDiffer /\ Spec => []LinkReachesProvider
<1>1. ASSUME NamesDiffer, Inv PROVE LinkReachesProvider
    <2> DEFINE link(c, n) == ConsumingJob(c).links[n]
               condition(c, n) == /\ link(c, n) # NoLink /\ resource[link(c, n).address].value # {}
                                  /\ The(resource[link(c, n).address]).services # <<>>
    <2>1. ASSUME NEW c \in Consumers, NEW n \in DOMAIN ConsumingJob(c).links, condition(c, n)
          PROVE  ReachAll(link(c, n).address, link(c, n).instances)
        <3>1. OutputsInv
            BY <1>1 DEF Inv
        <3>2. PICK d \in desired.value : LinkOf(link(c, n), d)
            BY <3>1, ConsumedIs
        <3> DEFINE l == link(c, n)
        <3>3. condition(c, n) /\ l = link(c, n)
            BY <2>1
        <3>4. l # NoLink /\ resource[l.address].value # {} /\ The(resource[l.address]).services # <<>>
            BY <3>3
        <3> HIDE DEF l
        <3>5. PICK i \in DOMAIN d.groups : l.address = d.groups[i].name /\ l.instances = jobInstances(d.groups[i])
            BY <3>2, <3>3, <3>4 DEF LinkOf
        <3> DEFINE h == d.groups[i]
        <3>6. Serves(h)
            BY <1>1, <3>1, <3>4, <3>5, ProviderServes
        <3> HIDE DEF h
        <3>7. l.address = h.name /\ l.instances = jobInstances(h)
            BY <3>5 DEF h
        <3> QED BY <3>3, <3>6, <3>7, InstancesReach, Zenon
    <2> QED BY <2>1, Zenon DEF LinkReachesProvider, ReachAll, Reached
<1>2. NamesDiffer => [](NamesDiffer)
    <2>1. NamesDiffer => NamesDiffer'
        BY DEF NamesDiffer
    <2> QED BY <2>1, PTL
<1> QED BY <1>1, <1>2, Invariant, PTL
=============================================================================
