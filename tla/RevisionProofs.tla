--------------------------- MODULE RevisionProofs ---------------------------
(***************************************************************************)
(* What a version stands for and what cleanup may delete, for every number *)
(* of zones: a version is one revision of the template; a version is       *)
(* deleted only while a newer one that ran is left; volume-management      *)
(* StatefulSets are deleted once their claims are made.                    *)
(***************************************************************************)
EXTENDS ExtendedStatefulSetProofs

(***************************************************************************)
(* A version is one revision.                                              *)
(*                                                                         *)
(* The zones of a version are created one by one, and a reconcile may be   *)
(* cut off after any of them.  What keeps another reconcile from adding    *)
(* the missing zones with another template is the first zone: every        *)
(* reconcile starts there, its name is taken as soon as the version        *)
(* exists, and cleanup never deletes anything of the highest version.      *)
(***************************************************************************)

\* Every StatefulSet that is in the API, on its way to the cache or in it.
Listed == sts \cup seenSts \cup UNION {pending[i] : i \in 1..Len(pending)}

ListedOneRevision ==
    \A s, t \in Listed : ~IsVolumeManagement(s) /\ s.version = t.version => s.rev = t.rev

\* The highest version in the API has its first zone.
TopHasFirstZone ==
    \A v \in Versions(sts) : (\A u \in Versions(sts) : u <= v) =>
        \E t \in sts : t.zone = 0 /\ t.version = v

\* A reconciler past the first zone finds the one it created.
FirstZoneCreated ==
    /\ rc.pc = "list" => rc.zone = 0
    /\ rc.pc = "create" /\ rc.zone # 0 =>
          \E t \in sts : t.zone = 0 /\ t.version = rc.version + 1 /\ t.rev = rc.rev

RevisionInv == GrowInv /\ ListedOneRevision /\ TopHasFirstZone /\ FirstZoneCreated

LEMMA ListedTypes ==
    ASSUME TypeInv
    PROVE  Listed \in SUBSET StatefulSet
BY DEF TypeInv, TypeOK, ApiTypeOK, CacheTypeOK, Listed

\* Nothing listed is above the API's versions.
LEMMA ListedBelowApi ==
    ASSUME GrowInv, NEW s \in Listed, ~IsVolumeManagement(s)
    PROVE  \E v \in Versions(sts) : s.version <= v
<1>1. sts \in SUBSET StatefulSet
    BY DEF GrowInv, TypeInv, TypeOK, ApiTypeOK
<1>2. CASE s \in sts
    <2>1. s.version \in Versions(sts) /\ s.version \in Nat
        BY <1>1, <1>2 DEF Versions, StatefulSet
    <2> QED BY <2>1
<1>3. CASE s \in seenSts
    <2>1. s.version \in Versions(seenSts)
        BY <1>3 DEF Versions
    <2> QED BY <2>1 DEF GrowInv, ListsOrdered, Dominates
<1>4. CASE s \in UNION {pending[i] : i \in 1..Len(pending)}
    <2>1. PICK i \in 1..Len(pending) : s \in pending[i]
        BY <1>4
    <2>2. s.version \in Versions(pending[i])
        BY <2>1 DEF Versions
    <2> QED BY <2>2 DEF GrowInv, ListsOrdered, Dominates
<1> QED BY <1>2, <1>3, <1>4 DEF Listed

\* A write adds nothing to the lists but what it writes.
LEMMA WriteListed ==
    ASSUME TypeInv, NEW S, WriteSts(S), UNCHANGED seenSts
    PROVE  Listed' \subseteq Listed \cup S
<1>1. sts' = S /\ pending' = Append(pending, S) /\ pending \in Seq(SUBSET StatefulSet)
    BY DEF WriteSts, TypeInv, TypeOK, CacheTypeOK
<1>2. /\ Len(pending) \in Nat /\ Len(pending') = Len(pending) + 1
      /\ pending'[Len(pending) + 1] = S
      /\ \A i \in 1..Len(pending) : pending'[i] = pending[i]
    BY <1>1
<1>3. ASSUME NEW i \in 1..Len(pending') PROVE pending'[i] \subseteq Listed \cup S
    <2>1. CASE i = Len(pending) + 1
        BY <1>2, <2>1
    <2>2. CASE i \in 1..Len(pending)
        BY <1>2, <2>2 DEF Listed
    <2> QED BY <1>2, <2>1, <2>2
<1>4. UNION {pending'[i] : i \in 1..Len(pending')} \subseteq Listed \cup S
    BY <1>3
<1> QED BY <1>1, <1>4 DEF Listed

\* Fewer lists hold no more revisions.
LEMMA FewerListed ==
    ASSUME ListedOneRevision, Listed' \subseteq Listed
    PROVE  ListedOneRevision'
BY DEF ListedOneRevision, IsVolumeManagement

\* What a step keeps that does not write StatefulSets.
LEMMA ApiUntouched ==
    ASSUME RevisionInv, UNCHANGED sts
    PROVE  /\ TopHasFirstZone'
           /\ UNCHANGED rc => FirstZoneCreated'
           /\ rc'.pc \notin {"list", "create"} \/ rc'.zone = 0 => FirstZoneCreated'
           /\ UNCHANGED <<seenSts, pending>> => ListedOneRevision'
<1>1. TopHasFirstZone'
    BY DEF RevisionInv, TopHasFirstZone, Versions, IsVolumeManagement
<1>2. UNCHANGED rc => FirstZoneCreated'
    BY DEF RevisionInv, FirstZoneCreated
<1>3. rc'.pc \notin {"list", "create"} \/ rc'.zone = 0 => FirstZoneCreated'
    BY DEF FirstZoneCreated
<1>4. UNCHANGED <<seenSts, pending>> => ListedOneRevision'
    BY FewerListed DEF RevisionInv, Listed
<1> QED BY <1>1, <1>2, <1>3, <1>4

\* One zone of the next version, or a volume-management StatefulSet, is created.
LEMMA CreateRevision ==
    ASSUME RevisionInv, GrowInv', CreateStatefulSet
    PROVE  RevisionInv'
<1>1. /\ WriteSts(sts \cup {Desired}) /\ UNCHANGED seenSts /\ sts' = sts \cup {Desired}
      /\ rc.pc \in {"volumes", "create"} /\ rc' = NextZone /\ ~Exists(Desired)
    BY DEF CreateStatefulSet, WriteSts
<1>2. TypeInv /\ TypeInv' /\ GrowInv
    BY DEF RevisionInv, GrowInv
<1>3. /\ rc.version \in Nat /\ sts \in SUBSET StatefulSet
      /\ rc.pc \in {"idle", "list", "volumes", "create", "status"}
    BY <1>2 DEF TypeInv, TypeOK, WorkerTypeOK, ApiTypeOK
<1>4. /\ Versions(sts) \subseteq Nat /\ \A v \in Versions(sts) : v <= rc.version + 1
    BY <1>1, <1>2, <1>3, VersionTypes DEF GrowInv, ReconcilerVersion
<1>5. Listed' \subseteq Listed \cup {Desired}
    BY <1>1, <1>2, WriteListed DEF Listed
<1>6. Listed \in SUBSET StatefulSet
    BY <1>2, ListedTypes
<1>7. CASE rc.pc = "volumes"
    <2>1. IsVolumeManagement(Desired) /\ Desired.version = 0
        BY <1>7 DEF Desired, IsVolumeManagement
    <2>2. ListedOneRevision'
        BY <1>5, <2>1 DEF RevisionInv, ListedOneRevision, IsVolumeManagement
    <2>3. Versions(sts') = Versions(sts)
        BY <1>1, <2>1 DEF Versions
    <2>4. TopHasFirstZone'
        BY <1>1, <2>3 DEF RevisionInv, TopHasFirstZone
    <2>5. rc'.pc \notin {"list", "create"} \/ rc'.zone = 0
        BY <1>1, <1>2, <1>7 DEF NextZone, TypeInv, TypeOK, WorkerTypeOK
    <2>6. FirstZoneCreated'
        BY <2>5 DEF FirstZoneCreated
    <2> QED BY <2>2, <2>4, <2>6 DEF RevisionInv
<1>8. CASE rc.pc = "create"
    <2>1. Desired.version = rc.version + 1 /\ Desired.zone = rc.zone /\ Desired.rev = rc.rev
        BY <1>8 DEF Desired
    <2>2. rc.zone # 0 => \E t \in sts : t.zone = 0 /\ t.version = rc.version + 1 /\ t.rev = rc.rev
        BY <1>8 DEF RevisionInv, FirstZoneCreated
    <2>3. ASSUME NEW s \in Listed, s.version = rc.version + 1
          PROVE  s.rev = rc.rev
        <3>1. ~IsVolumeManagement(s)
            BY <1>3, <2>3 DEF IsVolumeManagement
        <3>2. PICK v \in Versions(sts) : s.version <= v
            BY <1>2, <3>1, ListedBelowApi
        <3>3. v = rc.version + 1
            BY <1>3, <1>4, <2>3, <3>2
        <3>4. PICK t \in sts : t.zone = 0 /\ t.version = rc.version + 1
            BY <1>4, <3>3 DEF RevisionInv, TopHasFirstZone
        <3>5. rc.zone # 0
            BY <1>1, <2>1, <3>4 DEF Exists, SameName
        <3>6. PICK u \in sts : u.zone = 0 /\ u.version = rc.version + 1 /\ u.rev = rc.rev
            BY <2>2, <3>5
        <3>7. u \in Listed
            BY DEF Listed
        <3> QED BY <2>3, <3>1, <3>6, <3>7 DEF RevisionInv, ListedOneRevision
    <2>4. ListedOneRevision'
        BY <1>5, <2>1, <2>3 DEF RevisionInv, ListedOneRevision, IsVolumeManagement
    <2>5. rc.version + 1 \in Versions(sts')
        BY <1>1, <1>3, <2>1 DEF Versions, IsVolumeManagement
    <2>6. \E t \in sts' : t.zone = 0 /\ t.version = rc.version + 1 /\ t.rev = rc.rev
        BY <1>1, <2>1, <2>2
    <2>7. TopHasFirstZone'
        <3>1. ASSUME NEW v \in Versions(sts'), \A u \in Versions(sts') : u <= v
              PROVE  \E t \in sts' : t.zone = 0 /\ t.version = v
            <4>1. v \in Versions(sts) \/ v = rc.version + 1
                BY <1>1, <2>1 DEF Versions
            <4>2. v <= rc.version + 1 /\ rc.version + 1 <= v /\ v \in Nat
                BY <1>3, <1>4, <2>5, <3>1, <4>1
            <4>3. v = rc.version + 1
                BY <1>3, <4>2
            <4> QED BY <2>6, <4>3
        <3> QED BY <3>1 DEF TopHasFirstZone
    <2>8. rc'.version = rc.version /\ rc'.rev = rc.rev /\ rc'.pc # "list"
        BY <1>1, <1>2, <1>8 DEF NextZone, TypeInv, TypeOK, WorkerTypeOK
    <2>9. FirstZoneCreated'
        BY <2>6, <2>8 DEF FirstZoneCreated
    <2> QED BY <2>4, <2>7, <2>9 DEF RevisionInv
<1> QED BY <1>1, <1>7, <1>8

LEMMA ReconcileRevision == RevisionInv /\ GrowInv' /\ ReconcileStep => RevisionInv'
<1> SUFFICES ASSUME RevisionInv, GrowInv', ReconcileStep PROVE RevisionInv'
    OBVIOUS
<1>1. CASE CreateStatefulSet
    BY <1>1, CreateRevision
<1>2. CASE ~CreateStatefulSet
    <2>1. UNCHANGED <<sts, seenSts, pending>>
        BY <1>2 DEF ReconcileStep, ReconcileGet, ReconcileList, ReconcileListFails,
           CreateAlreadyExists, UpdateStatus, apiVars, cacheVars
    <2>2. rc'.zone = 0
        <3>1. CASE ReconcileList
            <4>1. /\ rc.zone = 0 /\ WorkerTypeOK
                BY <3>1 DEF ReconcileList, RevisionInv, FirstZoneCreated, GrowInv, TypeInv, TypeOK
            <4> QED BY <3>1, <4>1 DEF ReconcileList, WorkerTypeOK
        <3>2. CASE ReconcileGet
            BY <3>2 DEF ReconcileGet, NoReconcile
        <3>3. CASE ReconcileListFails \/ CreateAlreadyExists \/ UpdateStatus
            BY <3>3 DEF ReconcileListFails, RequeueReconcile, CreateAlreadyExists,
               UpdateStatus, NoReconcile
        <3> QED BY <1>2, <3>1, <3>2, <3>3 DEF ReconcileStep
    <2> QED BY <2>1, <2>2, ApiUntouched DEF RevisionInv
<1> QED BY <1>1, <1>2

\* A delete below a version of the API leaves the highest version alone.
LEMMA DeleteRevision ==
    ASSUME RevisionInv, GrowInv', NEW s \in cl.todo, DeleteStatefulSet(s),
           UNCHANGED <<seenSts, rc>>,
           IsVolumeManagement(s) \/ (s.version < cl.max /\ Reached(cl.max))
    PROVE  RevisionInv'
<1>1. CASE Exists(s)
    <2>1. WriteSts({t \in sts : ~SameName(s, t)}) /\ sts' = {t \in sts : ~SameName(s, t)}
        BY <1>1 DEF DeleteStatefulSet, WriteSts
    <2>2. /\ GrowInv /\ TypeInv /\ sts \in SUBSET StatefulSet /\ s \in StatefulSet
          /\ cl.max \in Nat /\ rc.version \in Nat
        BY DEF RevisionInv, GrowInv, TypeInv, TypeOK, ApiTypeOK, WorkerTypeOK
    <2>3. s.version \in Nat /\ Versions(sts) \subseteq Nat \ {0} /\ Versions(seenSts) \subseteq Nat
        BY <2>2, VersionTypes DEF StatefulSet, TypeInv, TypeOK, CacheTypeOK
    <2>4. Listed' \subseteq Listed
        BY <2>1, <2>2, WriteListed DEF Listed
    <2>5. ListedOneRevision'
        BY <2>4, FewerListed DEF RevisionInv
    <2>6. s.version = 0 \/ \E x \in Versions(sts) : s.version < x
        <3>1. CASE IsVolumeManagement(s)
            BY <3>1 DEF IsVolumeManagement
        <3>2. CASE s.version < cl.max /\ Reached(cl.max)
            <4>1. PICK w \in Versions(seenSts) : cl.max <= w
                BY <2>2, <2>3, <3>2 DEF Reached
            <4>2. PICK x \in Versions(sts) : w <= x
                BY <2>2 DEF GrowInv, ListsOrdered, Dominates
            <4>3. s.version < x
                BY <2>2, <2>3, <3>2, <4>1, <4>2
            <4> QED BY <4>3
        <3> QED BY <3>1, <3>2
    <2>7. /\ Versions(sts') \subseteq Versions(sts)
          /\ \A v \in Versions(sts) : v # s.version => v \in Versions(sts')
          /\ \A t \in sts : t.version # s.version => t \in sts'
        BY <2>1 DEF Versions, SameName
    <2>8. TopHasFirstZone'
        <3>1. ASSUME NEW v \in Versions(sts'), \A u \in Versions(sts') : u <= v
              PROVE  \E t \in sts' : t.zone = 0 /\ t.version = v
            <4>1. v \in Nat \ {0} /\ (s.version < v \/ s.version = 0)
                BY <2>3, <2>6, <2>7, <3>1
            <4>2. v # s.version /\ s.version <= v
                BY <2>3, <2>7, <4>1
            <4>3. \A u \in Versions(sts) : u <= v
                BY <2>3, <2>7, <3>1, <4>2
            <4>4. PICK t \in sts : t.zone = 0 /\ t.version = v
                BY <2>7, <4>3 DEF RevisionInv, TopHasFirstZone
            <4> QED BY <2>7, <4>2, <4>4
        <3> QED BY <3>1 DEF TopHasFirstZone
    <2>9. FirstZoneCreated'
        <3>1. ASSUME rc.pc = "create", rc.zone # 0
              PROVE  \E t \in sts' : t.zone = 0 /\ t.version = rc.version + 1 /\ t.rev = rc.rev
            <4>1. PICK t \in sts : t.zone = 0 /\ t.version = rc.version + 1 /\ t.rev = rc.rev
                BY <3>1 DEF RevisionInv, FirstZoneCreated
            <4>2. \A v \in Versions(sts) : v <= rc.version + 1
                BY <2>2, <3>1 DEF GrowInv, ReconcilerVersion
            <4>3. s.version # rc.version + 1
                BY <2>2, <2>3, <2>6, <4>2
            <4> QED BY <2>7, <4>1, <4>3
        <3> QED BY <3>1 DEF RevisionInv, FirstZoneCreated
    <2> QED BY <2>5, <2>8, <2>9 DEF RevisionInv
<1>2. CASE ~Exists(s)
    <2>1. UNCHANGED <<sts, seenSts, pending, rc>>
        BY <1>2 DEF DeleteStatefulSet
    <2> QED BY <2>1, ApiUntouched DEF RevisionInv
<1> QED BY <1>1, <1>2

LEMMA CleanupRevision == RevisionInv /\ GrowInv' /\ CleanupStep => RevisionInv'
<1> SUFFICES ASSUME RevisionInv, GrowInv', CleanupStep PROVE RevisionInv'
    OBVIOUS
<1>1. ASSUME NEW s \in cl.todo, CleanupVolumes(s) PROVE RevisionInv'
    <2>1. IsVolumeManagement(s)
        BY <1>1 DEF CleanupVolumes, RevisionInv, GrowInv, CleanupVersion
    <2> QED BY <1>1, <2>1, DeleteRevision DEF CleanupVolumes
<1>2. ASSUME NEW s \in cl.todo, CleanupDelete(s), ~IsVolumeManagement(s) PROVE RevisionInv'
    <2>1. s.version < cl.max /\ Reached(cl.max)
        BY <1>2 DEF CleanupDelete, RevisionInv, GrowInv, CleanupVersion
    <2> QED BY <1>2, <2>1, DeleteRevision DEF CleanupDelete
<1>3. CASE UNCHANGED <<sts, seenSts, pending, rc>>
    BY <1>3, ApiUntouched DEF RevisionInv
<1>4. ASSUME NEW s \in cl.todo, CleanupDelete(s), IsVolumeManagement(s)
      PROVE  UNCHANGED <<sts, seenSts, pending, rc>>
    BY <1>4 DEF CleanupDelete
<1>5. ASSUME CleanupGet \/ CleanupVersions \/ CleanupVersionsFails \/ CleanupList \/ CleanupDone
             \/ \E s \in cl.todo : CleanupVolumesNotReady(s)
      PROVE  UNCHANGED <<sts, seenSts, pending, rc>>
    BY <1>5 DEF CleanupGet, CleanupVersions, CleanupVersionsFails, CleanupList, CleanupDone,
       CleanupVolumesNotReady, apiVars, cacheVars
<1> QED BY <1>1, <1>2, <1>3, <1>4, <1>5 DEF CleanupStep

LEMMA OtherRevision ==
    RevisionInv /\ GrowInv' /\ (ClusterStep \/ InformerStep \/ Disturbance \/ Restart)
        => RevisionInv'
<1> SUFFICES ASSUME RevisionInv, GrowInv', ClusterStep \/ InformerStep \/ Disturbance \/ Restart
             PROVE  RevisionInv'
    OBVIOUS
<1>1. CASE SyncSts
    <2>1. /\ pending # <<>> /\ seenSts' = Head(pending) /\ pending' = Tail(pending)
          /\ UNCHANGED <<sts, rc>>
        BY <1>1 DEF SyncSts, apiVars
    <2>2. pending \in Seq(SUBSET StatefulSet)
        BY DEF RevisionInv, GrowInv, TypeInv, TypeOK, CacheTypeOK
    <2>3. /\ 1 \in 1..Len(pending) /\ seenSts' = pending[1]
          /\ \A i \in 1..Len(pending') : pending'[i] = pending[i + 1] /\ i + 1 \in 1..Len(pending)
        BY <2>1, <2>2
    <2>4. Listed' \subseteq Listed
        BY <2>1, <2>3 DEF Listed
    <2> QED BY <2>1, <2>4, FewerListed, ApiUntouched DEF RevisionInv
<1>2. CASE Restart
    <2>1. seenSts' = sts /\ pending' = <<>> /\ UNCHANGED <<sts, rc>>
        BY <1>2 DEF Restart
    <2>2. Listed' \subseteq Listed
        BY <2>1 DEF Listed
    <2> QED BY <2>1, <2>2, FewerListed, ApiUntouched DEF RevisionInv
<1>3. CASE ~SyncSts /\ ~Restart
    <2>1. UNCHANGED <<sts, seenSts, pending>> /\ rc' \in {rc, NoReconcile}
        BY <1>3 DEF ClusterStep, UserUpdate, MeltdownEnds, PodReady, PodCollected,
           InformerStep, SyncSpec, SyncStatus, SyncPod, StsEvent, Disturbance, PodFails,
           ConfigChange, ApiErrorInReconcile, ApiErrorInCleanup, Crash, RequeueReconcile,
           RequeueCleanup, apiVars, cacheVars
    <2>2. rc' = NoReconcile => rc'.zone = 0
        BY DEF NoReconcile
    <2> QED BY <2>1, <2>2, ApiUntouched DEF RevisionInv
<1> QED BY <1>1, <1>2, <1>3

LEMMA InitRevision == Init => RevisionInv
<1> SUFFICES ASSUME Init PROVE RevisionInv
    OBVIOUS
<1>1. GrowInv
    BY InitGrow
<1>2. sts = {} /\ seenSts = {} /\ pending = <<>> /\ rc.pc = "idle"
    BY DEF Init, NoReconcile
<1>3. Listed = {}
    BY <1>2 DEF Listed
<1> QED BY <1>1, <1>2, <1>3 DEF RevisionInv, ListedOneRevision, TopHasFirstZone, Versions,
           FirstZoneCreated

LEMMA NextRevision == RevisionInv /\ [Next]_vars => RevisionInv'
<1> SUFFICES ASSUME RevisionInv, [Next]_vars PROVE RevisionInv'
    OBVIOUS
<1>1. GrowInv'
    BY NextGrow DEF RevisionInv
<1>2. CASE UNCHANGED vars
    BY <1>1, <1>2, ApiUntouched DEF RevisionInv, vars
<1> QED BY <1>1, <1>2, ReconcileRevision, CleanupRevision, OtherRevision DEF Next

\* Two StatefulSets of one version never come from different revisions of the
\* template, in the API or in the cache, for every number of zones and whatever
\* cuts the loops over the zones short.
THEOREM VersionNamesRevision == Spec => []VersionIsOneRevision
<1>1. RevisionInv => VersionIsOneRevision
    BY DEF RevisionInv, ListedOneRevision, Listed, VersionIsOneRevision
<1> QED BY <1>1, InitRevision, NextRevision, PTL DEF Spec

(***************************************************************************)
(* Cleanup keeps a newer version that has had a ready pod.                 *)
(*                                                                         *)
(* The version that cleanup keeps was ready in a list and in pods that are *)
(* both old when it deletes.  What was listed and is gone by then was      *)
(* deleted by an earlier cleanup, which left a newer version that ran.     *)
(***************************************************************************)

\* History and caches agree: a pod that is or was seen ready has run.
ReadyHasRun == \A p \in pods \cup seenPods : <<p[1], p[2]>> \in ran

NewerRan(v) == \E t \in sts : t.version > v /\ <<t.zone, t.version>> \in ran

\* A listed StatefulSet that is not in the API any more has such a successor.
GoneHaveNewer == \A s \in Listed : IsVolumeManagement(s) \/ Exists(s) \/ NewerRan(s.version)

\* The version that cleanup found available, or a newer one, is there and ran.
MaxHasRun ==
    cl.pc \in {"list", "delete"} /\ cl.max > 0 =>
        \E t \in sts : t.version >= cl.max /\ <<t.zone, t.version>> \in ran

KeepInv == GrowInv /\ ReadyHasRun /\ GoneHaveNewer /\ MaxHasRun

LEMMA InitKeep == Init => KeepInv
<1> SUFFICES ASSUME Init PROVE KeepInv
    OBVIOUS
<1>1. GrowInv
    BY InitGrow
<1>2. /\ sts = {} /\ seenSts = {} /\ pending = <<>> /\ pods = {} /\ seenPods = {}
      /\ cl.pc = "idle"
    BY DEF Init, NoCleanup
<1>3. GoneHaveNewer
    BY <1>2 DEF GoneHaveNewer, Listed
<1> QED BY <1>1, <1>2, <1>3 DEF KeepInv, ReadyHasRun, MaxHasRun

\* The parts about the API's StatefulSets, as long as none is deleted.
LEMMA NothingDeleted ==
    ASSUME KeepInv, sts \subseteq sts', ran \subseteq ran'
    PROVE  /\ Listed' \subseteq Listed \cup sts' => GoneHaveNewer'
           /\ UNCHANGED cl \/ cl'.pc \notin {"list", "delete"} => MaxHasRun'
<1>1. \A s : Exists(s) => Exists(s)'
    BY DEF Exists
<1>2. \A v : NewerRan(v) => NewerRan(v)'
    BY DEF NewerRan
<1>3. \A s \in sts' : Exists(s)'
    BY DEF Exists, SameName
<1>4. Listed' \subseteq Listed \cup sts' => GoneHaveNewer'
    BY <1>1, <1>2, <1>3 DEF KeepInv, GoneHaveNewer, IsVolumeManagement
<1>5. UNCHANGED cl \/ cl'.pc \notin {"list", "delete"} => MaxHasRun'
    BY DEF KeepInv, MaxHasRun
<1> QED BY <1>4, <1>5

LEMMA ReadyUnchanged ==
    ASSUME KeepInv, UNCHANGED <<pods, seenPods, ran>>
    PROVE  ReadyHasRun'
BY DEF KeepInv, ReadyHasRun

LEMMA ReconcileKeep == KeepInv /\ GrowInv' /\ ReconcileStep => KeepInv'
<1> SUFFICES ASSUME KeepInv, GrowInv', ReconcileStep PROVE KeepInv'
    OBVIOUS
<1>1. UNCHANGED <<pods, seenPods, ran, cl>>
    BY DEF ReconcileStep, ReconcileGet, ReconcileList, ReconcileListFails, CreateStatefulSet,
       CreateAlreadyExists, UpdateStatus, apiVars, cacheVars
<1>2. CASE CreateStatefulSet
    <2>1. WriteSts(sts \cup {Desired}) /\ UNCHANGED seenSts /\ sts' = sts \cup {Desired}
        BY <1>2 DEF CreateStatefulSet, WriteSts
    <2>2. Listed' \subseteq Listed \cup sts'
        BY <2>1, WriteListed DEF KeepInv, GrowInv
    <2> QED BY <1>1, <2>1, <2>2, NothingDeleted, ReadyUnchanged DEF KeepInv
<1>3. CASE ~CreateStatefulSet
    <2>1. UNCHANGED <<sts, seenSts, pending>>
        BY <1>3 DEF ReconcileStep, ReconcileGet, ReconcileList, ReconcileListFails,
           CreateAlreadyExists, UpdateStatus, apiVars, cacheVars
    <2>2. Listed' = Listed
        BY <2>1 DEF Listed
    <2> QED BY <1>1, <2>1, <2>2, NothingDeleted, ReadyUnchanged DEF KeepInv
<1> QED BY <1>2, <1>3

\* What is deleted leaves a newer version that ran.
LEMMA DeleteLeavesNewer ==
    ASSUME KeepInv, NEW s \in cl.todo, DeleteStatefulSet(s), UNCHANGED <<ran, seenSts>>,
           IsVolumeManagement(s) \/ (cl.pc = "delete" /\ s.version < cl.max),
           NEW u \in sts \ sts', ~IsVolumeManagement(u)
    PROVE  NewerRan(u.version)'
<1>1. /\ sts' = {t \in sts : ~SameName(s, t)} /\ SameName(s, u)
      /\ s.version = u.version
    BY DEF DeleteStatefulSet, WriteSts, SameName
<1>2. s.version < cl.max /\ cl.pc = "delete"
    BY <1>1 DEF IsVolumeManagement
<1>3. s \in StatefulSet /\ cl.max \in Nat /\ sts \in SUBSET StatefulSet
    BY DEF KeepInv, GrowInv, TypeInv, TypeOK, WorkerTypeOK, ApiTypeOK
<1>4. s.version \in Nat /\ cl.max > 0
    BY <1>2, <1>3 DEF StatefulSet
<1>5. PICK t \in sts : t.version >= cl.max /\ <<t.zone, t.version>> \in ran
    BY <1>2, <1>4 DEF KeepInv, MaxHasRun
<1>6. t.version > s.version /\ t.version # s.version
    <2>1. t.version \in Nat
        BY <1>3, <1>5 DEF StatefulSet
    <2> QED BY <1>2, <1>3, <1>4, <1>5, <2>1
<1>7. t \in sts'
    BY <1>1, <1>6 DEF SameName
<1> QED BY <1>1, <1>5, <1>6, <1>7 DEF NewerRan

LEMMA DeleteKeep ==
    ASSUME KeepInv, GrowInv', NEW s \in cl.todo, DeleteStatefulSet(s),
           UNCHANGED <<pods, seenPods, ran, seenSts>>,
           IsVolumeManagement(s) \/ (cl.pc = "delete" /\ s.version < cl.max)
    PROVE  KeepInv'
<1>1. ReadyHasRun'
    BY ReadyUnchanged
<1>2. /\ TypeInv /\ sts \in SUBSET StatefulSet /\ s \in StatefulSet
      /\ cl.max \in Nat /\ Listed \in SUBSET StatefulSet
    BY ListedTypes DEF KeepInv, GrowInv, TypeInv, TypeOK, ApiTypeOK, WorkerTypeOK
<1>3. CASE Exists(s)
    <2>1. /\ WriteSts({t \in sts : ~SameName(s, t)}) /\ sts' = {t \in sts : ~SameName(s, t)}
          /\ cl' = [cl EXCEPT !.todo = @ \ {s}]
        BY <1>3 DEF DeleteStatefulSet, WriteSts
    <2>2. Listed' \subseteq Listed
        BY <1>2, <2>1, WriteListed DEF Listed
    <2>3. \A u \in sts \ sts' : IsVolumeManagement(u) \/ NewerRan(u.version)'
        BY DeleteLeavesNewer
    <2>4. ASSUME NEW v \in Nat, NewerRan(v) PROVE NewerRan(v)'
        <3>1. PICK t \in sts : t.version > v /\ <<t.zone, t.version>> \in ran
            BY <2>4 DEF NewerRan
        <3>2. t.version \in Nat /\ ~IsVolumeManagement(t)
            BY <1>2, <3>1 DEF StatefulSet, IsVolumeManagement
        <3>3. CASE t \in sts'
            BY <3>1, <3>3 DEF NewerRan
        <3>4. CASE t \notin sts'
            <4>1. PICK u \in sts' : u.version > t.version /\ <<u.zone, u.version>> \in ran'
                BY <2>3, <3>2, <3>4 DEF NewerRan
            <4>2. u.version \in Nat
                BY <1>2, <2>1, <4>1 DEF StatefulSet
            <4>3. u.version > v
                BY <3>1, <3>2, <4>1, <4>2
            <4> QED BY <4>1, <4>3 DEF NewerRan
        <3> QED BY <3>3, <3>4
    <2>5. ASSUME NEW x \in Listed, ~IsVolumeManagement(x) PROVE Exists(x)' \/ NewerRan(x.version)'
        <3>1. x.version \in Nat
            BY <1>2 DEF StatefulSet
        <3>2. CASE NewerRan(x.version)
            BY <2>4, <3>1, <3>2
        <3>3. CASE Exists(x)
            <4>1. PICK u \in sts : SameName(x, u)
                BY <3>3 DEF Exists
            <4>2. x.version = u.version /\ ~IsVolumeManagement(u)
                BY <2>5, <4>1 DEF SameName, IsVolumeManagement
            <4>3. CASE u \in sts'
                BY <4>1, <4>3 DEF Exists
            <4>4. CASE u \notin sts'
                BY <2>3, <4>2, <4>4
            <4> QED BY <4>3, <4>4
        <3> QED BY <2>5, <3>2, <3>3 DEF KeepInv, GoneHaveNewer
    <2>6. GoneHaveNewer'
        BY <2>2, <2>5 DEF GoneHaveNewer, IsVolumeManagement
    <2>7. cl'.pc = cl.pc /\ cl'.max = cl.max
        BY <1>2, <2>1 DEF TypeInv, TypeOK, WorkerTypeOK
    <2>8. MaxHasRun'
        <3> SUFFICES ASSUME cl.pc \in {"list", "delete"}, cl.max > 0
                     PROVE  \E t \in sts' : t.version >= cl.max /\ <<t.zone, t.version>> \in ran'
            BY <2>7 DEF MaxHasRun
        <3>1. PICK t \in sts : t.version >= cl.max /\ <<t.zone, t.version>> \in ran
            BY DEF KeepInv, MaxHasRun
        <3>2. t.version \in Nat /\ s.version \in Nat
            BY <1>2, <3>1 DEF StatefulSet
        <3>3. s.version < cl.max
            BY <1>2, <3>2 DEF IsVolumeManagement
        <3>4. t.version # s.version
            BY <1>2, <3>1, <3>2, <3>3
        <3>5. t \in sts'
            BY <2>1, <3>4 DEF SameName
        <3> QED BY <3>1, <3>5
    <2> QED BY <1>1, <2>6, <2>8 DEF KeepInv
<1>4. CASE ~Exists(s)
    <2>1. UNCHANGED <<sts, pending>> /\ cl'.pc = "idle"
        BY <1>4 DEF DeleteStatefulSet, RequeueCleanup, NoCleanup
    <2>2. Listed' = Listed
        BY <2>1 DEF Listed
    <2> QED BY <1>1, <2>1, <2>2, NothingDeleted DEF KeepInv
<1> QED BY <1>3, <1>4

\* The highest version that is ready in the cache: it is in the API still, or one
\* that is newer and ran is.
LEMMA AvailableHasRun ==
    ASSUME KeepInv, NEW chosen \in LastListed(seenSts), NEW max, max # 0,
           MaxAvailableVersion(chosen, max)
    PROVE  \E t \in sts : t.version >= max /\ <<t.zone, t.version>> \in ran
<1>1. PICK s \in chosen : s.version = max /\ IsReady(s)
    BY DEF MaxAvailableVersion
<1>2. s \in seenSts /\ s \in Listed
    BY <1>1 DEF LastListed, Listed
<1>3. PICK i \in Ordinals(s) : Pod(s, i) \in seenPods
    BY <1>1 DEF IsReady
<1>4. <<s.zone, s.version>> \in ran
    BY <1>3 DEF KeepInv, ReadyHasRun, Pod
<1>5. /\ s \in StatefulSet /\ s.version \in Nat /\ sts \in SUBSET StatefulSet
    BY <1>2 DEF KeepInv, GrowInv, TypeInv, TypeOK, CacheTypeOK, ApiTypeOK, StatefulSet
<1>6. Exists(s) \/ NewerRan(s.version)
    BY <1>1, <1>2 DEF KeepInv, GoneHaveNewer, IsVolumeManagement
<1>7. CASE Exists(s)
    BY <1>1, <1>4, <1>5, <1>7 DEF Exists, SameName
<1>8. CASE NewerRan(s.version)
    <2>1. PICK t \in sts : t.version > s.version /\ <<t.zone, t.version>> \in ran
        BY <1>8 DEF NewerRan
    <2>2. t.version \in Nat
        BY <1>5, <2>1 DEF StatefulSet
    <2> QED BY <1>1, <1>5, <2>1, <2>2
<1> QED BY <1>6, <1>7, <1>8

LEMMA CleanupKeep == KeepInv /\ GrowInv' /\ CleanupStep => KeepInv'
<1> SUFFICES ASSUME KeepInv, GrowInv', CleanupStep PROVE KeepInv'
    OBVIOUS
<1>1. ASSUME NEW s \in cl.todo, CleanupVolumes(s) PROVE KeepInv'
    <2>1. IsVolumeManagement(s)
        BY <1>1 DEF CleanupVolumes, KeepInv, GrowInv, CleanupVersion
    <2> QED BY <1>1, <2>1, DeleteKeep DEF CleanupVolumes
<1>2. ASSUME NEW s \in cl.todo, CleanupDelete(s), ~IsVolumeManagement(s) PROVE KeepInv'
    <2>1. s.version < cl.max /\ cl.pc = "delete"
        BY <1>2 DEF CleanupDelete, KeepInv, GrowInv, CleanupVersion
    <2> QED BY <1>2, <2>1, DeleteKeep DEF CleanupDelete
<1>3. ASSUME UNCHANGED <<sts, seenSts, pending, pods, seenPods, ran>> PROVE MaxHasRun' => KeepInv'
    <2>1. Listed' = Listed
        BY <1>3 DEF Listed
    <2> QED BY <1>3, <2>1, NothingDeleted, ReadyUnchanged DEF KeepInv
<1>4. CASE CleanupVersions
    <2>1. UNCHANGED <<sts, seenSts, pending, pods, seenPods, ran>>
        BY <1>4 DEF CleanupVersions, apiVars, cacheVars
    <2>2. PICK chosen \in LastListed(seenSts) : \E max \in {0} \cup Versions(chosen) :
             /\ MaxAvailableVersion(chosen, max)
             /\ cl' = IF \E v, w \in Versions(seenSts) : v # w
                      THEN [NoCleanup EXCEPT !.pc = "list", !.max = max]
                      ELSE NoCleanup
        BY <1>4 DEF CleanupVersions
    <2>3. PICK max : /\ MaxAvailableVersion(chosen, max)
                     /\ cl' \in {NoCleanup, [NoCleanup EXCEPT !.pc = "list", !.max = max]}
        BY <2>2
    <2>4. cl'.pc = "idle" \/ cl'.max = max
        <3>1. /\ NoCleanup.pc = "idle"
              /\ [NoCleanup EXCEPT !.pc = "list", !.max = max].max = max
            BY DEF NoCleanup
        <3> QED BY <2>3, <3>1
    <2>5. max # 0 => \E t \in sts : t.version >= max /\ <<t.zone, t.version>> \in ran
        BY <2>3, AvailableHasRun
    <2>6. MaxHasRun'
        BY <2>1, <2>4, <2>5 DEF MaxHasRun
    <2> QED BY <1>3, <2>1, <2>6
<1>5. CASE CleanupList
    <2>1. /\ UNCHANGED <<sts, seenSts, pending, pods, seenPods, ran>>
          /\ cl.pc = "list"
        BY <1>5 DEF CleanupList, apiVars, cacheVars
    <2>2. cl'.max = cl.max
        BY <1>5 DEF CleanupList, KeepInv, GrowInv, TypeInv, TypeOK, WorkerTypeOK
    <2>3. MaxHasRun'
        BY <2>1, <2>2 DEF KeepInv, MaxHasRun
    <2> QED BY <1>3, <2>1, <2>3
<1>6. ASSUME NEW s \in cl.todo, CleanupVolumesNotReady(s) PROVE KeepInv'
    <2>1. /\ UNCHANGED <<sts, seenSts, pending, pods, seenPods, ran>>
          /\ cl' \in {NoCleanup, [cl EXCEPT !.todo = @ \ {s}]} /\ cl.pc = "volumes"
        BY <1>6 DEF CleanupVolumesNotReady, RequeueCleanup, apiVars, cacheVars
    <2>2. cl'.pc \in {"idle", "volumes"}
        BY <2>1 DEF NoCleanup, KeepInv, GrowInv, TypeInv, TypeOK, WorkerTypeOK
    <2>3. MaxHasRun'
        BY <2>2 DEF MaxHasRun
    <2> QED BY <1>3, <2>1, <2>3
<1>7. ASSUME CleanupGet \/ CleanupVersionsFails \/ CleanupDone
             \/ \E s \in cl.todo : CleanupDelete(s) /\ IsVolumeManagement(s)
      PROVE  KeepInv'
    <2>1. /\ UNCHANGED <<sts, seenSts, pending, pods, seenPods, ran>>
        BY <1>7 DEF CleanupGet, CleanupVersionsFails, CleanupDone, CleanupDelete, apiVars, cacheVars
    <2>2. CleanupGet => MaxHasRun'
        BY DEF CleanupGet, NoCleanup, MaxHasRun
    <2>3. ASSUME ~CleanupGet PROVE MaxHasRun'
        <3>1. cl' = NoCleanup
            BY <1>7, <2>3 DEF CleanupVersionsFails, CleanupDone, CleanupDelete, RequeueCleanup
        <3> QED BY <3>1 DEF NoCleanup, MaxHasRun
    <2>4. MaxHasRun'
        BY <2>2, <2>3
    <2> QED BY <1>3, <2>1, <2>4
<1> QED BY <1>1, <1>2, <1>4, <1>5, <1>6, <1>7 DEF CleanupStep

LEMMA InformerKeep == KeepInv /\ GrowInv' /\ (InformerStep \/ Restart) => KeepInv'
<1> SUFFICES ASSUME KeepInv, GrowInv', InformerStep \/ Restart PROVE KeepInv'
    OBVIOUS
<1>1. UNCHANGED <<sts, ran, cl, pods>>
    BY DEF InformerStep, SyncSpec, SyncStatus, SyncSts, SyncPod, StsEvent, Restart, apiVars
<1>2. seenPods' \subseteq seenPods \cup pods
    BY DEF InformerStep, SyncSpec, SyncStatus, SyncSts, SyncPod, StsEvent, Restart, cacheVars
<1>3. ReadyHasRun'
    BY <1>1, <1>2 DEF KeepInv, ReadyHasRun
<1>4. Listed' \subseteq Listed
    <2>1. CASE SyncSts
        <3>1. pending # <<>> /\ seenSts' = Head(pending) /\ pending' = Tail(pending)
            BY <2>1 DEF SyncSts
        <3>2. pending \in Seq(SUBSET StatefulSet)
            BY DEF KeepInv, GrowInv, TypeInv, TypeOK, CacheTypeOK
        <3>3. /\ 1 \in 1..Len(pending) /\ seenSts' = pending[1]
              /\ \A i \in 1..Len(pending') : pending'[i] = pending[i + 1] /\ i + 1 \in 1..Len(pending)
            BY <3>1, <3>2
        <3> QED BY <1>1, <3>3 DEF Listed
    <2>2. CASE Restart
        <3>1. seenSts' = sts /\ pending' = <<>>
            BY <2>2 DEF Restart
        <3> QED BY <1>1, <3>1 DEF Listed
    <2>3. CASE ~SyncSts /\ ~Restart
        <3>1. UNCHANGED <<seenSts, pending>>
            BY <2>3 DEF InformerStep, SyncSpec, SyncStatus, SyncPod, StsEvent, cacheVars
        <3> QED BY <1>1, <3>1 DEF Listed
    <2> QED BY <2>1, <2>2, <2>3
<1> QED BY <1>1, <1>3, <1>4, NothingDeleted DEF KeepInv

LEMMA ClusterKeep == KeepInv /\ GrowInv' /\ (ClusterStep \/ Disturbance) => KeepInv'
<1> SUFFICES ASSUME KeepInv, GrowInv', ClusterStep \/ Disturbance PROVE KeepInv'
    OBVIOUS
<1>1. UNCHANGED <<sts, seenSts, pending, seenPods>> /\ cl' \in {cl, NoCleanup}
    BY DEF ClusterStep, UserUpdate, MeltdownEnds, PodReady, PodCollected, Disturbance, PodFails,
       ConfigChange, ApiErrorInReconcile, ApiErrorInCleanup, Crash, RequeueCleanup, apiVars, cacheVars
<1>2. ran \subseteq ran' /\ ReadyHasRun'
    <2>1. ASSUME NEW s \in sts, NEW i \in Ordinals(s), PodReady(s, i)
          PROVE  ran \subseteq ran' /\ ReadyHasRun'
        <3>1. pods' = pods \cup {Pod(s, i)} /\ ran' = ran \cup {<<s.zone, s.version>>}
            BY <2>1 DEF PodReady
        <3>2. Pod(s, i)[1] = s.zone /\ Pod(s, i)[2] = s.version
            BY DEF Pod
        <3> QED BY <1>1, <3>1, <3>2 DEF KeepInv, ReadyHasRun
    <2>2. CASE pods' \subseteq pods /\ UNCHANGED ran
        BY <1>1, <2>2 DEF KeepInv, ReadyHasRun
    <2>3. CASE ~\E s \in sts : \E i \in Ordinals(s) : PodReady(s, i)
        <3>1. pods' \subseteq pods /\ UNCHANGED ran
            BY <2>3 DEF ClusterStep, UserUpdate, MeltdownEnds, PodCollected, Disturbance, PodFails,
               ConfigChange, ApiErrorInReconcile, ApiErrorInCleanup, Crash, apiVars
        <3> QED BY <2>2, <3>1
    <2> QED BY <2>1, <2>3
<1>3. Listed' = Listed
    BY <1>1 DEF Listed
<1>4. UNCHANGED cl \/ cl'.pc \notin {"list", "delete"}
    BY <1>1 DEF NoCleanup
<1> QED BY <1>1, <1>2, <1>3, <1>4, NothingDeleted DEF KeepInv

LEMMA NextKeep == KeepInv /\ [Next]_vars => KeepInv'
<1> SUFFICES ASSUME KeepInv, [Next]_vars PROVE KeepInv'
    OBVIOUS
<1>1. GrowInv'
    BY NextGrow DEF KeepInv
<1>2. CASE UNCHANGED vars
    <2>1. UNCHANGED <<sts, seenSts, pending, pods, seenPods, ran, cl>> /\ Listed' = Listed
        BY <1>2 DEF vars, Listed
    <2> QED BY <1>1, <2>1, NothingDeleted, ReadyUnchanged DEF KeepInv
<1> QED BY <1>1, <1>2, ReconcileKeep, CleanupKeep, InformerKeep, ClusterKeep DEF Next

LEMMA StepKeepsNewer ==
    ASSUME KeepInv, [Next]_vars, NEW u \in sts \ sts', ~IsVolumeManagement(u)
    PROVE  \E t \in sts' : t.version > u.version /\ <<t.zone, t.version>> \in ran
<1>1. ASSUME NEW s \in cl.todo, CleanupVolumes(s) \/ (CleanupDelete(s) /\ ~IsVolumeManagement(s))
      PROVE  \E t \in sts' : t.version > u.version /\ <<t.zone, t.version>> \in ran
    <2>1. DeleteStatefulSet(s) /\ UNCHANGED <<ran, seenSts>>
        BY <1>1 DEF CleanupVolumes, CleanupDelete
    <2>2. IsVolumeManagement(s) \/ (cl.pc = "delete" /\ s.version < cl.max)
        BY <1>1 DEF CleanupVolumes, CleanupDelete, KeepInv, GrowInv, CleanupVersion
    <2>3. NewerRan(u.version)'
        BY <2>1, <2>2, DeleteLeavesNewer
    <2> QED BY <2>1, <2>3 DEF NewerRan
<1>2. ReconcileStep => sts \subseteq sts'
    BY DEF ReconcileStep, ReconcileGet, ReconcileList, ReconcileListFails, CreateStatefulSet,
       WriteSts, CreateAlreadyExists, UpdateStatus, apiVars
<1>3. ASSUME CleanupStep,
             ~\E s \in cl.todo : CleanupVolumes(s) \/ (CleanupDelete(s) /\ ~IsVolumeManagement(s))
      PROVE  UNCHANGED sts
    BY <1>3 DEF CleanupStep, CleanupGet, CleanupVolumesNotReady, CleanupDelete, CleanupVersions,
       CleanupVersionsFails, CleanupList, CleanupDone, apiVars
<1>4. ClusterStep \/ InformerStep \/ Disturbance \/ Restart => UNCHANGED sts
    BY DEF ClusterStep, UserUpdate, MeltdownEnds, PodReady, PodCollected, InformerStep, SyncSpec,
       SyncStatus, SyncSts, SyncPod, StsEvent, Disturbance, PodFails, ConfigChange,
       ApiErrorInReconcile, ApiErrorInCleanup, Crash, Restart, apiVars
<1> QED BY <1>1, <1>2, <1>3, <1>4 DEF Next, vars

\* Cleanup deletes a version only while a newer one is left that has had a ready
\* pod, however old the lists and the pods are that it decided from, and whatever
\* another cleanup, a crash or an API error came in between (cleanupStatefulSets).
THEOREM CleanupLeavesNewer == Spec => CleanupKeepsNewer
<1>1. Spec => []KeepInv
    BY InitKeep, NextKeep, PTL DEF Spec
<1>2. KeepInv /\ [Next]_vars =>
        [\A s \in sts \ sts' : ~IsVolumeManagement(s) =>
            \E t \in sts' : t.version > s.version /\ <<t.zone, t.version>> \in ran]_vars
    BY StepKeepsNewer
<1> QED BY <1>1, <1>2, PTL DEF Spec, CleanupKeepsNewer

(***************************************************************************)
(* Volumes of templates that never scale up.                               *)
(*                                                                         *)
(* A volume-management StatefulSet is deleted by name when all pods of the *)
(* one in an old list were seen ready.  They had made their claims, and    *)
(* the one of that name in the API is of the same or a later revision,     *)
(* which then needs no other claims.                                       *)
(***************************************************************************)

\* Volume claims are there from the first revision on, and a revision that has
\* them has no more replicas than the ones before it.
NeverScalesUp ==
    \A r, q \in 1..MaxRev : r <= q /\ Revisions[q].volumes =>
        Revisions[r].volumes /\ Revisions[q].replicas <= Revisions[r].replicas

Known == Listed \cup cl.todo

\* A volume-management pod that is or was seen ready has made its claim.
ClaimsMade == \A p \in pods \cup seenPods : p[2] = 0 => <<p[1], p[3]>> \in claims

\* Nothing known is of a later revision than the one the worker holds.
RevisionsInOrder ==
    /\ \A s \in Known : s.rev <= seenSpec
    /\ seenSpec <= spec
    /\ rc.pc # "idle" => rc.rev <= seenSpec /\ \A s \in Known : s.rev <= rc.rev

VolumesLatest ==
    \A t \in sts : IsVolumeManagement(t) =>
        /\ Revisions[t.rev].volumes
        /\ \A s \in Known : IsVolumeManagement(s) /\ s.zone = t.zone => s.rev <= t.rev

Covered(z, i) ==
    \/ <<z, i>> \in claims
    \/ \E t \in sts : IsVolumeManagement(t) /\ t.zone = z /\ i \in Ordinals(t)

ZonesCovered(Z, r) ==
    Revisions[r].volumes => \A z \in Z : \A i \in 0..(Revisions[r].replicas - 1) : Covered(z, i)

\* All zones, also the ones the version has not got to yet.
VersionsCovered == \A s \in Listed : IsVolumeManagement(s) \/ ZonesCovered(Zones, s.rev)

WorkerCovers ==
    /\ rc.pc = "volumes" =>
          Revisions[rc.rev].volumes /\ ZonesCovered({z \in Zones : z < rc.zone}, rc.rev)
    /\ rc.pc = "create" => ZonesCovered(Zones, rc.rev)
    /\ rc.pc = "list" => rc.zone = 0

VolumeInv ==
    /\ TypeInv /\ ClaimsMade /\ RevisionsInOrder /\ VolumesLatest
    /\ VersionsCovered /\ WorkerCovers

LEMMA InitVolumes == Init => VolumeInv
<1> SUFFICES ASSUME Init PROVE VolumeInv
    OBVIOUS
<1>1. /\ sts = {} /\ seenSts = {} /\ pending = <<>> /\ pods = {} /\ seenPods = {}
      /\ cl.todo = {} /\ rc.pc = "idle" /\ seenSpec = 0 /\ spec = 1
    BY DEF Init, NoCleanup, NoReconcile
<1>2. Known = {} /\ Listed = {}
    BY <1>1 DEF Known, Listed
<1> QED BY <1>1, <1>2, InitTypeInv
        DEF VolumeInv, ClaimsMade, RevisionsInOrder, VolumesLatest, VersionsCovered, WorkerCovers

\* Writes of StatefulSets are creations and deletions.
LEMMA OtherSteps ==
    ASSUME [Next]_vars, ~CreateStatefulSet,
           ~\E s \in cl.todo : CleanupVolumes(s) \/ (CleanupDelete(s) /\ ~IsVolumeManagement(s))
    PROVE  UNCHANGED sts
<1>1. ReconcileStep => UNCHANGED sts
    BY DEF ReconcileStep, ReconcileGet, ReconcileList, ReconcileListFails,
       CreateAlreadyExists, UpdateStatus, apiVars
<1>2. CleanupStep => UNCHANGED sts
    BY DEF CleanupStep, CleanupGet, CleanupVolumesNotReady, CleanupDelete, CleanupVersions,
       CleanupVersionsFails, CleanupList, CleanupDone, apiVars
<1>3. ClusterStep \/ InformerStep \/ Disturbance \/ Restart => UNCHANGED sts
    BY DEF ClusterStep, UserUpdate, MeltdownEnds, PodReady, PodCollected, InformerStep, SyncSpec,
       SyncStatus, SyncSts, SyncPod, StsEvent, Disturbance, PodFails, ConfigChange,
       ApiErrorInReconcile, ApiErrorInCleanup, Crash, Restart, apiVars
<1> QED BY <1>1, <1>2, <1>3 DEF Next, vars

\* Claims stay.
LEMMA ClaimsStay ==
    ASSUME [Next]_vars
    PROVE  claims \subseteq claims'
<1>1. ReconcileStep => UNCHANGED claims
    BY DEF ReconcileStep, ReconcileGet, ReconcileList, ReconcileListFails, CreateStatefulSet,
       CreateAlreadyExists, UpdateStatus, apiVars
<1>2. CleanupStep => UNCHANGED claims
    BY DEF CleanupStep, CleanupGet, CleanupVolumes, CleanupVolumesNotReady, CleanupDelete,
       CleanupVersions, CleanupVersionsFails, CleanupList, CleanupDone, apiVars
<1>3. ClusterStep => claims \subseteq claims'
    BY DEF ClusterStep, UserUpdate, MeltdownEnds, PodReady, PodCollected
<1>4. InformerStep \/ Disturbance \/ Restart => UNCHANGED claims
    BY DEF InformerStep, SyncSpec, SyncStatus, SyncSts, SyncPod, StsEvent, Disturbance, PodFails,
       ConfigChange, ApiErrorInReconcile, ApiErrorInCleanup, Crash, Restart, apiVars
<1> QED BY <1>1, <1>2, <1>3, <1>4 DEF Next, vars

\* What is known grows by what is created and nothing else.
LEMMA KnownGrows ==
    ASSUME TypeInv, [Next]_vars
    PROVE  /\ CreateStatefulSet => Listed' \subseteq Listed \cup {Desired} /\ UNCHANGED cl
           /\ ~CreateStatefulSet => Listed' \subseteq Listed /\ Known' \subseteq Known
<1>1. ASSUME CreateStatefulSet
      PROVE  Listed' \subseteq Listed \cup {Desired} /\ UNCHANGED cl
    <2>1. WriteSts(sts \cup {Desired}) /\ UNCHANGED <<seenSts, cl>>
        BY <1>1 DEF CreateStatefulSet
    <2>2. Listed' \subseteq Listed \cup (sts \cup {Desired})
        BY <2>1, WriteListed
    <2> QED BY <2>1, <2>2 DEF Listed
<1>2. ASSUME UNCHANGED <<sts, seenSts, pending>>, cl'.todo \subseteq cl.todo \cup seenSts
      PROVE  Listed' \subseteq Listed /\ Known' \subseteq Known
    BY <1>2 DEF Listed, Known
<1>3. NoCleanup.todo = {}
    BY DEF NoCleanup
<1>4. ASSUME ReconcileStep, ~CreateStatefulSet
      PROVE  Listed' \subseteq Listed /\ Known' \subseteq Known
    <2>1. UNCHANGED <<sts, seenSts, pending, cl>>
        BY <1>4 DEF ReconcileStep, ReconcileGet, ReconcileList, ReconcileListFails,
           CreateAlreadyExists, UpdateStatus, apiVars, cacheVars
    <2> QED BY <1>2, <2>1
<1>5. ASSUME NEW s \in cl.todo, DeleteStatefulSet(s), UNCHANGED seenSts
      PROVE  Listed' \subseteq Listed /\ Known' \subseteq Known
    <2>1. CASE Exists(s)
        <3>1. /\ WriteSts({t \in sts : ~SameName(s, t)}) /\ cl' = [cl EXCEPT !.todo = @ \ {s}]
            BY <1>5, <2>1 DEF DeleteStatefulSet
        <3>2. cl'.todo \subseteq cl.todo
            BY <3>1 DEF TypeInv, TypeOK, WorkerTypeOK
        <3>3. Listed' \subseteq Listed \cup {t \in sts : ~SameName(s, t)}
            BY <1>5, <3>1, WriteListed
        <3> QED BY <3>2, <3>3 DEF Listed, Known
    <2>2. CASE ~Exists(s)
        <3>1. UNCHANGED <<sts, seenSts, pending>> /\ cl' = NoCleanup
            BY <1>5, <2>2 DEF DeleteStatefulSet, RequeueCleanup
        <3> QED BY <1>2, <1>3, <3>1
    <2> QED BY <2>1, <2>2
<1>6. ASSUME CleanupStep PROVE Listed' \subseteq Listed /\ Known' \subseteq Known
    <2>1. ASSUME NEW s \in cl.todo, CleanupVolumes(s) \/ (CleanupDelete(s) /\ ~IsVolumeManagement(s))
          PROVE  Listed' \subseteq Listed /\ Known' \subseteq Known
        <3>1. DeleteStatefulSet(s) /\ UNCHANGED seenSts
            BY <2>1 DEF CleanupVolumes, CleanupDelete
        <3> QED BY <1>5, <3>1
    <2>2. ASSUME CleanupGet \/ CleanupVersions \/ CleanupVersionsFails \/ CleanupList \/ CleanupDone
                 \/ \E s \in cl.todo : \/ CleanupVolumesNotReady(s)
                                       \/ CleanupDelete(s) /\ IsVolumeManagement(s)
          PROVE  UNCHANGED <<sts, seenSts, pending>>
        BY <2>2 DEF CleanupGet, CleanupVersions, CleanupVersionsFails, CleanupList, CleanupDone,
           CleanupVolumesNotReady, CleanupDelete, apiVars, cacheVars
    <2>3. CleanupGet => cl'.todo \subseteq seenSts
        BY DEF CleanupGet, NoCleanup
    <2>4. CleanupList => cl'.todo \subseteq seenSts
        BY DEF CleanupList, TypeInv, TypeOK, WorkerTypeOK
    <2>5. ASSUME CleanupVersions PROVE cl'.todo = {}
        <3>1. PICK max : cl' \in {NoCleanup, [NoCleanup EXCEPT !.pc = "list", !.max = max]}
            BY <2>5 DEF CleanupVersions
        <3>2. [NoCleanup EXCEPT !.pc = "list", !.max = max].todo = {}
            BY DEF NoCleanup
        <3> QED BY <1>3, <3>1, <3>2
    <2>6. ASSUME NEW s \in cl.todo, CleanupVolumesNotReady(s) PROVE cl'.todo \subseteq cl.todo
        <3>1. cl' = NoCleanup \/ cl' = [cl EXCEPT !.todo = @ \ {s}]
            BY <2>6 DEF CleanupVolumesNotReady, RequeueCleanup
        <3>2. [cl EXCEPT !.todo = @ \ {s}].todo \subseteq cl.todo
            BY DEF TypeInv, TypeOK, WorkerTypeOK
        <3> QED BY <1>3, <3>1, <3>2
    <2>7. ASSUME CleanupVersionsFails \/ CleanupDone
                 \/ \E s \in cl.todo : CleanupDelete(s) /\ IsVolumeManagement(s)
          PROVE  cl'.todo = {}
        <3>1. cl' = NoCleanup
            BY <2>7 DEF CleanupVersionsFails, CleanupDone, CleanupDelete, RequeueCleanup
        <3> QED BY <1>3, <3>1
    <2>8. CASE \E s \in cl.todo : CleanupVolumes(s) \/ (CleanupDelete(s) /\ ~IsVolumeManagement(s))
        BY <2>1, <2>8
    <2>9. CASE ~\E s \in cl.todo : CleanupVolumes(s) \/ (CleanupDelete(s) /\ ~IsVolumeManagement(s))
        <3>1. UNCHANGED <<sts, seenSts, pending>>
            BY <1>6, <2>2, <2>9 DEF CleanupStep
        <3>2. cl'.todo \subseteq cl.todo \cup seenSts
            BY <1>6, <2>3, <2>4, <2>5, <2>6, <2>7, <2>9 DEF CleanupStep
        <3> QED BY <1>2, <3>1, <3>2
    <2> QED BY <2>8, <2>9
<1>7. ASSUME InformerStep \/ Restart PROVE Listed' \subseteq Listed /\ Known' \subseteq Known
    <2>1. UNCHANGED <<sts, cl>>
        BY <1>7 DEF InformerStep, SyncSpec, SyncStatus, SyncSts, SyncPod, StsEvent, Restart, apiVars
    <2>2. CASE SyncSts
        <3>1. pending # <<>> /\ seenSts' = Head(pending) /\ pending' = Tail(pending)
            BY <2>2 DEF SyncSts
        <3>2. pending \in Seq(SUBSET StatefulSet)
            BY DEF TypeInv, TypeOK, CacheTypeOK
        <3>3. /\ 1 \in 1..Len(pending) /\ seenSts' = pending[1]
              /\ \A i \in 1..Len(pending') : pending'[i] = pending[i + 1] /\ i + 1 \in 1..Len(pending)
            BY <3>1, <3>2
        <3> QED BY <2>1, <3>3 DEF Listed, Known
    <2>3. CASE Restart
        <3>1. seenSts' = sts /\ pending' = <<>>
            BY <2>3 DEF Restart
        <3> QED BY <2>1, <3>1 DEF Listed, Known
    <2>4. CASE ~SyncSts /\ ~Restart
        <3>1. UNCHANGED <<seenSts, pending>>
            BY <1>7, <2>4 DEF InformerStep, SyncSpec, SyncStatus, SyncPod, StsEvent, cacheVars
        <3> QED BY <1>2, <2>1, <3>1
    <2> QED BY <2>2, <2>3, <2>4
<1>8. ASSUME ClusterStep \/ Disturbance \/ UNCHANGED vars
      PROVE  Listed' \subseteq Listed /\ Known' \subseteq Known
    <2>1. UNCHANGED <<sts, seenSts, pending>> /\ cl' \in {cl, NoCleanup}
        BY <1>8 DEF ClusterStep, UserUpdate, MeltdownEnds, PodReady, PodCollected, Disturbance,
           PodFails, ConfigChange, ApiErrorInReconcile, ApiErrorInCleanup, Crash, RequeueCleanup,
           apiVars, cacheVars, vars
    <2> QED BY <1>2, <1>3, <2>1
<1> QED BY <1>1, <1>4, <1>6, <1>7, <1>8 DEF Next

\* A volume-management StatefulSet that is deleted leaves all its claims.
LEMMA ClaimsLeft ==
    ASSUME NeverScalesUp, VolumeInv, NEW s \in cl.todo, VolumesReady(s), IsVolumeManagement(s),
           NEW t \in sts, SameName(s, t), NEW i \in Ordinals(t)
    PROVE  <<t.zone, i>> \in claims
<1>1. s \in StatefulSet /\ t \in StatefulSet /\ s \in Known
    BY DEF VolumeInv, TypeInv, TypeOK, ApiTypeOK, WorkerTypeOK, Known
<1>2. s.zone = t.zone /\ s.version = 0 /\ t.version = 0 /\ IsVolumeManagement(t)
    BY DEF SameName, IsVolumeManagement
<1>3. s.rev <= t.rev /\ Revisions[t.rev].volumes
    BY <1>1, <1>2 DEF VolumeInv, VolumesLatest
<1>4. s.rev \in 1..MaxRev /\ t.rev \in 1..MaxRev
    BY <1>1 DEF StatefulSet
<1>5. Revisions[t.rev].replicas <= Revisions[s.rev].replicas
    BY <1>3, <1>4 DEF NeverScalesUp
<1>6. Revisions[t.rev].replicas \in Nat /\ Revisions[s.rev].replicas \in Nat
    BY <1>4, ConstantsAssumption
<1>7. i \in Ordinals(s)
    BY <1>5, <1>6 DEF Ordinals
<1>8. <<s.zone, s.version, i>> \in seenPods
    BY <1>7 DEF VolumesReady, Pod
<1> QED BY <1>2, <1>8 DEF VolumeInv, ClaimsMade

\* What is covered stays covered.
LEMMA CoveredStays ==
    ASSUME NeverScalesUp, VolumeInv, [Next]_vars, NEW z, NEW i, Covered(z, i)
    PROVE  Covered(z, i)'
<1>1. claims \subseteq claims'
    BY ClaimsStay
<1>2. CASE <<z, i>> \in claims
    BY <1>1, <1>2 DEF Covered
<1>3. CASE <<z, i>> \notin claims
    <2>1. PICK t \in sts : IsVolumeManagement(t) /\ t.zone = z /\ i \in Ordinals(t)
        BY <1>3 DEF Covered
    <2>2. CASE t \in sts'
        BY <2>1, <2>2 DEF Covered
    <2>3. CASE t \notin sts'
        <3>1. ~CreateStatefulSet
            BY <2>3 DEF CreateStatefulSet, WriteSts
        <3>2. PICK s \in cl.todo : CleanupVolumes(s) \/ (CleanupDelete(s) /\ ~IsVolumeManagement(s))
            BY <2>3, <3>1, OtherSteps
        <3>3. DeleteStatefulSet(s)
            BY <3>2 DEF CleanupVolumes, CleanupDelete
        <3>4. SameName(s, t)
            BY <2>3, <3>3 DEF DeleteStatefulSet, WriteSts
        <3>5. IsVolumeManagement(s)
            BY <2>1, <3>4 DEF SameName, IsVolumeManagement
        <3>6. VolumesReady(s)
            BY <3>2, <3>5 DEF CleanupVolumes
        <3>7. <<t.zone, i>> \in claims
            BY <2>1, <3>4, <3>5, <3>6, ClaimsLeft
        <3> QED BY <1>3, <2>1, <3>7
    <2> QED BY <2>2, <2>3
<1> QED BY <1>2, <1>3

LEMMA ZonesStay ==
    ASSUME NeverScalesUp, VolumeInv, [Next]_vars, NEW Z, NEW r, ZonesCovered(Z, r)
    PROVE  ZonesCovered(Z, r)'
BY CoveredStays DEF ZonesCovered

LEMMA NextClaims == VolumeInv /\ [Next]_vars => ClaimsMade'
<1> SUFFICES ASSUME VolumeInv, [Next]_vars PROVE ClaimsMade'
    OBVIOUS
<1>1. claims \subseteq claims'
    BY ClaimsStay
<1>2. ASSUME NEW s \in sts, NEW i \in Ordinals(s), PodReady(s, i) PROVE ClaimsMade'
    <2>1. /\ pods' = pods \cup {Pod(s, i)} /\ UNCHANGED seenPods
          /\ IsVolumeManagement(s) => Claim(s, i) \in claims'
        BY <1>2 DEF PodReady, cacheVars
    <2>2. /\ Pod(s, i)[1] = s.zone /\ Pod(s, i)[2] = s.version /\ Pod(s, i)[3] = i
        BY DEF Pod
    <2>3. Pod(s, i)[2] = 0 => <<Pod(s, i)[1], Pod(s, i)[3]>> \in claims'
        BY <2>1, <2>2 DEF IsVolumeManagement, Claim
    <2> QED BY <1>1, <2>1, <2>3 DEF VolumeInv, ClaimsMade
<1>3. CASE ~\E s \in sts : \E i \in Ordinals(s) : PodReady(s, i)
    <2>1. ReconcileStep \/ CleanupStep => UNCHANGED <<pods, seenPods>>
        BY DEF ReconcileStep, ReconcileGet, ReconcileList, ReconcileListFails, CreateStatefulSet,
           CreateAlreadyExists, UpdateStatus, CleanupStep, CleanupGet, CleanupVolumes,
           CleanupVolumesNotReady, CleanupDelete, CleanupVersions, CleanupVersionsFails, CleanupList,
           CleanupDone, apiVars, cacheVars
    <2>2. ClusterStep \/ Disturbance => pods' \subseteq pods /\ UNCHANGED seenPods
        BY <1>3 DEF ClusterStep, UserUpdate, MeltdownEnds, PodCollected, Disturbance, PodFails,
           ConfigChange, ApiErrorInReconcile, ApiErrorInCleanup, Crash, apiVars, cacheVars
    <2>3. InformerStep \/ Restart => seenPods' \subseteq pods \cup seenPods /\ UNCHANGED pods
        BY DEF InformerStep, SyncSpec, SyncStatus, SyncSts, SyncPod, StsEvent, Restart, apiVars, cacheVars
    <2>4. pods' \cup seenPods' \subseteq pods \cup seenPods
        BY <2>1, <2>2, <2>3 DEF Next, vars
    <2> QED BY <1>1, <2>4 DEF VolumeInv, ClaimsMade
<1> QED BY <1>2, <1>3

\* The revision of the worker and those of the API and the cache.
LEMMA RevisionsGrow ==
    ASSUME VolumeInv, [Next]_vars
    PROVE  /\ seenSpec' \in Nat /\ seenSpec <= seenSpec' /\ seenSpec' <= spec'
           /\ rc'.pc # "idle" => \/ rc'.rev = seenSpec
                                 \/ rc.pc # "idle" /\ rc'.rev = rc.rev
           /\ ReconcileGet => UNCHANGED <<sts, seenSpec>>
<1>1. /\ spec \in Nat /\ seenSpec \in Nat /\ seenSpec <= spec
    BY DEF VolumeInv, RevisionsInOrder, TypeInv, TypeOK, ApiTypeOK, CacheTypeOK
<1>2. seenSpec' \in Nat /\ seenSpec <= seenSpec' /\ seenSpec' <= spec'
    <2>1. ReconcileStep \/ CleanupStep \/ Disturbance => UNCHANGED <<spec, seenSpec>>
        BY DEF ReconcileStep, ReconcileGet, ReconcileList, ReconcileListFails, CreateStatefulSet,
           CreateAlreadyExists, UpdateStatus, CleanupStep, CleanupGet, CleanupVolumes,
           CleanupVolumesNotReady, CleanupDelete, CleanupVersions, CleanupVersionsFails, CleanupList,
           CleanupDone, Disturbance, PodFails, ConfigChange, ApiErrorInReconcile,
           ApiErrorInCleanup, Crash, apiVars, cacheVars
    <2>2. ClusterStep => UNCHANGED seenSpec /\ spec' \in {spec, spec + 1}
        BY DEF ClusterStep, UserUpdate, MeltdownEnds, PodReady, PodCollected, cacheVars
    <2>3. InformerStep \/ Restart =>
             UNCHANGED spec /\ (seenSpec' \in {seenSpec, spec} \/ (seenSpec < spec /\ seenSpec' = seenSpec + 1))
        BY DEF InformerStep, SyncSpec, SyncStatus, SyncSts, SyncPod, StsEvent, Restart, apiVars, cacheVars
    <2>4. CASE UNCHANGED <<spec, seenSpec>>
        BY <1>1, <2>4
    <2>5. CASE ClusterStep
        BY <1>1, <2>2, <2>5
    <2>6. CASE InformerStep \/ Restart
        BY <1>1, <2>3, <2>6
    <2> QED BY <2>1, <2>4, <2>5, <2>6 DEF Next, vars
<1>3. rc'.pc # "idle" => rc'.rev = seenSpec \/ (rc.pc # "idle" /\ rc'.rev = rc.rev)
    <2>1. NoReconcile.pc = "idle"
        BY DEF NoReconcile
    <2>2. ReconcileGet => rc'.rev = seenSpec
        BY DEF ReconcileGet, NoReconcile
    <2>3. ReconcileList => rc.pc # "idle" /\ rc'.rev = rc.rev
        BY DEF ReconcileList, VolumeInv, TypeInv, TypeOK, WorkerTypeOK
    <2>4. CreateStatefulSet => rc.pc # "idle" /\ rc'.rev = rc.rev
        BY DEF CreateStatefulSet, NextZone, VolumeInv, TypeInv, TypeOK, WorkerTypeOK
    <2>5. ReconcileListFails \/ CreateAlreadyExists \/ UpdateStatus => rc' = NoReconcile
        BY DEF ReconcileListFails, CreateAlreadyExists, UpdateStatus, RequeueReconcile
    <2>6. CleanupStep \/ ClusterStep \/ InformerStep \/ Disturbance \/ Restart \/ UNCHANGED vars
            => rc' \in {rc, NoReconcile}
        BY DEF CleanupStep, CleanupGet, CleanupVolumes, CleanupVolumesNotReady, CleanupDelete,
           CleanupVersions, CleanupVersionsFails, CleanupList, CleanupDone, ClusterStep, UserUpdate,
           MeltdownEnds, PodReady, PodCollected, InformerStep, SyncSpec, SyncStatus, SyncSts, SyncPod,
           StsEvent, Disturbance, PodFails, ConfigChange, ApiErrorInReconcile, ApiErrorInCleanup,
           Crash, RequeueReconcile, Restart, vars
    <2> QED BY <2>1, <2>2, <2>3, <2>4, <2>5, <2>6 DEF Next, ReconcileStep
<1>4. ReconcileGet => UNCHANGED <<sts, seenSpec>>
    BY DEF ReconcileGet, apiVars, cacheVars
<1> QED BY <1>2, <1>3, <1>4

LEMMA NextInOrder == VolumeInv /\ [Next]_vars => RevisionsInOrder'
<1> SUFFICES ASSUME VolumeInv, [Next]_vars PROVE RevisionsInOrder'
    OBVIOUS
<1>1. TypeInv /\ seenSpec \in Nat /\ rc.rev \in Nat /\ Known \in SUBSET StatefulSet
    <2>1. TypeInv /\ Listed \in SUBSET StatefulSet
        BY ListedTypes DEF VolumeInv
    <2> QED BY <2>1 DEF TypeInv, TypeOK, CacheTypeOK, WorkerTypeOK, Known
<1>2. \A s \in Known : s.rev \in Nat /\ s.rev <= seenSpec
    BY <1>1 DEF StatefulSet, VolumeInv, RevisionsInOrder
<1>3. CASE CreateStatefulSet
    <2>1. /\ rc.pc # "idle" /\ rc' = NextZone /\ UNCHANGED seenSpec
          /\ Known' \subseteq Known \cup {Desired}
        BY <1>1, <1>3, KnownGrows DEF CreateStatefulSet, Known
    <2>2. rc'.rev = rc.rev /\ Desired.rev = rc.rev
        BY <1>1, <2>1 DEF NextZone, Desired, TypeInv, TypeOK, WorkerTypeOK
    <2>3. rc.rev <= seenSpec /\ \A s \in Known : s.rev <= rc.rev
        BY <2>1 DEF VolumeInv, RevisionsInOrder
    <2>4. \A s \in Known' : s.rev <= rc.rev
        BY <1>1, <2>1, <2>2, <2>3
    <2>5. \A s \in Known' : s.rev <= seenSpec
        BY <1>2, <2>1, <2>2, <2>3
    <2> QED BY <2>1, <2>2, <2>3, <2>4, <2>5, RevisionsGrow DEF RevisionsInOrder
<1>4. CASE ~CreateStatefulSet
    <2>1. Known' \subseteq Known
        BY <1>1, <1>4, KnownGrows
    <2>2. seenSpec' \in Nat /\ seenSpec <= seenSpec' /\ seenSpec' <= spec'
        BY RevisionsGrow
    <2>3. \A s \in Known' : s.rev <= seenSpec'
        BY <1>1, <1>2, <2>1, <2>2
    <2>4. ASSUME rc'.pc # "idle" PROVE rc'.rev <= seenSpec' /\ \A s \in Known' : s.rev <= rc'.rev
        <3>1. CASE rc'.rev = seenSpec
            BY <1>1, <1>2, <2>1, <2>2, <3>1
        <3>2. CASE rc.pc # "idle" /\ rc'.rev = rc.rev
            <4>1. rc.rev <= seenSpec /\ \A s \in Known : s.rev <= rc.rev
                BY <3>2 DEF VolumeInv, RevisionsInOrder
            <4> QED BY <1>1, <2>1, <2>2, <3>2, <4>1
        <3> QED BY <2>4, <3>1, <3>2, RevisionsGrow
    <2> QED BY <2>2, <2>3, <2>4 DEF RevisionsInOrder
<1> QED BY <1>3, <1>4

LEMMA NextLatest == VolumeInv /\ [Next]_vars => VolumesLatest'
<1> SUFFICES ASSUME VolumeInv, [Next]_vars PROVE VolumesLatest'
    OBVIOUS
<1>1. TypeInv
    BY DEF VolumeInv
<1>2. CASE CreateStatefulSet
    <2>1. /\ rc.pc \in {"volumes", "create"} /\ rc.rev \in Nat /\ rc.version \in Nat
          /\ sts' = sts \cup {Desired} /\ Known' \subseteq Known \cup {Desired}
        BY <1>1, <1>2, KnownGrows
           DEF CreateStatefulSet, WriteSts, Known, TypeInv, TypeOK, WorkerTypeOK
    <2>2. Desired.rev = rc.rev /\ \A s \in Known : s.rev <= rc.rev
        BY <2>1 DEF Desired, VolumeInv, RevisionsInOrder
    <2>3. CASE rc.pc = "create"
        <3>1. ~IsVolumeManagement(Desired)
            BY <2>1, <2>3 DEF Desired, IsVolumeManagement
        <3> QED BY <2>1, <3>1 DEF VolumeInv, VolumesLatest, IsVolumeManagement
    <2>4. CASE rc.pc = "volumes"
        <3>1. Revisions[Desired.rev].volumes
            BY <2>2, <2>4 DEF VolumeInv, WorkerCovers
        <3>2. Desired.version = 0
            BY <2>4 DEF Desired
        <3>3. \A t \in sts : ~SameName(Desired, t)
            BY <1>2 DEF CreateStatefulSet, Exists
        <3>4. ASSUME NEW t \in sts', IsVolumeManagement(t)
              PROVE  /\ Revisions[t.rev].volumes
                     /\ \A s \in Known' : IsVolumeManagement(s) /\ s.zone = t.zone => s.rev <= t.rev
            <4>1. CASE t = Desired
                BY <2>1, <2>2, <3>1, <4>1
            <4>2. CASE t \in sts
                <5>1. Desired.zone # t.zone
                    BY <3>2, <3>3, <3>4, <4>2 DEF SameName, IsVolumeManagement
                <5> QED BY <2>1, <3>4, <4>2, <5>1 DEF VolumeInv, VolumesLatest
            <4> QED BY <2>1, <4>1, <4>2
        <3> QED BY <3>4 DEF VolumesLatest, IsVolumeManagement
    <2> QED BY <2>1, <2>3, <2>4
<1>3. CASE ~CreateStatefulSet
    <2>1. Known' \subseteq Known
        BY <1>1, <1>3, KnownGrows
    <2>2. \A s : DeleteStatefulSet(s) => sts' \subseteq sts
        BY DEF DeleteStatefulSet, WriteSts
    <2>3. sts' \subseteq sts
        <3>1. CASE \E s \in cl.todo : CleanupVolumes(s) \/ (CleanupDelete(s) /\ ~IsVolumeManagement(s))
            BY <2>2, <3>1 DEF CleanupVolumes, CleanupDelete
        <3> QED BY <1>3, <3>1, OtherSteps
    <2> QED BY <2>1, <2>3 DEF VolumeInv, VolumesLatest, IsVolumeManagement
<1> QED BY <1>2, <1>3

\* The StatefulSet of the zone covers it.
LEMMA ZoneMade ==
    ASSUME CreateStatefulSet, rc.pc = "volumes", NEW z, NEW r, z = rc.zone, r = rc.rev
    PROVE  ZonesCovered({z}, r)'
<1>1. Desired \in sts' /\ z = Desired.zone /\ r = Desired.rev /\ IsVolumeManagement(Desired)
    BY DEF CreateStatefulSet, WriteSts, Desired, IsVolumeManagement
<1>2. PICK d \in sts' : IsVolumeManagement(d) /\ d.zone = z /\ d.rev = r
    BY <1>1
<1>3. \A i \in 0..(Revisions[r].replicas - 1) : Covered(z, i)'
    BY <1>2 DEF Covered, Ordinals
<1> QED BY <1>3 DEF ZonesCovered

\* A version that is listed was begun when all zones were covered, and needs no
\* more than the revisions after it.
LEMMA LaterCovered ==
    ASSUME NeverScalesUp, VolumeInv, NEW s \in Listed, ~IsVolumeManagement(s),
           NEW r \in 1..MaxRev, s.rev <= r
    PROVE  ZonesCovered(Zones, r)
<1> SUFFICES ASSUME Revisions[r].volumes, NEW z \in Zones, NEW i \in 0..(Revisions[r].replicas - 1)
             PROVE  Covered(z, i)
    BY DEF ZonesCovered
<1>1. s.rev \in 1..MaxRev
    BY ListedTypes DEF VolumeInv, StatefulSet
<1>2. Revisions[s.rev].volumes /\ Revisions[r].replicas <= Revisions[s.rev].replicas
    BY <1>1 DEF NeverScalesUp
<1>3. Revisions[s.rev].replicas \in Nat /\ Revisions[r].replicas \in Nat
    BY <1>1, ConstantsAssumption
<1>4. i \in 0..(Revisions[s.rev].replicas - 1)
    BY <1>2, <1>3
<1>5. ZonesCovered(Zones, s.rev)
    BY DEF VolumeInv, VersionsCovered
<1> QED BY <1>2, <1>4, <1>5 DEF ZonesCovered

LEMMA NextCovered == NeverScalesUp /\ VolumeInv /\ [Next]_vars => VersionsCovered'
<1> SUFFICES ASSUME NeverScalesUp, VolumeInv, [Next]_vars,
                    NEW s \in Listed', ~IsVolumeManagement(s)
             PROVE  ZonesCovered(Zones, s.rev)'
    BY DEF VersionsCovered, IsVolumeManagement
<1>1. CASE s \in Listed
    <2>1. ZonesCovered(Zones, s.rev)
        BY <1>1 DEF VolumeInv, VersionsCovered
    <2> QED BY <2>1, ZonesStay
<1>2. CASE s \notin Listed
    <2>1. CreateStatefulSet /\ s = Desired
        BY <1>2, KnownGrows DEF VolumeInv
    <2>2. rc.pc = "create" /\ s.rev = rc.rev
        BY <2>1 DEF CreateStatefulSet, Desired, IsVolumeManagement
    <2>3. ZonesCovered(Zones, s.rev)
        BY <2>2 DEF VolumeInv, WorkerCovers
    <2> QED BY <2>3, ZonesStay
<1> QED BY <1>1, <1>2

LEMMA ListCovers ==
    ASSUME NeverScalesUp, VolumeInv, ReconcileList
    PROVE  WorkerCovers'
<1>1. /\ rc.pc = "list" /\ UNCHANGED <<sts, claims>>
      /\ \A s \in seenSts : ~IsVolumeManagement(s)
    BY DEF ReconcileList, apiVars
<1>2. /\ rc.zone = 0 /\ rc.rev \in 1..MaxRev /\ WorkerTypeOK /\ rc.rev \in Nat
      /\ \A s \in Known : s.rev <= rc.rev
    BY <1>1, ConstantsAssumption
       DEF VolumeInv, WorkerCovers, RevisionsInOrder, TypeInv, TypeOK, WorkerTypeOK, RevisionKnown
<1>3. /\ rc'.zone = 0 /\ rc'.rev = rc.rev /\ rc'.pc \in {"volumes", "create"}
      /\ rc'.pc = "volumes" => Revisions[rc.rev].volumes
      /\ rc'.pc = "create" /\ seenSts = {} => ~Revisions[rc.rev].volumes
    <2>1. CASE seenSts = {}
        <3>1. rc' = [rc EXCEPT !.pc = IF AltersVolumes(rc.rev, 0, 0) THEN "volumes" ELSE "create"]
            BY <2>1 DEF ReconcileList, Versions
        <3> QED BY <1>2, <3>1 DEF AltersVolumes, WorkerTypeOK
    <2>2. CASE seenSts # {}
        <3>1. PICK version \in Versions(seenSts), current \in seenSts :
                 rc' = [rc EXCEPT
                          !.pc = IF AltersVolumes(rc.rev, version, Revisions[current.rev].replicas)
                                 THEN "volumes" ELSE "create",
                          !.version = version]
            BY <2>2 DEF ReconcileList
        <3> QED BY <1>2, <2>2, <3>1 DEF AltersVolumes, WorkerTypeOK
    <2> QED BY <2>1, <2>2
<1>4. PICK r \in 1..MaxRev : r = rc.rev
    BY <1>2
<1>5. \A Z : ZonesCovered(Z, r) => ZonesCovered(Z, r)'
    BY <1>1 DEF ZonesCovered, Covered
<1>6. CASE rc'.pc = "volumes"
    <2>1. \A z \in Zones : ~(z < 0)
        BY ZoneFacts
    <2>2. ZonesCovered({z \in Zones : z < 0}, r)'
        BY <2>1 DEF ZonesCovered
    <2> QED BY <1>3, <1>4, <1>6, <2>2 DEF WorkerCovers
<1>7. CASE rc'.pc = "create"
    <2>1. ZonesCovered(Zones, r)
        <3>1. CASE seenSts = {}
            BY <1>3, <1>4, <1>7, <3>1 DEF ZonesCovered
        <3>2. CASE seenSts # {}
            <4>1. PICK s \in seenSts : TRUE
                BY <3>2
            <4>2. s \in Listed /\ s \in Known /\ ~IsVolumeManagement(s) /\ s.rev <= r
                BY <1>1, <1>2, <1>4, <4>1 DEF Listed, Known
            <4> QED BY <4>2, LaterCovered
        <3> QED BY <3>1, <3>2
    <2>2. ZonesCovered(Zones, r)'
        BY <1>5, <2>1
    <2> QED BY <1>3, <1>4, <1>7, <2>2 DEF WorkerCovers
<1> QED BY <1>3, <1>6, <1>7

LEMMA NextCovers == NeverScalesUp /\ VolumeInv /\ [Next]_vars => WorkerCovers'
<1> SUFFICES ASSUME NeverScalesUp, VolumeInv, [Next]_vars PROVE WorkerCovers'
    OBVIOUS
<1>1. WorkerTypeOK
    BY DEF VolumeInv, TypeInv, TypeOK
<1>2. CASE ReconcileList
    BY <1>2, ListCovers
<1>3. CASE CreateStatefulSet
    <2>1. PICK z, r : z \in Zones /\ z = rc.zone /\ r = rc.rev
        BY <1>1 DEF WorkerTypeOK
    <2>2. rc' = NextZone /\ rc.pc \in {"volumes", "create"}
        BY <1>3 DEF CreateStatefulSet
    <2>3. rc'.rev = r
        BY <1>1, <2>1, <2>2 DEF NextZone, WorkerTypeOK
    <2>4. CASE rc.pc = "create"
        <3>1. rc'.pc \in {"create", "status"}
            BY <1>1, <2>2, <2>4 DEF NextZone, WorkerTypeOK
        <3>2. ZonesCovered(Zones, r)'
            BY <2>1, <2>4, ZonesStay DEF VolumeInv, WorkerCovers
        <3> QED BY <2>3, <3>1, <3>2 DEF WorkerCovers
    <2>5. CASE rc.pc = "volumes"
        <3>1. Revisions[r].volumes /\ ZonesCovered({x \in Zones : x < z}, r)
            BY <2>1, <2>5 DEF VolumeInv, WorkerCovers
        <3>2. ZonesCovered({x \in Zones : x < z}, r)'
            BY <3>1, ZonesStay
        <3>3. ZonesCovered({z}, r)'
            BY <1>3, <2>1, <2>5, ZoneMade
        <3>4. ZonesCovered({x \in Zones : x < z + 1}, r)'
            <4>1. \A x \in Zones : x < z + 1 => x < z \/ x = z
                BY <2>1, ZoneFacts
            <4> QED BY <3>2, <3>3, <4>1 DEF ZonesCovered
        <3>5. CASE z < LastZone
            <4>1. rc'.pc = "volumes" /\ rc'.zone = z + 1
                BY <1>1, <2>1, <2>2, <2>5, <3>5 DEF NextZone, WorkerTypeOK
            <4> QED BY <2>3, <3>1, <3>4, <4>1 DEF WorkerCovers
        <3>6. CASE ~(z < LastZone)
            <4>1. rc'.pc = "create"
                BY <1>1, <2>1, <2>2, <2>5, <3>6 DEF NextZone, WorkerTypeOK
            <4>2. \A x \in Zones : x < z + 1
                BY <2>1, <3>6, ConstantsAssumption DEF Zones, LastZone
            <4>3. ZonesCovered(Zones, r)'
                BY <3>4, <4>2 DEF ZonesCovered
            <4> QED BY <2>3, <4>1, <4>3 DEF WorkerCovers
        <3> QED BY <3>5, <3>6
    <2> QED BY <2>2, <2>4, <2>5
<1>4. CASE rc'.pc \in {"idle", "status"} \/ (rc'.pc = "list" /\ rc'.zone = 0)
    BY <1>4 DEF WorkerCovers
<1>5. CASE UNCHANGED rc
    <2>1. PICK z, r : z \in Zones /\ z = rc.zone /\ r = rc.rev
        BY <1>1 DEF WorkerTypeOK
    <2>2. /\ rc.pc = "volumes" => Revisions[r].volumes /\ ZonesCovered({x \in Zones : x < z}, r)'
          /\ rc.pc = "create" => ZonesCovered(Zones, r)'
          /\ rc.pc = "list" => z = 0
        BY <2>1, ZonesStay DEF VolumeInv, WorkerCovers
    <2> QED BY <1>5, <2>1, <2>2 DEF WorkerCovers
<1>6. ReconcileGet => rc'.pc = "list" /\ rc'.zone = 0
    BY DEF ReconcileGet, NoReconcile
<1>7. NoReconcile.pc = "idle"
    BY DEF NoReconcile
<1>8. ReconcileListFails \/ CreateAlreadyExists \/ UpdateStatus => rc' = NoReconcile
    BY DEF ReconcileListFails, CreateAlreadyExists, UpdateStatus, RequeueReconcile
<1>9. CleanupStep \/ ClusterStep \/ InformerStep \/ Disturbance \/ Restart \/ UNCHANGED vars
        => rc' \in {rc, NoReconcile}
    BY DEF CleanupStep, CleanupGet, CleanupVolumes, CleanupVolumesNotReady, CleanupDelete,
       CleanupVersions, CleanupVersionsFails, CleanupList, CleanupDone, ClusterStep, UserUpdate,
       MeltdownEnds, PodReady, PodCollected, InformerStep, SyncSpec, SyncStatus, SyncSts, SyncPod,
       StsEvent, Disturbance, PodFails, ConfigChange, ApiErrorInReconcile, ApiErrorInCleanup,
       Crash, RequeueReconcile, Restart, vars
<1> QED BY <1>2, <1>3, <1>4, <1>5, <1>6, <1>7, <1>8, <1>9 DEF Next, ReconcileStep

LEMMA VolumesInvariant == NeverScalesUp /\ VolumeInv => VolumesCovered
<1> SUFFICES ASSUME NeverScalesUp, VolumeInv, NEW s \in sts, ~IsVolumeManagement(s),
                    Revisions[s.rev].volumes, NEW i \in Ordinals(s)
             PROVE  \/ Claim(s, i) \in claims
                    \/ \E t \in sts : IsVolumeManagement(t) /\ t.zone = s.zone /\ i \in Ordinals(t)
    BY DEF VolumesCovered
<1>1. s \in Listed /\ s.zone \in Zones
    BY DEF Listed, VolumeInv, TypeInv, TypeOK, ApiTypeOK, StatefulSet
<1>2. ZonesCovered(Zones, s.rev)
    BY <1>1 DEF VolumeInv, VersionsCovered
<1>3. Covered(s.zone, i)
    BY <1>1, <1>2 DEF ZonesCovered, Ordinals
<1> QED BY <1>3 DEF Covered, Claim

\* As long as no revision scales up or adds volume claims, every pod of a version
\* finds its claim, now or once the volume-management StatefulSet has its pods:
\* for every number of zones, and with crashes, errors and lists of any age.  The
\* run ests_volume_race shows that this fails for a revision that scales up.
THEOREM VolumesAreCovered == NeverScalesUp /\ Spec => []VolumesCovered
<1>1. NeverScalesUp /\ VolumeInv /\ [Next]_vars => VolumeInv'
    <2>1. VolumeInv /\ [Next]_vars => TypeInv'
        BY NextTypes DEF VolumeInv
    <2> QED BY <2>1, NextClaims, NextInOrder, NextLatest, NextCovered, NextCovers DEF VolumeInv
<1>2. NeverScalesUp => [](NeverScalesUp)
    <2>1. NeverScalesUp => NeverScalesUp'
        BY DEF NeverScalesUp
    <2> QED BY <2>1, PTL
<1> QED BY <1>1, <1>2, InitVolumes, VolumesInvariant, PTL DEF Spec
=============================================================================
