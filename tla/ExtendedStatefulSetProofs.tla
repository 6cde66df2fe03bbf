--------------------- MODULE ExtendedStatefulSetProofs ---------------------
(***************************************************************************)
(* Proofs about ExtendedStatefulSet for every number of zones, revisions   *)
(* and disturbances and every lag of the informer.                         *)
(***************************************************************************)
EXTENDS ExtendedStatefulSet, TLAPS

(***************************************************************************)
(* Types.                                                                  *)
(***************************************************************************)

\* A worker holds a revision as soon as it is busy, and a key is queued only
\* once the cache has the ExtendedStatefulSet.
RevisionKnown ==
    /\ "reconcile" \in queue => seenSpec >= 1
    /\ rc.pc # "idle" => rc.rev >= 1 /\ seenSpec >= 1

TypeInv == TypeOK /\ RevisionKnown

LEMMA ZoneFacts ==
    /\ 0 \in Zones
    /\ Zones \subseteq Nat
    /\ \A z \in Zones : z < LastZone => z + 1 \in Zones
BY ConstantsAssumption DEF Zones, LastZone

LEMMA PodTypes ==
    ASSUME NEW s \in StatefulSet, NEW i \in Ordinals(s)
    PROVE  /\ Pod(s, i) \in Zones \X Nat \X Nat
           /\ Claim(s, i) \in Zones \X Nat
           /\ <<s.zone, s.version>> \in Zones \X Nat
BY ConstantsAssumption DEF Pod, Claim, Ordinals, StatefulSet

LEMMA IdleTypes ==
    /\ NoReconcile \in [pc : {"idle"}, rev : 0..MaxRev, status : {"no"},
                        version : Nat, zone : Zones]
    /\ NoCleanup \in [pc : {"idle"}, todo : SUBSET StatefulSet, max : Nat]
BY ZoneFacts, ConstantsAssumption DEF NoReconcile, NoCleanup

LEMMA InitTypeInv == Init => TypeInv
BY IdleTypes, ConstantsAssumption
   DEF Init, TypeInv, TypeOK, ApiTypeOK, CacheTypeOK, WorkerTypeOK, RevisionKnown,
       NoReconcile

\* What leaves the API or the cache alone keeps their types.
LEMMA UnchangedTypes ==
    ASSUME TypeInv
    PROVE  /\ UNCHANGED apiVars => ApiTypeOK'
           /\ UNCHANGED cacheVars => CacheTypeOK'
BY DEF TypeInv, TypeOK, ApiTypeOK, CacheTypeOK, apiVars, cacheVars

\* What every write of StatefulSets keeps.
LEMMA WriteTypes ==
    ASSUME TypeInv, NEW S \in SUBSET StatefulSet, WriteSts(S),
           UNCHANGED <<spec, melt, pods, claims, ran, seenSpec, seenSts, seenPods>>
    PROVE  ApiTypeOK' /\ CacheTypeOK'
BY DEF TypeInv, TypeOK, ApiTypeOK, CacheTypeOK, WriteSts

LEMMA ReconcileTypes == TypeInv /\ ReconcileStep => TypeInv'
<1> SUFFICES ASSUME TypeInv, ReconcileStep PROVE TypeInv'
    OBVIOUS
<1>1. CASE ReconcileGet
    <2>1. ApiTypeOK'
        BY <1>1, UnchangedTypes DEF ReconcileGet
    <2>2. CacheTypeOK'
        BY <1>1, UnchangedTypes DEF ReconcileGet
    <2>3. rc' \in [pc : {"list"}, rev : {seenSpec}, status : {"no", "written", "seen"},
                   version : Nat, zone : Zones]
        BY <1>1, ZoneFacts DEF ReconcileGet, NoReconcile, TypeInv, TypeOK, ApiTypeOK
    <2>4. WorkerTypeOK' /\ RevisionKnown'
        BY <1>1, <2>3 DEF ReconcileGet, TypeInv, TypeOK, CacheTypeOK, WorkerTypeOK,
           RevisionKnown, cacheVars
    <2> QED BY <2>1, <2>2, <2>4 DEF TypeInv, TypeOK
<1>2. CASE ReconcileList
    <2>1. /\ UNCHANGED <<apiVars, cacheVars, queue, cl, operator, disturbed>>
          /\ rc.pc = "list"
        BY <1>2 DEF ReconcileList
    <2>2. rc' \in [pc : {"volumes", "create"}, rev : {rc.rev},
                   status : {"no", "written", "seen"},
                   version : Nat, zone : Zones]
        <3>1. CASE seenSts = {}
            BY <1>2, <3>1 DEF ReconcileList, Versions, TypeInv, TypeOK, WorkerTypeOK
        <3>2. CASE seenSts # {}
            <4>1. PICK version \in Versions(seenSts), current \in seenSts :
                     rc' = [rc EXCEPT
                              !.pc = IF AltersVolumes(rc.rev, version,
                                                      Revisions[current.rev].replicas)
                                     THEN "volumes" ELSE "create",
                              !.version = version]
                BY <1>2, <3>2 DEF ReconcileList
            <4>2. version \in Nat
                BY DEF Versions, StatefulSet, TypeInv, TypeOK, CacheTypeOK
            <4> QED BY <4>1, <4>2 DEF TypeInv, TypeOK, WorkerTypeOK
        <3> QED BY <3>1, <3>2
    <2>3. WorkerTypeOK' /\ RevisionKnown'
        BY <2>1, <2>2 DEF TypeInv, TypeOK, WorkerTypeOK, RevisionKnown, cacheVars
    <2> QED BY <2>1, <2>3, UnchangedTypes DEF TypeInv, TypeOK
<1>3. CASE ReconcileListFails
    <2>1. ApiTypeOK'
        BY <1>3, UnchangedTypes DEF ReconcileListFails
    <2>2. CacheTypeOK'
        BY <1>3, UnchangedTypes DEF ReconcileListFails
    <2>3. WorkerTypeOK' /\ RevisionKnown'
        BY <1>3, IdleTypes DEF ReconcileListFails, RequeueReconcile, NoReconcile, TypeInv, TypeOK, CacheTypeOK, WorkerTypeOK,
           RevisionKnown, cacheVars
    <2> QED BY <2>1, <2>2, <2>3 DEF TypeInv, TypeOK
<1>4. CASE CreateStatefulSet
    <2>1. Desired \in StatefulSet
        BY <1>4, ConstantsAssumption
           DEF CreateStatefulSet, Desired, StatefulSet, TypeInv, TypeOK, WorkerTypeOK,
               RevisionKnown
    <2>2. ApiTypeOK' /\ CacheTypeOK'
        <3>1. sts \cup {Desired} \in SUBSET StatefulSet
            BY <2>1 DEF TypeInv, TypeOK, ApiTypeOK
        <3> QED BY <1>4, <3>1, WriteTypes DEF CreateStatefulSet
    <2>3. rc' \in [pc : {"volumes", "create", "status"}, rev : {rc.rev},
                   status : {"no", "written", "seen"},
                   version : Nat, zone : Zones]
        BY <1>4, ZoneFacts DEF CreateStatefulSet, NextZone, TypeInv, TypeOK, WorkerTypeOK
    <2>4. WorkerTypeOK' /\ RevisionKnown'
        BY <1>4, <2>3 DEF CreateStatefulSet, TypeInv, TypeOK, WorkerTypeOK, RevisionKnown
    <2> QED BY <2>2, <2>4 DEF TypeInv, TypeOK
<1>5. CASE CreateAlreadyExists
    <2>1. ApiTypeOK'
        BY <1>5, UnchangedTypes DEF CreateAlreadyExists
    <2>2. CacheTypeOK'
        BY <1>5, UnchangedTypes DEF CreateAlreadyExists
    <2>3. WorkerTypeOK' /\ RevisionKnown'
        BY <1>5, IdleTypes DEF CreateAlreadyExists, RequeueReconcile, NoReconcile, TypeInv, TypeOK, CacheTypeOK, WorkerTypeOK,
           RevisionKnown, cacheVars
    <2> QED BY <2>1, <2>2, <2>3 DEF TypeInv, TypeOK
<1>6. CASE UpdateStatus
    <2>1. ApiTypeOK'
        BY <1>6 DEF UpdateStatus, TypeInv, TypeOK, ApiTypeOK
    <2>2. CacheTypeOK'
        BY <1>6, UnchangedTypes DEF UpdateStatus
    <2>3. WorkerTypeOK' /\ RevisionKnown'
        BY <1>6, IdleTypes DEF UpdateStatus, NoReconcile, TypeInv, TypeOK, CacheTypeOK, WorkerTypeOK,
           RevisionKnown, cacheVars
    <2> QED BY <2>1, <2>2, <2>3 DEF TypeInv, TypeOK
<1> QED BY <1>1, <1>2, <1>3, <1>4, <1>5, <1>6 DEF ReconcileStep

LEMMA DeleteTypes ==
    ASSUME TypeInv, NEW s \in cl.todo, DeleteStatefulSet(s),
           UNCHANGED <<spec, melt, pods, claims, ran, seenSpec, seenSts, seenPods,
                       rc, operator, disturbed>>
    PROVE  TypeInv'
<1>1. CASE Exists(s)
    <2>1. {t \in sts : ~SameName(s, t)} \in SUBSET StatefulSet
        BY DEF TypeInv, TypeOK, ApiTypeOK
    <2>2. ApiTypeOK' /\ CacheTypeOK'
        BY <1>1, <2>1, WriteTypes DEF DeleteStatefulSet
    <2>3. WorkerTypeOK' /\ RevisionKnown'
        BY <1>1 DEF DeleteStatefulSet, TypeInv, TypeOK, WorkerTypeOK, RevisionKnown
    <2> QED BY <2>2, <2>3 DEF TypeInv, TypeOK
<1>2. CASE ~Exists(s)
    <2>1. ApiTypeOK' /\ CacheTypeOK'
        BY <1>2, UnchangedTypes DEF DeleteStatefulSet, apiVars, cacheVars
    <2>2. WorkerTypeOK' /\ RevisionKnown'
        BY <1>2, IdleTypes
           DEF DeleteStatefulSet, RequeueCleanup, TypeInv, TypeOK, WorkerTypeOK, RevisionKnown
    <2> QED BY <2>1, <2>2 DEF TypeInv, TypeOK
<1> QED BY <1>1, <1>2

LEMMA CleanupTypes == TypeInv /\ CleanupStep => TypeInv'
<1> SUFFICES ASSUME TypeInv, CleanupStep PROVE TypeInv'
    OBVIOUS
<1>1. CASE CleanupGet
    <2>1. ApiTypeOK'
        BY <1>1, UnchangedTypes DEF CleanupGet
    <2>2. CacheTypeOK'
        BY <1>1, UnchangedTypes DEF CleanupGet
    <2>3. WorkerTypeOK' /\ RevisionKnown'
        BY <1>1 DEF CleanupGet, NoCleanup, TypeInv, TypeOK, CacheTypeOK, WorkerTypeOK,
           RevisionKnown, cacheVars
    <2> QED BY <2>1, <2>2, <2>3 DEF TypeInv, TypeOK
<1>2. ASSUME NEW s \in cl.todo, CleanupVolumes(s) PROVE TypeInv'
    BY <1>2, DeleteTypes DEF CleanupVolumes
<1>3. ASSUME NEW s \in cl.todo, CleanupVolumesNotReady(s) PROVE TypeInv'
    <2>1. ApiTypeOK'
        BY <1>3, UnchangedTypes DEF CleanupVolumesNotReady
    <2>2. CacheTypeOK'
        BY <1>3, UnchangedTypes DEF CleanupVolumesNotReady
    <2>3. WorkerTypeOK' /\ RevisionKnown'
        BY <1>3, IdleTypes DEF CleanupVolumesNotReady, RequeueCleanup, TypeInv, TypeOK, CacheTypeOK, WorkerTypeOK,
           RevisionKnown, cacheVars
    <2> QED BY <2>1, <2>2, <2>3 DEF TypeInv, TypeOK
<1>4. ASSUME NEW s \in cl.todo, CleanupDelete(s) PROVE TypeInv'
    <2>1. CASE IsVolumeManagement(s)
        <3>1. ApiTypeOK' /\ CacheTypeOK'
            BY <1>4, <2>1, UnchangedTypes DEF CleanupDelete, apiVars, cacheVars
        <3>2. /\ cl' = NoCleanup /\ queue' = queue \cup {"cleanup"}
              /\ UNCHANGED <<seenSpec, rc, operator, disturbed>>
            BY <1>4, <2>1 DEF CleanupDelete, RequeueCleanup
        <3>3. WorkerTypeOK' /\ RevisionKnown'
            BY <3>2, IdleTypes DEF TypeInv, TypeOK, WorkerTypeOK, RevisionKnown
        <3> QED BY <3>1, <3>3 DEF TypeInv, TypeOK
    <2>2. CASE ~IsVolumeManagement(s)
        BY <1>4, <2>2, DeleteTypes DEF CleanupDelete
    <2> QED BY <2>1, <2>2
<1>5. CASE CleanupVersions
    <2>1. PICK chosen \in LastListed(seenSts) : \E max \in {0} \cup Versions(chosen) :
             cl' = IF \E v, w \in Versions(seenSts) : v # w
                   THEN [NoCleanup EXCEPT !.pc = "list", !.max = max]
                   ELSE NoCleanup
        BY <1>5 DEF CleanupVersions
    <2>2. {0} \cup Versions(chosen) \subseteq Nat
        BY DEF LastListed, Versions, StatefulSet, TypeInv, TypeOK, CacheTypeOK
    <2>3. cl' \in [pc : {"idle", "list"}, todo : SUBSET StatefulSet, max : Nat]
        <3>1. NoCleanup \in [pc : {"idle", "list"}, todo : SUBSET StatefulSet, max : Nat]
            BY DEF NoCleanup
        <3>2. \A max \in Nat : [NoCleanup EXCEPT !.pc = "list", !.max = max]
                 \in [pc : {"idle", "list"}, todo : SUBSET StatefulSet, max : Nat]
            BY DEF NoCleanup
        <3> QED BY <2>1, <2>2, <3>1, <3>2
    <2>4. WorkerTypeOK' /\ RevisionKnown'
        BY <1>5, <2>3 DEF CleanupVersions, TypeInv, TypeOK, WorkerTypeOK, RevisionKnown,
           cacheVars
    <2> QED BY <1>5, <2>4, UnchangedTypes DEF CleanupVersions, TypeInv, TypeOK
<1>6. CASE CleanupVersionsFails
    <2>1. ApiTypeOK'
        BY <1>6, UnchangedTypes DEF CleanupVersionsFails
    <2>2. CacheTypeOK'
        BY <1>6, UnchangedTypes DEF CleanupVersionsFails
    <2>3. WorkerTypeOK' /\ RevisionKnown'
        BY <1>6, IdleTypes DEF CleanupVersionsFails, RequeueCleanup, TypeInv, TypeOK, CacheTypeOK, WorkerTypeOK,
           RevisionKnown, cacheVars
    <2> QED BY <2>1, <2>2, <2>3 DEF TypeInv, TypeOK
<1>7. CASE CleanupList
    <2>1. ApiTypeOK'
        BY <1>7, UnchangedTypes DEF CleanupList
    <2>2. CacheTypeOK'
        BY <1>7, UnchangedTypes DEF CleanupList
    <2>3. WorkerTypeOK' /\ RevisionKnown'
        BY <1>7 DEF CleanupList, TypeInv, TypeOK, CacheTypeOK, WorkerTypeOK,
           RevisionKnown, cacheVars
    <2> QED BY <2>1, <2>2, <2>3 DEF TypeInv, TypeOK
<1>8. CASE CleanupDone
    <2>1. ApiTypeOK'
        BY <1>8, UnchangedTypes DEF CleanupDone
    <2>2. CacheTypeOK'
        BY <1>8, UnchangedTypes DEF CleanupDone
    <2>3. WorkerTypeOK' /\ RevisionKnown'
        BY <1>8, IdleTypes DEF CleanupDone, TypeInv, TypeOK, CacheTypeOK, WorkerTypeOK,
           RevisionKnown, cacheVars
    <2> QED BY <2>1, <2>2, <2>3 DEF TypeInv, TypeOK
<1> QED BY <1>1, <1>2, <1>3, <1>4, <1>5, <1>6, <1>7, <1>8 DEF CleanupStep

LEMMA ClusterTypes == TypeInv /\ ClusterStep => TypeInv'
<1> SUFFICES ASSUME TypeInv, ClusterStep PROVE TypeInv'
    OBVIOUS
<1>1. CASE UserUpdate
    <2>1. ApiTypeOK'
        BY <1>1, ConstantsAssumption DEF UserUpdate, TypeInv, TypeOK, ApiTypeOK
    <2>2. CacheTypeOK'
        BY <1>1, UnchangedTypes DEF UserUpdate
    <2>3. WorkerTypeOK' /\ RevisionKnown'
        BY <1>1 DEF UserUpdate, TypeInv, TypeOK, CacheTypeOK, WorkerTypeOK,
           RevisionKnown, cacheVars
    <2> QED BY <2>1, <2>2, <2>3 DEF TypeInv, TypeOK
<1>2. CASE MeltdownEnds
    <2>1. ApiTypeOK'
        BY <1>2 DEF MeltdownEnds, TypeInv, TypeOK, ApiTypeOK
    <2>2. CacheTypeOK'
        BY <1>2, UnchangedTypes DEF MeltdownEnds
    <2>3. WorkerTypeOK' /\ RevisionKnown'
        BY <1>2 DEF MeltdownEnds, TypeInv, TypeOK, CacheTypeOK, WorkerTypeOK,
           RevisionKnown, cacheVars
    <2> QED BY <2>1, <2>2, <2>3 DEF TypeInv, TypeOK
<1>3. ASSUME NEW s \in sts, NEW i \in Ordinals(s), PodReady(s, i) PROVE TypeInv'
    <2>1. ApiTypeOK'
        <3>1. /\ UNCHANGED <<spec, melt, sts>>
              /\ pods' = pods \cup {Pod(s, i)}
              /\ ran' = ran \cup {<<s.zone, s.version>>}
              /\ claims' \in {claims, claims \cup {Claim(s, i)}}
            BY <1>3 DEF PodReady
        <3>2. s \in StatefulSet
            BY DEF TypeInv, TypeOK, ApiTypeOK
        <3> QED BY <3>1, <3>2, PodTypes DEF TypeInv, TypeOK, ApiTypeOK
    <2>2. CacheTypeOK'
        BY <1>3, UnchangedTypes DEF PodReady
    <2>3. WorkerTypeOK' /\ RevisionKnown'
        BY <1>3 DEF PodReady, TypeInv, TypeOK, CacheTypeOK, WorkerTypeOK,
           RevisionKnown, cacheVars
    <2> QED BY <2>1, <2>2, <2>3 DEF TypeInv, TypeOK
<1>4. ASSUME NEW p \in pods, PodCollected(p) PROVE TypeInv'
    <2>1. ApiTypeOK'
        BY <1>4 DEF PodCollected, TypeInv, TypeOK, ApiTypeOK
    <2>2. CacheTypeOK'
        BY <1>4, UnchangedTypes DEF PodCollected
    <2>3. WorkerTypeOK' /\ RevisionKnown'
        BY <1>4 DEF PodCollected, TypeInv, TypeOK, CacheTypeOK, WorkerTypeOK,
           RevisionKnown, cacheVars
    <2> QED BY <2>1, <2>2, <2>3 DEF TypeInv, TypeOK
<1> QED BY <1>1, <1>2, <1>3, <1>4 DEF ClusterStep

LEMMA InformerTypes == TypeInv /\ InformerStep => TypeInv'
<1> SUFFICES ASSUME TypeInv, InformerStep PROVE TypeInv'
    OBVIOUS
<1>1. CASE SyncSpec
    <2>1. ApiTypeOK'
        BY <1>1, UnchangedTypes DEF SyncSpec
    <2>2. CacheTypeOK'
        BY <1>1, ConstantsAssumption DEF SyncSpec, TypeInv, TypeOK, ApiTypeOK, CacheTypeOK
    <2>3. WorkerTypeOK' /\ RevisionKnown'
        BY <1>1, ConstantsAssumption DEF SyncSpec, ApiTypeOK, TypeInv, TypeOK, CacheTypeOK, WorkerTypeOK,
           RevisionKnown, cacheVars
    <2> QED BY <2>1, <2>2, <2>3 DEF TypeInv, TypeOK
<1>2. CASE SyncStatus
    <2>1. ApiTypeOK'
        BY <1>2 DEF SyncStatus, TypeInv, TypeOK, ApiTypeOK
    <2>2. CacheTypeOK'
        BY <1>2, UnchangedTypes DEF SyncStatus
    <2>3. WorkerTypeOK' /\ RevisionKnown'
        BY <1>2 DEF SyncStatus, TypeInv, TypeOK, CacheTypeOK, WorkerTypeOK,
           RevisionKnown, cacheVars
    <2> QED BY <2>1, <2>2, <2>3 DEF TypeInv, TypeOK
<1>3. CASE SyncSts
    <2>1. ApiTypeOK'
        BY <1>3, UnchangedTypes DEF SyncSts
    <2>2. CacheTypeOK'
        BY <1>3 DEF SyncSts, TypeInv, TypeOK, ApiTypeOK, CacheTypeOK
    <2>3. WorkerTypeOK' /\ RevisionKnown'
        BY <1>3 DEF SyncSts, TypeInv, TypeOK, CacheTypeOK, WorkerTypeOK,
           RevisionKnown, cacheVars
    <2> QED BY <2>1, <2>2, <2>3 DEF TypeInv, TypeOK
<1>4. ASSUME NEW p \in pods \cup seenPods, SyncPod(p) PROVE TypeInv'
    <2>1. ApiTypeOK'
        BY <1>4, UnchangedTypes DEF SyncPod
    <2>2. CacheTypeOK'
        BY <1>4 DEF SyncPod, TypeInv, TypeOK, ApiTypeOK, CacheTypeOK
    <2>3. WorkerTypeOK' /\ RevisionKnown'
        BY <1>4 DEF SyncPod, TypeInv, TypeOK, CacheTypeOK, WorkerTypeOK,
           RevisionKnown, cacheVars
    <2> QED BY <2>1, <2>2, <2>3 DEF TypeInv, TypeOK
<1>5. ASSUME NEW s \in seenSts, StsEvent(s) PROVE TypeInv'
    <2>1. ApiTypeOK'
        BY <1>5, UnchangedTypes DEF StsEvent
    <2>2. CacheTypeOK'
        BY <1>5, UnchangedTypes DEF StsEvent
    <2>3. WorkerTypeOK' /\ RevisionKnown'
        BY <1>5 DEF StsEvent, TypeInv, TypeOK, CacheTypeOK, WorkerTypeOK,
           RevisionKnown, cacheVars
    <2> QED BY <2>1, <2>2, <2>3 DEF TypeInv, TypeOK
<1> QED BY <1>1, <1>2, <1>3, <1>4, <1>5 DEF InformerStep

LEMMA DisturbanceTypes == TypeInv /\ (Disturbance \/ Restart) => TypeInv'
<1> SUFFICES ASSUME TypeInv, Disturbance \/ Restart PROVE TypeInv'
    OBVIOUS
<1>1. ASSUME NEW p \in pods, PodFails(p) PROVE TypeInv'
    <2>1. ApiTypeOK'
        BY <1>1 DEF PodFails, TypeInv, TypeOK, ApiTypeOK
    <2>2. CacheTypeOK'
        BY <1>1, UnchangedTypes DEF PodFails
    <2>3. WorkerTypeOK' /\ RevisionKnown'
        BY <1>1, ConstantsAssumption DEF PodFails, Disturb, TypeInv, TypeOK, CacheTypeOK, WorkerTypeOK,
           RevisionKnown, cacheVars
    <2> QED BY <2>1, <2>2, <2>3 DEF TypeInv, TypeOK
<1>2. CASE ConfigChange
    <2>1. ApiTypeOK'
        BY <1>2, UnchangedTypes DEF ConfigChange
    <2>2. CacheTypeOK'
        BY <1>2, UnchangedTypes DEF ConfigChange
    <2>3. WorkerTypeOK' /\ RevisionKnown'
        BY <1>2, ConstantsAssumption DEF ConfigChange, Disturb, TypeInv, TypeOK, CacheTypeOK, WorkerTypeOK,
           RevisionKnown, cacheVars
    <2> QED BY <2>1, <2>2, <2>3 DEF TypeInv, TypeOK
<1>3. CASE ApiErrorInReconcile
    <2>1. ApiTypeOK'
        BY <1>3, UnchangedTypes DEF ApiErrorInReconcile
    <2>2. CacheTypeOK'
        BY <1>3, UnchangedTypes DEF ApiErrorInReconcile
    <2>3. /\ rc' = NoReconcile /\ rc.pc # "idle"
          /\ queue' \in {queue, queue \cup {"reconcile"}}
          /\ disturbed' = disturbed + 1 /\ disturbed < MaxDisturbances
          /\ UNCHANGED <<seenSpec, cl, operator>>
        BY <1>3 DEF ApiErrorInReconcile, Disturb, RequeueReconcile, cacheVars
    <2>4. WorkerTypeOK' /\ RevisionKnown'
        BY <2>3, IdleTypes, ConstantsAssumption
           DEF TypeInv, TypeOK, WorkerTypeOK, RevisionKnown
    <2> QED BY <2>1, <2>2, <2>4 DEF TypeInv, TypeOK
<1>4. CASE ApiErrorInCleanup
    <2>1. ApiTypeOK'
        BY <1>4, UnchangedTypes DEF ApiErrorInCleanup
    <2>2. CacheTypeOK'
        BY <1>4, UnchangedTypes DEF ApiErrorInCleanup
    <2>3. WorkerTypeOK' /\ RevisionKnown'
        BY <1>4, ConstantsAssumption, IdleTypes DEF ApiErrorInCleanup, Disturb, RequeueCleanup, TypeInv, TypeOK, CacheTypeOK, WorkerTypeOK,
           RevisionKnown, cacheVars
    <2> QED BY <2>1, <2>2, <2>3 DEF TypeInv, TypeOK
<1>5. CASE Crash
    <2>1. ApiTypeOK'
        BY <1>5, UnchangedTypes DEF Crash
    <2>2. CacheTypeOK'
        BY <1>5, UnchangedTypes DEF Crash
    <2>3. WorkerTypeOK' /\ RevisionKnown'
        BY <1>5, ConstantsAssumption, IdleTypes DEF Crash, Disturb, NoReconcile, TypeInv, TypeOK, CacheTypeOK, WorkerTypeOK,
           RevisionKnown, cacheVars
    <2> QED BY <2>1, <2>2, <2>3 DEF TypeInv, TypeOK
<1>6. CASE Restart
    <2>1. ApiTypeOK'
        BY <1>6 DEF Restart, TypeInv, TypeOK, ApiTypeOK
    <2>2. CacheTypeOK'
        BY <1>6 DEF Restart, TypeInv, TypeOK, ApiTypeOK, CacheTypeOK
    <2>3. WorkerTypeOK' /\ RevisionKnown'
        BY <1>6 DEF Restart, ApiTypeOK, TypeInv, TypeOK, CacheTypeOK, WorkerTypeOK,
           RevisionKnown, cacheVars
    <2> QED BY <2>1, <2>2, <2>3 DEF TypeInv, TypeOK
<1> QED BY <1>1, <1>2, <1>3, <1>4, <1>5, <1>6 DEF Disturbance

LEMMA NextTypes == TypeInv /\ [Next]_vars => TypeInv'
<1> SUFFICES ASSUME TypeInv, [Next]_vars PROVE TypeInv'
    OBVIOUS
<1>1. CASE UNCHANGED vars
    BY <1>1 DEF TypeInv, TypeOK, ApiTypeOK, CacheTypeOK, WorkerTypeOK, RevisionKnown, vars
<1> QED BY <1>1, ReconcileTypes, CleanupTypes, ClusterTypes, InformerTypes,
           DisturbanceTypes DEF Next

LEMMA TypeInvariant == Spec => []TypeInv
BY InitTypeInv, NextTypes, PTL DEF Spec

\* The variables keep their types in every behaviour: no handler builds a
\* StatefulSet for an unknown zone or revision, whatever fails in between.
THEOREM TypeCorrect == Spec => []TypeOK
<1>1. TypeInv => TypeOK
    BY DEF TypeInv
<1> QED BY <1>1, TypeInvariant, PTL

(***************************************************************************)
(* Versions only grow.  The reconciler takes the next version from a list  *)
(* that may be old, so the invariant orders the lists: a later state of    *)
(* the StatefulSets always has a version at least as high as each one of   *)
(* an earlier state, because cleanup deletes a version only below one that *)
(* its list shows; and the API is at most one version ahead of the cache,  *)
(* because the name of the next version is taken once it is created.       *)
(***************************************************************************)
Dominates(B, A) == \A v \in Versions(A) : \E w \in Versions(B) : v <= w

\* The cache, the undelivered changes and the API, from the oldest on.
ListsOrdered ==
    /\ Dominates(sts, seenSts)
    /\ \A i \in 1..Len(pending) :
          /\ Dominates(pending[i], seenSts)
          /\ Dominates(sts, pending[i])
          /\ \A j \in 1..Len(pending) : i < j => Dominates(pending[j], pending[i])

\* n is a version the cache reaches.
Reached(n) == n = 0 \/ \E v \in Versions(seenSts) : n <= v

CacheOneBehind ==
    \E m \in Nat : Reached(m) /\ \A v \in Versions(sts) : v <= m + 1

\* The version a busy reconciler took is as current as the cache's.
ReconcilerVersion ==
    /\ rc.pc = "list" => rc.version = 0
    /\ rc.pc \in {"volumes", "create", "status"} =>
          Reached(rc.version) /\ \A v \in Versions(sts) : v <= rc.version + 1

\* Cleanup deletes below a version it has seen.
CleanupVersion ==
    /\ cl.pc \in {"list", "delete"} => Reached(cl.max)
    /\ cl.pc = "volumes" => \A s \in cl.todo : IsVolumeManagement(s)
    /\ cl.pc = "delete" => \A s \in cl.todo : IsVolumeManagement(s) \/ s.version < cl.max

GrowInv == TypeInv /\ ListsOrdered /\ CacheOneBehind /\ ReconcilerVersion /\ CleanupVersion

LEMMA VersionTypes ==
    ASSUME NEW S \in SUBSET StatefulSet
    PROVE  Versions(S) \subseteq Nat \ {0}
BY DEF Versions, IsVolumeManagement, StatefulSet

LEMMA DominatesTransitive ==
    ASSUME NEW A \in SUBSET StatefulSet, NEW B \in SUBSET StatefulSet,
           NEW C \in SUBSET StatefulSet, Dominates(B, A), Dominates(C, B)
    PROVE  Dominates(C, A)
<1>1. ASSUME NEW v \in Versions(A) PROVE \E w \in Versions(C) : v <= w
    <2>1. PICK u \in Versions(B) : v <= u
        BY DEF Dominates
    <2>2. PICK w \in Versions(C) : u <= w
        BY DEF Dominates
    <2>3. v \in Nat /\ u \in Nat /\ w \in Nat
        BY VersionTypes
    <2> QED BY <2>1, <2>2, <2>3
<1> QED BY <1>1 DEF Dominates

LEMMA DominatesReflexive ==
    ASSUME NEW A \in SUBSET StatefulSet
    PROVE  Dominates(A, A)
BY VersionTypes DEF Dominates

\* A version that is reached stays reached when the cache moves on.
LEMMA ReachedStays ==
    ASSUME TypeInv, TypeInv', Dominates(seenSts', seenSts), NEW n \in Nat, Reached(n)
    PROVE  Reached(n)'
<1>1. CASE n = 0
    BY <1>1 DEF Reached
<1>2. CASE n # 0
    <2>1. PICK v \in Versions(seenSts) : n <= v
        BY <1>2 DEF Reached
    <2>2. PICK w \in Versions(seenSts') : v <= w
        BY DEF Dominates
    <2>3. v \in Nat /\ w \in Nat
        BY VersionTypes DEF TypeInv, TypeOK, CacheTypeOK
    <2>4. n <= w
        BY <2>1, <2>2, <2>3
    <2> QED BY <2>4 DEF Reached
<1> QED BY <1>1, <1>2

\* A write that leaves a version at least as high keeps the lists in order.
LEMMA WriteOrdered ==
    ASSUME TypeInv, ListsOrdered, NEW S \in SUBSET StatefulSet, WriteSts(S),
           Dominates(S, sts), UNCHANGED seenSts
    PROVE  ListsOrdered'
<1>1. /\ sts \in SUBSET StatefulSet /\ seenSts \in SUBSET StatefulSet
      /\ pending \in Seq(SUBSET StatefulSet)
    BY DEF TypeInv, TypeOK, ApiTypeOK, CacheTypeOK
<1>2. sts' = S /\ pending' = Append(pending, S)
    BY DEF WriteSts
<1>3. Len(pending') = Len(pending) + 1 /\ Len(pending) \in Nat
    BY <1>1, <1>2
<1>4. /\ pending'[Len(pending) + 1] = S
      /\ \A i \in 1..Len(pending) : pending'[i] = pending[i] /\ pending[i] \in SUBSET StatefulSet
    BY <1>1, <1>2
<1>5. Dominates(S, seenSts)
    BY <1>1, DominatesTransitive DEF ListsOrdered
<1>6. \A i \in 1..Len(pending) : Dominates(S, pending[i])
    BY <1>1, <1>4, DominatesTransitive DEF ListsOrdered
<1>7. Dominates(S, S)
    BY DominatesReflexive
<1>8. ASSUME NEW i \in 1..Len(pending')
      PROVE  /\ Dominates(pending'[i], seenSts)
             /\ Dominates(S, pending'[i])
             /\ \A j \in 1..Len(pending') : i < j => Dominates(pending'[j], pending'[i])
    <2>1. CASE i = Len(pending) + 1
        BY <1>3, <1>4, <1>5, <1>7, <2>1
    <2>2. CASE i \in 1..Len(pending)
        <3>1. Dominates(pending'[i], seenSts) /\ Dominates(S, pending'[i])
            BY <1>4, <1>6, <2>2 DEF ListsOrdered
        <3>2. ASSUME NEW j \in 1..Len(pending'), i < j
              PROVE  Dominates(pending'[j], pending'[i])
            <4>1. CASE j = Len(pending) + 1
                BY <1>4, <1>6, <2>2, <4>1
            <4>2. CASE j \in 1..Len(pending)
                BY <1>4, <2>2, <3>2, <4>2 DEF ListsOrdered
            <4> QED BY <1>3, <4>1, <4>2
        <3> QED BY <3>1, <3>2
    <2> QED BY <1>3, <2>1, <2>2
<1> QED BY <1>2, <1>5, <1>8 DEF ListsOrdered

LEMMA InitGrow == Init => GrowInv
<1> SUFFICES ASSUME Init PROVE GrowInv
    OBVIOUS
<1>1. TypeInv
    BY InitTypeInv
<1>2. sts = {} /\ seenSts = {} /\ pending = <<>> /\ rc.pc = "idle" /\ cl.pc = "idle"
    BY DEF Init, NoReconcile, NoCleanup
<1>3. Versions({}) = {}
    BY DEF Versions
<1>4. ListsOrdered
    BY <1>2, <1>3 DEF ListsOrdered, Dominates
<1>5. CacheOneBehind
    BY <1>2, <1>3 DEF CacheOneBehind, Reached
<1>6. ReconcilerVersion /\ CleanupVersion
    BY <1>2 DEF ReconcilerVersion, CleanupVersion
<1> QED BY <1>1, <1>4, <1>5, <1>6 DEF GrowInv

\* What a step keeps that neither writes StatefulSets nor delivers any.
LEMMA ListsUntouched ==
    ASSUME GrowInv, UNCHANGED <<sts, seenSts, pending>>
    PROVE  /\ ListsOrdered' /\ CacheOneBehind'
           /\ UNCHANGED rc => ReconcilerVersion'
           /\ UNCHANGED cl => CleanupVersion'
BY DEF GrowInv, ListsOrdered, CacheOneBehind, Reached, ReconcilerVersion, CleanupVersion

LEMMA IdleGrow ==
    /\ rc' = NoReconcile => ReconcilerVersion'
    /\ cl' = NoCleanup => CleanupVersion'
BY DEF NoReconcile, NoCleanup, ReconcilerVersion, CleanupVersion

LEMMA ReconcileGrow == GrowInv /\ TypeInv' /\ ReconcileStep => GrowInv'
<1> SUFFICES ASSUME GrowInv, TypeInv', ReconcileStep PROVE GrowInv'
    OBVIOUS
<1>1. CASE ReconcileGet
    <2>1. UNCHANGED <<sts, seenSts, pending, cl>>
        BY <1>1 DEF ReconcileGet, apiVars, cacheVars
    <2>2. ReconcilerVersion'
        BY <1>1 DEF ReconcileGet, NoReconcile, ReconcilerVersion
    <2> QED BY <2>1, <2>2, ListsUntouched DEF GrowInv
<1>2. CASE ReconcileList
    <2>1. UNCHANGED <<sts, seenSts, pending, cl>>
        BY <1>2 DEF ReconcileList, apiVars, cacheVars
    <2>2. PICK m \in Nat : Reached(m) /\ \A v \in Versions(sts) : v <= m + 1
        BY DEF GrowInv, CacheOneBehind
    <2>3. Versions(sts) \subseteq Nat /\ Versions(seenSts) \subseteq Nat
        BY VersionTypes DEF GrowInv, TypeInv, TypeOK, ApiTypeOK, CacheTypeOK
    <2>4. rc'.version \in Nat /\ rc'.pc # "list"
        BY <1>2 DEF ReconcileList, GrowInv, TypeInv, TypeOK, WorkerTypeOK
    <2>5. Reached(rc'.version) /\ m <= rc'.version
        <3>1. CASE seenSts = {}
            <4>1. rc'.version = 0
                BY <1>2, <3>1 DEF ReconcileList, GrowInv, TypeInv, TypeOK, WorkerTypeOK,
                   ReconcilerVersion
            <4>2. m = 0
                BY <2>2, <3>1 DEF Reached, Versions
            <4> QED BY <4>1, <4>2 DEF Reached
        <3>2. CASE seenSts # {}
            <4>1. rc'.version \in Versions(seenSts) /\ \A v \in Versions(seenSts) : v <= rc'.version
                <5>1. PICK version \in Versions(seenSts), current \in seenSts :
                         /\ GetCurrentStatefulSet(seenSts, version, current)
                         /\ rc' = [rc EXCEPT
                                      !.pc = IF AltersVolumes(rc.rev, version,
                                                              Revisions[current.rev].replicas)
                                             THEN "volumes" ELSE "create",
                                      !.version = version]
                    BY <1>2, <3>2 DEF ReconcileList
                <5>2. rc'.version = version
                    BY <5>1 DEF GrowInv, TypeInv, TypeOK, WorkerTypeOK
                <5> QED BY <5>1, <5>2 DEF GetCurrentStatefulSet
            <4>2. m <= rc'.version
                BY <2>2, <2>3, <2>4, <4>1 DEF Reached
            <4>3. Reached(rc'.version)
                BY <2>4, <4>1 DEF Reached
            <4> QED BY <4>2, <4>3
        <3> QED BY <3>1, <3>2
    <2>6. \A v \in Versions(sts) : v <= rc'.version + 1
        BY <2>2, <2>3, <2>4, <2>5
    <2>7. ReconcilerVersion'
        BY <2>1, <2>4, <2>5, <2>6 DEF ReconcilerVersion, Reached
    <2> QED BY <2>1, <2>7, ListsUntouched DEF GrowInv
<1>3. CASE ReconcileListFails
    <2>1. UNCHANGED <<sts, seenSts, pending, cl>> /\ rc' = NoReconcile
        BY <1>3 DEF ReconcileListFails, RequeueReconcile, apiVars, cacheVars
    <2> QED BY <2>1, ListsUntouched, IdleGrow DEF GrowInv
<1>4. CASE CreateStatefulSet
    <2>1. /\ WriteSts(sts \cup {Desired}) /\ UNCHANGED <<seenSts, cl>>
          /\ rc.pc \in {"volumes", "create"} /\ rc' = NextZone
        BY <1>4 DEF CreateStatefulSet
    <2>2. sts' = sts \cup {Desired} /\ sts' \in SUBSET StatefulSet /\ sts \in SUBSET StatefulSet
        BY <2>1 DEF WriteSts, GrowInv, TypeInv, TypeOK, ApiTypeOK
    <2>3. Versions(sts) \subseteq Nat /\ Versions(sts') \subseteq Nat /\ Versions(seenSts) \subseteq Nat
        BY <2>2, VersionTypes DEF GrowInv, TypeInv, TypeOK, CacheTypeOK
    <2>4. Dominates(sts', sts)
        BY <2>2, <2>3 DEF Dominates, Versions
    <2>5. ListsOrdered'
        BY <2>1, <2>2, <2>4, WriteOrdered DEF GrowInv
    <2>6. Reached(rc.version) /\ rc.version \in Nat /\ \A v \in Versions(sts) : v <= rc.version + 1
        BY <2>1 DEF GrowInv, ReconcilerVersion, TypeInv, TypeOK, WorkerTypeOK
    <2>7. \A v \in Versions(sts') : v <= rc.version + 1
        <3>1. Desired.version \in {0, rc.version + 1}
            BY DEF Desired
        <3>2. \A v \in Versions(sts') : v \in Versions(sts) \/ v = Desired.version
            BY <2>2 DEF Versions
        <3> QED BY <2>6, <3>1, <3>2
    <2>8. CacheOneBehind'
        BY <2>1, <2>6, <2>7 DEF CacheOneBehind, Reached
    <2>9. rc'.version = rc.version /\ rc'.pc # "list"
        BY <2>1 DEF NextZone, GrowInv, TypeInv, TypeOK, WorkerTypeOK
    <2>10. ReconcilerVersion'
        BY <2>1, <2>6, <2>7, <2>9 DEF ReconcilerVersion, Reached
    <2>11. CleanupVersion'
        BY <2>1 DEF GrowInv, CleanupVersion, Reached
    <2> QED BY <2>5, <2>8, <2>10, <2>11 DEF GrowInv
<1>5. CASE CreateAlreadyExists
    <2>1. UNCHANGED <<sts, seenSts, pending, cl>> /\ rc' = NoReconcile
        BY <1>5 DEF CreateAlreadyExists, RequeueReconcile, apiVars, cacheVars
    <2> QED BY <2>1, ListsUntouched, IdleGrow DEF GrowInv
<1>6. CASE UpdateStatus
    <2>1. UNCHANGED <<sts, seenSts, pending, cl>> /\ rc' = NoReconcile
        BY <1>6 DEF UpdateStatus, cacheVars
    <2> QED BY <2>1, ListsUntouched, IdleGrow DEF GrowInv
<1> QED BY <1>1, <1>2, <1>3, <1>4, <1>5, <1>6 DEF ReconcileStep

\* A delete below a version that is reached, or of a volume-management
\* StatefulSet.
LEMMA DeleteGrow ==
    ASSUME GrowInv, TypeInv', NEW s \in cl.todo, DeleteStatefulSet(s),
           UNCHANGED <<seenSts, rc>>,
           IsVolumeManagement(s) \/ (s.version < cl.max /\ Reached(cl.max))
    PROVE  GrowInv'
<1>1. CASE Exists(s)
    <2>1. /\ WriteSts({t \in sts : ~SameName(s, t)})
          /\ cl' = [cl EXCEPT !.todo = @ \ {s}]
        BY <1>1 DEF DeleteStatefulSet
    <2>2. /\ sts' = {t \in sts : ~SameName(s, t)}
          /\ sts' \in SUBSET StatefulSet /\ sts \in SUBSET StatefulSet
          /\ seenSts \in SUBSET StatefulSet
          /\ s \in StatefulSet /\ cl.max \in Nat
        BY <2>1 DEF WriteSts, GrowInv, TypeInv, TypeOK, ApiTypeOK, CacheTypeOK, WorkerTypeOK
    <2>3. Versions(sts) \subseteq Nat /\ Versions(sts') \subseteq Nat /\ Versions(seenSts) \subseteq Nat
        BY <2>2, VersionTypes
    <2>4. \A v \in Versions(sts) : v # s.version => v \in Versions(sts')
        BY <2>2 DEF Versions, SameName
    <2>5. Dominates(sts', sts)
        <3>1. CASE IsVolumeManagement(s)
            <4>1. 0 \notin Versions(sts)
                BY <2>2, VersionTypes
            <4>2. Versions(sts) \subseteq Versions(sts')
                BY <2>4, <3>1, <4>1 DEF IsVolumeManagement
            <4> QED BY <2>3, <4>2 DEF Dominates
        <3>2. CASE s.version < cl.max /\ Reached(cl.max)
            <4>1. s.version \in Nat
                BY <2>2 DEF StatefulSet
            <4>2. PICK w \in Versions(seenSts) : cl.max <= w
                BY <2>2, <3>2, <4>1 DEF Reached
            <4>3. PICK x \in Versions(sts) : w <= x
                BY DEF GrowInv, ListsOrdered, Dominates
            <4>4. s.version < x /\ x \in Versions(sts')
                BY <2>2, <2>3, <2>4, <3>2, <4>1, <4>2, <4>3
            <4>5. ASSUME NEW v \in Versions(sts) PROVE \E u \in Versions(sts') : v <= u
                <5>1. CASE v = s.version
                    BY <2>3, <4>1, <4>4, <5>1
                <5>2. CASE v # s.version
                    BY <2>3, <2>4, <5>2
                <5> QED BY <5>1, <5>2
            <4> QED BY <4>5 DEF Dominates
        <3> QED BY <3>1, <3>2
    <2>6. ListsOrdered'
        BY <2>1, <2>2, <2>5, WriteOrdered DEF GrowInv
    <2>7. Versions(sts') \subseteq Versions(sts)
        BY <2>2 DEF Versions
    <2>8. CacheOneBehind' /\ ReconcilerVersion'
        BY <2>7 DEF GrowInv, CacheOneBehind, ReconcilerVersion, Reached
    <2>9. cl'.pc = cl.pc /\ cl'.max = cl.max /\ cl'.todo \subseteq cl.todo
        BY <2>1 DEF GrowInv, TypeInv, TypeOK, WorkerTypeOK
    <2>10. CleanupVersion'
        BY <2>9 DEF GrowInv, CleanupVersion, Reached
    <2> QED BY <2>6, <2>8, <2>10 DEF GrowInv
<1>2. CASE ~Exists(s)
    <2>1. UNCHANGED <<sts, seenSts, pending, rc>> /\ cl' = NoCleanup
        BY <1>2 DEF DeleteStatefulSet, RequeueCleanup
    <2> QED BY <2>1, ListsUntouched, IdleGrow DEF GrowInv
<1> QED BY <1>1, <1>2

LEMMA CleanupGrow == GrowInv /\ TypeInv' /\ CleanupStep => GrowInv'
<1> SUFFICES ASSUME GrowInv, TypeInv', CleanupStep PROVE GrowInv'
    OBVIOUS
<1>1. CASE CleanupGet
    <2>1. UNCHANGED <<sts, seenSts, pending, rc>>
        BY <1>1 DEF CleanupGet, apiVars, cacheVars
    <2>2. CleanupVersion'
        BY <1>1 DEF CleanupGet, NoCleanup, CleanupVersion
    <2> QED BY <2>1, <2>2, ListsUntouched DEF GrowInv
<1>2. ASSUME NEW s \in cl.todo, CleanupVolumes(s) PROVE GrowInv'
    <2>1. IsVolumeManagement(s)
        BY <1>2 DEF CleanupVolumes, GrowInv, CleanupVersion
    <2> QED BY <1>2, <2>1, DeleteGrow DEF CleanupVolumes
<1>3. ASSUME NEW s \in cl.todo, CleanupVolumesNotReady(s) PROVE GrowInv'
    <2>1. UNCHANGED <<sts, seenSts, pending, rc>> /\ cl.pc = "volumes"
        BY <1>3 DEF CleanupVolumesNotReady, apiVars, cacheVars
    <2>2. cl' \in {NoCleanup, [cl EXCEPT !.todo = @ \ {s}]}
        BY <1>3 DEF CleanupVolumesNotReady, RequeueCleanup
    <2>3. CASE cl' = NoCleanup
        BY <2>1, <2>3, ListsUntouched, IdleGrow DEF GrowInv
    <2>4. CASE cl' = [cl EXCEPT !.todo = @ \ {s}]
        <3>1. cl'.pc = cl.pc /\ cl'.todo \subseteq cl.todo
            BY <2>4 DEF GrowInv, TypeInv, TypeOK, WorkerTypeOK
        <3>2. CleanupVersion'
            BY <2>1, <3>1 DEF GrowInv, CleanupVersion
        <3> QED BY <2>1, <3>2, ListsUntouched DEF GrowInv
    <2> QED BY <2>2, <2>3, <2>4
<1>4. ASSUME NEW s \in cl.todo, CleanupDelete(s) PROVE GrowInv'
    <2>1. CASE IsVolumeManagement(s)
        <3>1. UNCHANGED <<sts, seenSts, pending, rc>> /\ cl' = NoCleanup
            BY <1>4, <2>1 DEF CleanupDelete, RequeueCleanup
        <3> QED BY <3>1, ListsUntouched, IdleGrow DEF GrowInv
    <2>2. CASE ~IsVolumeManagement(s)
        <3>1. s.version < cl.max /\ Reached(cl.max)
            BY <1>4, <2>2 DEF CleanupDelete, GrowInv, CleanupVersion
        <3> QED BY <1>4, <2>2, <3>1, DeleteGrow DEF CleanupDelete
    <2> QED BY <2>1, <2>2
<1>5. CASE CleanupVersions
    <2>1. UNCHANGED <<sts, seenSts, pending, rc>>
        BY <1>5 DEF CleanupVersions, apiVars, cacheVars
    <2>2. PICK chosen \in LastListed(seenSts) : \E max \in {0} \cup Versions(chosen) :
             cl' = IF \E v, w \in Versions(seenSts) : v # w
                   THEN [NoCleanup EXCEPT !.pc = "list", !.max = max]
                   ELSE NoCleanup
        BY <1>5 DEF CleanupVersions
    <2>3. PICK max \in {0} \cup Versions(seenSts) :
             cl' \in {NoCleanup, [NoCleanup EXCEPT !.pc = "list", !.max = max]}
        BY <2>2 DEF LastListed
    <2>4. Reached(max)
        BY <2>3, VersionTypes DEF Reached, GrowInv, TypeInv, TypeOK, CacheTypeOK
    <2>5. CleanupVersion'
        <3>1. CASE cl' = NoCleanup
            BY <3>1, IdleGrow
        <3>2. CASE cl' = [NoCleanup EXCEPT !.pc = "list", !.max = max]
            <4>1. cl'.pc = "list" /\ cl'.max = max
                BY <3>2 DEF NoCleanup
            <4> QED BY <2>1, <2>4, <4>1 DEF CleanupVersion, Reached
        <3> QED BY <2>3, <3>1, <3>2
    <2> QED BY <2>1, <2>5, ListsUntouched DEF GrowInv
<1>6. CASE CleanupVersionsFails
    <2>1. UNCHANGED <<sts, seenSts, pending, rc>> /\ cl' = NoCleanup
        BY <1>6 DEF CleanupVersionsFails, RequeueCleanup, apiVars, cacheVars
    <2> QED BY <2>1, ListsUntouched, IdleGrow DEF GrowInv
<1>7. CASE CleanupList
    <2>1. UNCHANGED <<sts, seenSts, pending, rc>> /\ cl.pc = "list"
        BY <1>7 DEF CleanupList, apiVars, cacheVars
    <2>2. /\ cl'.pc = "delete" /\ cl'.max = cl.max
          /\ \A s \in cl'.todo : IsVolumeManagement(s) \/ s.version < cl.max
        BY <1>7 DEF CleanupList, GrowInv, TypeInv, TypeOK, WorkerTypeOK
    <2>3. CleanupVersion'
        BY <2>1, <2>2 DEF GrowInv, CleanupVersion, Reached
    <2> QED BY <2>1, <2>3, ListsUntouched DEF GrowInv
<1>8. CASE CleanupDone
    <2>1. UNCHANGED <<sts, seenSts, pending, rc>> /\ cl' = NoCleanup
        BY <1>8 DEF CleanupDone, apiVars, cacheVars
    <2> QED BY <2>1, ListsUntouched, IdleGrow DEF GrowInv
<1> QED BY <1>1, <1>2, <1>3, <1>4, <1>5, <1>6, <1>7, <1>8 DEF CleanupStep

\* The cache moves on to a later list.
LEMMA CacheMovesOn ==
    ASSUME GrowInv, TypeInv', Dominates(seenSts', seenSts), ListsOrdered',
           UNCHANGED <<sts, rc, cl>>
    PROVE  GrowInv'
<1>1. CacheOneBehind'
    BY ReachedStays DEF GrowInv, CacheOneBehind
<1>2. ReconcilerVersion'
    BY ReachedStays DEF GrowInv, ReconcilerVersion, TypeInv, TypeOK, WorkerTypeOK
<1>3. CleanupVersion'
    BY ReachedStays DEF GrowInv, CleanupVersion, TypeInv, TypeOK, WorkerTypeOK
<1> QED BY <1>1, <1>2, <1>3 DEF GrowInv

LEMMA InformerGrow == GrowInv /\ TypeInv' /\ InformerStep => GrowInv'
<1> SUFFICES ASSUME GrowInv, TypeInv', InformerStep PROVE GrowInv'
    OBVIOUS
<1>1. CASE SyncSts
    <2>1. /\ pending # <<>> /\ seenSts' = Head(pending) /\ pending' = Tail(pending)
          /\ UNCHANGED <<sts, rc, cl>>
        BY <1>1 DEF SyncSts, apiVars
    <2>2. pending \in Seq(SUBSET StatefulSet)
        BY DEF GrowInv, TypeInv, TypeOK, CacheTypeOK
    <2>3. /\ Len(pending) \in Nat /\ 1 \in 1..Len(pending) /\ seenSts' = pending[1]
          /\ Len(pending') = Len(pending) - 1
          /\ \A i \in 1..Len(pending') :
                pending'[i] = pending[i + 1] /\ i + 1 \in 1..Len(pending) /\ 1 < i + 1
        BY <2>1, <2>2
    <2>4. Dominates(seenSts', seenSts) /\ Dominates(sts, seenSts')
        BY <2>3 DEF GrowInv, ListsOrdered
    <2>5. ASSUME NEW i \in 1..Len(pending')
          PROVE  /\ Dominates(pending'[i], seenSts')
                 /\ Dominates(sts, pending'[i])
                 /\ \A j \in 1..Len(pending') : i < j => Dominates(pending'[j], pending'[i])
        <3>1. Dominates(pending'[i], seenSts') /\ Dominates(sts, pending'[i])
            BY <2>3 DEF GrowInv, ListsOrdered
        <3>2. ASSUME NEW j \in 1..Len(pending'), i < j
              PROVE  Dominates(pending'[j], pending'[i])
            <4>1. i + 1 < j + 1
                BY <3>2
            <4> QED BY <2>3, <4>1 DEF GrowInv, ListsOrdered
        <3> QED BY <3>1, <3>2
    <2>6. ListsOrdered'
        BY <2>1, <2>4, <2>5 DEF ListsOrdered
    <2> QED BY <2>1, <2>4, <2>6, CacheMovesOn
<1>2. CASE ~SyncSts
    <2>1. UNCHANGED <<sts, seenSts, pending, rc, cl>>
        BY <1>2 DEF InformerStep, SyncSpec, SyncStatus, SyncPod, StsEvent, apiVars, cacheVars
    <2> QED BY <2>1, ListsUntouched DEF GrowInv
<1> QED BY <1>1, <1>2

LEMMA ClusterGrow == GrowInv /\ TypeInv' /\ ClusterStep => GrowInv'
<1> SUFFICES ASSUME GrowInv, TypeInv', ClusterStep PROVE GrowInv'
    OBVIOUS
<1>1. UNCHANGED <<sts, seenSts, pending, rc, cl>>
    BY DEF ClusterStep, UserUpdate, MeltdownEnds, PodReady, PodCollected, cacheVars
<1> QED BY <1>1, ListsUntouched DEF GrowInv

LEMMA DisturbanceGrow == GrowInv /\ TypeInv' /\ (Disturbance \/ Restart) => GrowInv'
<1> SUFFICES ASSUME GrowInv, TypeInv', Disturbance \/ Restart PROVE GrowInv'
    OBVIOUS
<1>1. CASE Disturbance
    <2>1. /\ UNCHANGED <<sts, seenSts, pending>>
          /\ rc' \in {rc, NoReconcile} /\ cl' \in {cl, NoCleanup}
        BY <1>1 DEF Disturbance, PodFails, ConfigChange, ApiErrorInReconcile,
           ApiErrorInCleanup, Crash, RequeueReconcile, RequeueCleanup, apiVars, cacheVars
    <2> QED BY <2>1, ListsUntouched, IdleGrow DEF GrowInv
<1>2. CASE Restart
    <2>1. /\ seenSts' = sts /\ pending' = <<>>
          /\ UNCHANGED <<sts, rc, cl>>
        BY <1>2 DEF Restart
    <2>2. Dominates(seenSts', seenSts)
        BY <2>1 DEF GrowInv, ListsOrdered
    <2>3. Dominates(sts, sts)
        BY DominatesReflexive DEF GrowInv, TypeInv, TypeOK, ApiTypeOK
    <2>4. ListsOrdered'
        BY <2>1, <2>3 DEF ListsOrdered
    <2> QED BY <2>1, <2>2, <2>4, CacheMovesOn
<1> QED BY <1>1, <1>2

LEMMA NextGrow == GrowInv /\ [Next]_vars => GrowInv'
<1> SUFFICES ASSUME GrowInv, [Next]_vars PROVE GrowInv'
    OBVIOUS
<1>1. TypeInv'
    BY NextTypes DEF GrowInv
<1>2. CASE UNCHANGED vars
    BY <1>1, <1>2, ListsUntouched DEF GrowInv, vars
<1> QED BY <1>1, <1>2, ReconcileGrow, CleanupGrow, ClusterGrow, InformerGrow,
           DisturbanceGrow DEF Next

LEMMA GrowInvariant == Spec => []GrowInv
BY InitTypeInv, InitGrow, NextGrow, PTL DEF Spec

LEMMA StepGrows ==
    ASSUME GrowInv, [Next]_vars, NEW s \in sts' \ sts, ~IsVolumeManagement(s),
           NEW t \in sts
    PROVE  t.version <= s.version
<1>1. CASE CreateStatefulSet
    <2>1. /\ s = Desired /\ s.version \in {0, rc.version + 1}
          /\ \A v \in Versions(sts) : v <= rc.version + 1
        BY <1>1 DEF CreateStatefulSet, WriteSts, Desired, GrowInv, ReconcilerVersion
    <2>2. t.version \in Nat /\ rc.version \in Nat
        BY DEF GrowInv, TypeInv, TypeOK, ApiTypeOK, WorkerTypeOK, StatefulSet
    <2>3. t.version = 0 \/ t.version \in Versions(sts)
        BY DEF Versions, IsVolumeManagement
    <2> QED BY <2>1, <2>2, <2>3 DEF IsVolumeManagement
<1>2. CASE ~CreateStatefulSet
    <2>1. \A u : DeleteStatefulSet(u) => sts' \subseteq sts
        BY DEF DeleteStatefulSet, WriteSts
    <2>2. ReconcileStep => UNCHANGED sts
        BY <1>2 DEF ReconcileStep, ReconcileGet, ReconcileList, ReconcileListFails,
           CreateAlreadyExists, UpdateStatus, apiVars
    <2>3. CleanupStep => sts' \subseteq sts
        BY <2>1 DEF CleanupStep, CleanupGet, CleanupVolumes, CleanupVolumesNotReady,
           CleanupDelete, CleanupVersions, CleanupVersionsFails, CleanupList, CleanupDone,
           apiVars
    <2>4. ClusterStep \/ InformerStep => UNCHANGED sts
        BY DEF ClusterStep, UserUpdate, MeltdownEnds, PodReady, PodCollected,
           InformerStep, SyncSpec, SyncStatus, SyncSts, SyncPod, StsEvent, apiVars
    <2>5. Disturbance \/ Restart => UNCHANGED sts
        BY DEF Disturbance, PodFails, ConfigChange, ApiErrorInReconcile,
           ApiErrorInCleanup, Crash, Restart, apiVars
    <2> QED BY <2>2, <2>3, <2>4, <2>5 DEF Next, vars
<1> QED BY <1>1, <1>2

\* The reconciler never creates a StatefulSet below a version that exists,
\* although "currentVersion + 1" comes from a list that may be as many changes
\* behind as the informer lags and cleanup deletes versions meanwhile.
THEOREM VersionsGrow == Spec => VersionsOnlyGrow
<1>1. GrowInv /\ [Next]_vars =>
        [\A s \in sts' \ sts : ~IsVolumeManagement(s) =>
            \A t \in sts : t.version <= s.version]_vars
    BY StepGrows
<1> QED BY <1>1, GrowInvariant, PTL DEF Spec, VersionsOnlyGrow
=============================================================================
