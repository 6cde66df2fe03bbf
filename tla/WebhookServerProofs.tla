------------------------ MODULE WebhookServerProofs ------------------------
(***************************************************************************)
(* Proofs about WebhookServer, for any number of operators, requests,      *)
(* resources, polls, edits and faults.                                     *)
(*                                                                         *)
(* CertificateTrusted speaks of the operators that serve; what makes it    *)
(* true is decided earlier.  The Secret is created once, by whoever is     *)
(* first, and an operator past setupCertificate holds the CA of the Secret *)
(* (CertifiedByStore); so the configurations can have no other CA          *)
(* (BundlesFromStore).                                                     *)
(***************************************************************************)
EXTENDS WebhookServer, TLAPS

\* The phases of a start after setupCertificate.
Certified == {"delValidating", "newValidating", "delMutating", "newMutating", "starting",
              "serving"}
Phases == {"absent", "crds", "getLabel", "setLabel", "getCert", "createCert"} \cup Certified

OperatorState == [phase : Phases, step : Nat, ca : Nat, seen : BOOLEAN]

StoreTypeOK ==
    /\ generated \in Nat /\ secret \in Nat /\ label \in BOOLEAN
    /\ hooks \in [Hooks -> Nat]
    /\ op \in [Operators -> OperatorState]

\* An operator that has its certificate has the one of the Secret.
CertifiedByStore ==
    \A o \in Operators : /\ op[o].phase \in Certified => op[o].ca = secret /\ secret # 0
                         /\ op[o].phase = "createCert" => op[o].ca # 0

\* A configuration trusts the CA of the Secret or is not there.
BundlesFromStore == \A h \in Hooks : hooks[h] \in {0, secret}

StoreInv == StoreTypeOK /\ CertifiedByStore /\ BundlesFromStore

LEMMA StoreInit == Init => StoreInv
<1> SUFFICES ASSUME Init PROVE StoreInv
    OBVIOUS
<1>1. StoreTypeOK
    BY DEF Init, StoreTypeOK, OperatorState, Absent, Starting, Phases
<1>2. CertifiedByStore /\ BundlesFromStore
    BY DEF Init, CertifiedByStore, BundlesFromStore, Absent, Starting, Certified
<1> QED BY <1>1, <1>2 DEF StoreInv

\* What leaves the objects and the operators alone keeps the invariant.
LEMMA StoreUnchanged ==
    StoreInv /\ UNCHANGED <<label, secret, generated, hooks, op>> => StoreInv'
BY DEF StoreInv, StoreTypeOK, CertifiedByStore, BundlesFromStore

\* An operator that starts again, for whatever reason, has no certificate yet.
LEMMA StoreStarts ==
    ASSUME StoreInv, NEW o \in Operators, NEW s \in {Starting, Absent},
           op' = [op EXCEPT ![o] = s], UNCHANGED <<label, secret, generated, hooks>>
    PROVE  StoreInv'
<1>1. s = [phase |-> s.phase, step |-> 1, ca |-> 0, seen |-> FALSE] /\ s.phase \in {"absent", "crds"}
    BY DEF Starting, Absent
<1>2. StoreTypeOK'
    <2>1. s \in OperatorState
        <3>1. Starting \in OperatorState
            BY DEF OperatorState, Starting, Phases
        <3>2. Absent \in OperatorState
            BY <3>1 DEF OperatorState, Absent, Phases
        <3> QED BY <3>1, <3>2
    <2> QED BY <2>1 DEF StoreInv, StoreTypeOK
<1>3. CertifiedByStore' /\ BundlesFromStore'
    BY <1>1 DEF StoreInv, StoreTypeOK, OperatorState, CertifiedByStore, BundlesFromStore, Certified
<1> QED BY <1>2, <1>3 DEF StoreInv

LEMMA StoreOperatorStep ==
    ASSUME StoreInv, NEW o \in Operators, OperatorStep(o) PROVE StoreInv'
<1> USE DEF StoreInv
<1>1. CASE CreateOperator(o)
    BY <1>1, StoreStarts DEF CreateOperator, Exits, objects
<1>2. CASE ApplyCRDs(o)
    <2>1. op' \in [Operators -> OperatorState]
        <3>1. CASE op' = [op EXCEPT ![o].step = @ + 1]
            BY <3>1 DEF StoreTypeOK, OperatorState
        <3>2. CASE op' = [op EXCEPT ![o].phase = "getLabel", ![o].step = 1]
            BY <3>2 DEF StoreTypeOK, OperatorState, Phases
        <3> QED BY <1>2, <3>1, <3>2 DEF ApplyCRDs
    <2>2. op'[o].phase \in {"crds", "getLabel"} /\ \A p \in Operators \ {o} : op'[p] = op[p]
        BY <1>2 DEF ApplyCRDs, StoreTypeOK, OperatorState
    <2>3. CertifiedByStore'
        BY <1>2, <2>2 DEF ApplyCRDs, CertifiedByStore, Certified
    <2> QED BY <1>2, <2>1, <2>3 DEF ApplyCRDs, StoreTypeOK, BundlesFromStore
<1>3. CASE GetNamespace(o)
    BY <1>3 DEF GetNamespace, objects, StoreTypeOK, OperatorState, CertifiedByStore, BundlesFromStore, Phases, Certified
<1>4. CASE setOperatorNamespaceLabel(o)
    <2>1. CASE op[o].seen = label
        <3>1. [op[o] EXCEPT !.phase = "getCert", !.seen = FALSE] \in OperatorState
            BY DEF StoreTypeOK, OperatorState, Phases
        <3>2. op' = [op EXCEPT ![o] = [op[o] EXCEPT !.phase = "getCert", !.seen = FALSE]] /\ label' = TRUE
            BY <1>4, <2>1 DEF setOperatorNamespaceLabel
        <3>3. StoreTypeOK'
            BY <1>4, <3>1, <3>2 DEF setOperatorNamespaceLabel, StoreTypeOK
        <3>4. CertifiedByStore' /\ BundlesFromStore'
            BY <1>4, <3>2 DEF setOperatorNamespaceLabel, StoreTypeOK, OperatorState, CertifiedByStore,
                              BundlesFromStore, Certified
        <3> QED BY <3>3, <3>4
    <2>2. CASE op[o].seen # label
        BY <1>4, <2>2, StoreStarts DEF setOperatorNamespaceLabel, Exits
    <2> QED BY <2>1, <2>2
<1>5. CASE GetCertificate(o)
    BY <1>5 DEF GetCertificate, StoreTypeOK, OperatorState, CertifiedByStore, BundlesFromStore, Phases, Certified
<1>6. CASE CreateCertificate(o)
    BY <1>6, StoreStarts DEF CreateCertificate, Exits, Goes, StoreTypeOK, OperatorState, CertifiedByStore,
                             BundlesFromStore, Phases, Certified
<1>7. CASE generateValidationWebhookServerConfig(o)
    BY <1>7, StoreStarts DEF generateValidationWebhookServerConfig, DeleteHook, CreateHook, Exits, Goes,
                             Hooks, StoreTypeOK, OperatorState, CertifiedByStore, BundlesFromStore, Phases, Certified
<1>8. CASE generateMutationWebhookServerConfig(o)
    BY <1>8, StoreStarts DEF generateMutationWebhookServerConfig, DeleteHook, CreateHook, Exits, Goes,
                             Hooks, StoreTypeOK, OperatorState, CertifiedByStore, BundlesFromStore, Phases, Certified
<1>9. CASE Start(o)
    BY <1>9 DEF Start, Goes, objects, StoreTypeOK, OperatorState, CertifiedByStore, BundlesFromStore, Phases, Certified
<1> QED BY <1>1, <1>2, <1>3, <1>4, <1>5, <1>6, <1>7, <1>8, <1>9 DEF OperatorStep

LEMMA StoreNext == StoreInv /\ [Next]_vars => StoreInv'
<1> SUFFICES ASSUME StoreInv, [Next]_vars PROVE StoreInv'
    OBVIOUS
<1>1. CASE \E o \in Operators : OperatorStep(o)
    BY <1>1, StoreOperatorStep
<1>2. CASE \E r \in Requests : Send(r) \/ RequestStep(r)
    BY <1>2, StoreUnchanged DEF Send, RequestStep, ListConfigMaps, OpsResourcesExist, PollTimeout,
                                ReadResource, Handle, objects
<1>3. CASE EditResources
    BY <1>3, StoreUnchanged DEF EditResources, objects
<1>4. CASE RemoveConfigurations
    BY <1>4 DEF RemoveConfigurations, StoreInv, StoreTypeOK, CertifiedByStore, BundlesFromStore
<1>5. CASE Fault
    <2>1. CASE \E o \in Operators : OperatorFails(o)
        BY <2>1, StoreStarts DEF OperatorFails, Exits, objects
    <2>2. CASE \E o \in Operators : OperatorLost(o)
        BY <2>2, StoreStarts DEF OperatorLost, objects
    <2>3. CASE \E r \in Requests : ListFails(r)
        BY <2>3, StoreUnchanged DEF ListFails, objects
    <2> QED BY <1>5, <2>1, <2>2, <2>3 DEF Fault
<1>6. CASE \E o \in Operators, k \in Kinds : Deliver(o, k)
    BY <1>6, StoreUnchanged DEF Deliver, objects
<1>7. CASE UNCHANGED vars
    BY <1>7, StoreUnchanged DEF vars, objects
<1> QED BY <1>1, <1>2, <1>3, <1>4, <1>5, <1>6, <1>7 DEF Next

\* The certificate of every operator that serves is trusted by the configurations
\* that are there, for any number of operators that race in setupCertificate and
\* in the replacement of the configurations, and any number of faults.
THEOREM CertificateIsTrusted == Spec => []CertificateTrusted
<1>1. StoreInv => CertificateTrusted
    BY DEF StoreInv, CertifiedByStore, BundlesFromStore, CertificateTrusted, Serving, Certified
<1> QED BY <1>1, StoreInit, StoreNext, PTL DEF Spec

-----------------------------------------------------------------------------
(* Requests.  That a request is rejected only with an excuse needs what the *)
(* operator knows between its calls: without one everything the request     *)
(* needs is in the cache since the poll began, so the list of ConfigMaps    *)
(* has its ConfigMaps, the poll does not fail, and what is left to read can *)
(* be read.  The cache changes only by what arrives from the watch, and the *)
(* cache of a manager that starts has no requests yet (ServedByOne).        *)

\* What the requests refer to.
Needed == UNION {Needs(r) : r \in Requests}

RequestState ==
    [phase : {"new", "waiting", "listing", "resolving", "admitted", "rejected"},
     by : Operators \cup {None}, polls : 0..MaxPolls, found : SUBSET Needed,
     toRead : SUBSET Needed, excuse : BOOLEAN]
RequestTypeOK ==
    /\ resources \subseteq Resources
    /\ refs \in RefsOf
    /\ DOMAIN cache = Operators
    /\ request \in [Requests -> RequestState]

RequestOK(r) ==
    /\ request[r].toRead \subseteq Needs(r)
    /\ request[r].phase = "new" => request[r].polls = 0
    /\ request[r].phase = "listing" => request[r].polls < MaxPolls
    /\ request[r].phase \in {"listing", "resolving"} =>
          request[r].excuse \/ Complete(r, cache[request[r].by])
    /\ request[r].phase = "listing" =>
          request[r].excuse \/ \A x \in refs[r] : x[1] = "configmap" => x \in request[r].found
    /\ Listed(r) /\ request[r].phase = "waiting" /\ request[r].polls > 0 => request[r].excuse
    /\ Listed(r) /\ request[r].phase = "rejected" => request[r].excuse

RequestInv == RequestTypeOK /\ \A r \in Requests : RequestOK(r)

\* A request that is being validated is with an operator that serves.
ServedByOne(r) == Active(r) => request[r].by \in Serving

LEMMA RequestInit == Init => RequestInv
<1> SUFFICES ASSUME Init PROVE RequestInv
    OBVIOUS
<1>1. New \in RequestState
    BY WebhookAssumption DEF New, RequestState
<1>2. RequestTypeOK
    BY <1>1, WebhookAssumption DEF Init, RequestTypeOK
<1>3. \A r \in Requests : RequestOK(r)
    BY DEF Init, New, RequestOK
<1> QED BY <1>2, <1>3 DEF RequestInv

\* A step of one request, with resources and caches as they are.
LEMMA OneRequest ==
    ASSUME RequestInv, NEW r \in Requests, NEW s \in RequestState,
           request' = [request EXCEPT ![r] = s], UNCHANGED <<resources, cache, refs>>,
           RequestOK(r)'
    PROVE  RequestInv'
<1>1. RequestTypeOK'
    BY DEF RequestInv, RequestTypeOK, RequestState, Needed, Needs
<1>2. ASSUME NEW q \in Requests, q # r PROVE RequestOK(q)'
    <2>1. request'[q] = request[q]
        BY <1>2 DEF RequestInv, RequestTypeOK
    <2> QED BY <2>1 DEF RequestInv, RequestOK, Listed, Complete, Needs, Sees
<1> QED BY <1>1, <1>2 DEF RequestInv

\* A request that is answered; rejected only with an excuse.
LEMMA AnsweredState ==
    /\ [New EXCEPT !.phase = "admitted"] \in RequestState
    /\ \A e \in BOOLEAN : [New EXCEPT !.phase = "rejected", !.excuse = e] \in RequestState
<1>1. New \in RequestState
    BY WebhookAssumption DEF New, RequestState
<1> QED BY <1>1 DEF RequestState

LEMMA RequestAdmitted ==
    ASSUME RequestInv, NEW r \in Requests, Ends(r, "admitted"), UNCHANGED <<resources, cache, refs>>
    PROVE  RequestInv'
<1>1. request' = [request EXCEPT ![r] = [New EXCEPT !.phase = "admitted"]]
    BY DEF Ends
<1>2. request'[r] = [New EXCEPT !.phase = "admitted"]
    BY <1>1 DEF RequestInv, RequestTypeOK
<1>3. RequestOK(r)'
    BY <1>2 DEF Listed, RequestOK, New
<1> QED BY <1>1, <1>3, AnsweredState, OneRequest

LEMMA RequestRejected ==
    ASSUME RequestInv, NEW r \in Requests, NEW excused \in BOOLEAN, Rejected(r, excused),
           Listed(r) => request[r].excuse \/ excused, UNCHANGED <<resources, cache, refs>>
    PROVE  RequestInv'
<1> DEFINE e == request[r].excuse \/ excused
<1>1. e \in BOOLEAN
    BY Zenon
<1>2. request' = [request EXCEPT ![r] = [New EXCEPT !.phase = "rejected", !.excuse = e]]
    BY Zenon DEF Rejected
<1>3. Listed(r) => e
    BY Zenon
<1> HIDE DEF e
<1>4. request'[r] = [New EXCEPT !.phase = "rejected", !.excuse = e]
    BY <1>2 DEF RequestInv, RequestTypeOK
<1>5. RequestOK(r)'
    BY <1>1, <1>3, <1>4 DEF Listed, RequestOK, New
<1> QED BY <1>1, <1>2, <1>5, AnsweredState, OneRequest

\* A request is sent to an operator that serves.
LEMMA RequestSent ==
    ASSUME RequestInv, NEW r \in Requests, Send(r) PROVE RequestInv'
<1> USE DEF user, informers
<1>1. CASE Ends(r, "admitted")
    BY <1>1, RequestAdmitted DEF Send
<1>2. CASE Rejected(r, TRUE)
    BY <1>2, RequestRejected DEF Send
<1>3. ASSUME NEW o \in Operators, request' = [request EXCEPT ![r].phase = "waiting", ![r].by = o]
      PROVE  RequestInv'
    <2> DEFINE s == [request[r] EXCEPT !.phase = "waiting", !.by = o]
    <2>1. request[r] \in RequestState
        BY DEF RequestInv, RequestTypeOK
    <2>2. s \in RequestState
        BY <2>1 DEF RequestState
    <2>3. request' = [request EXCEPT ![r] = s]
        BY <1>3 DEF RequestInv, RequestTypeOK
    <2>4. request'[r] = s /\ request[r].phase = "new"
        BY <2>3 DEF RequestInv, RequestTypeOK, Send
    <2>5. RequestOK(r)'
        <3>1. /\ request'[r].phase = "waiting" /\ request'[r].polls = request[r].polls
              /\ request'[r].toRead = request[r].toRead
            BY <2>1, <2>4 DEF RequestState
        <3>2. request[r].polls = 0 /\ request[r].toRead \subseteq Needs(r)
            BY <2>4 DEF RequestInv, RequestOK
        <3>3. refs' = refs
            BY DEF Send
        <3> QED BY <3>1, <3>2, <3>3 DEF Listed, RequestOK, Needs
    <2> QED BY <2>2, <2>3, <2>5, OneRequest DEF Send
<1> QED BY <1>1, <1>2, <1>3 DEF Send, Trusted, Serving

LEMMA RequestListed ==
    ASSUME RequestInv, NEW r \in Requests, ListConfigMaps(r) PROVE RequestInv'
<1> DEFINE known == cache[request[r].by]
           found == {x \in refs[r] : x[1] = "configmap" /\ x \in known}
           e == ~Complete(r, known)
           s == [request[r] EXCEPT !.phase = "listing", !.found = found, !.excuse = e]
<1>1. request[r] \in RequestState /\ RequestOK(r)
    BY DEF RequestInv, RequestTypeOK
<1>2. /\ request[r].phase = "waiting" /\ request[r].polls < MaxPolls /\ UNCHANGED <<resources, cache, refs>>
    BY DEF ListConfigMaps, user, informers
<1>3. request' = [request EXCEPT ![r] = s]
    BY DEF ListConfigMaps, RequestInv, RequestTypeOK
<1>4. found \in SUBSET Needed /\ e \in BOOLEAN
    <2>1. found \in SUBSET Needed
        BY DEF Needed, Needs
    <2>2. e \in BOOLEAN
        BY Zenon
    <2> QED BY <2>1, <2>2
<1>5. e \/ (Complete(r, known) /\ \A x \in refs[r] : x[1] = "configmap" => x \in found)
    <2> SUFFICES ASSUME Complete(r, known) PROVE \A x \in refs[r] : x[1] = "configmap" => x \in found
        BY Zenon
    <2> QED BY DEF Complete, Needs, Sees
<1> HIDE DEF found, e
<1>6. s \in RequestState
    BY <1>1, <1>4 DEF RequestState
<1>7. request'[r] = s
    BY <1>3 DEF RequestInv, RequestTypeOK
<1>8. /\ request'[r].phase = "listing" /\ request'[r].found = found /\ request'[r].excuse = e
      /\ request'[r].polls = request[r].polls /\ request'[r].toRead = request[r].toRead
      /\ request'[r].by = request[r].by
    BY <1>1, <1>7 DEF RequestState
<1>9. RequestOK(r)'
    BY <1>1, <1>2, <1>5, <1>8 DEF Listed, RequestOK, Complete, Needs, Sees
<1> QED BY <1>2, <1>3, <1>6, <1>9, OneRequest

\* What is found is everything, or the request has an excuse or a URL.
LEMMA RequestLookedUp ==
    ASSUME RequestInv, NEW r \in Requests, OpsResourcesExist(r) PROVE RequestInv'
<1> DEFINE known == cache[request[r].by]
           all == \A x \in refs[r] : x \in request[r].found \/ (x[1] = "secret" /\ x \in known)
           phase == IF all THEN "resolving" ELSE "waiting"
           toRead == IF all THEN Needs(r) ELSE {}
           s == [request[r] EXCEPT !.phase = phase, !.polls = @ + 1, !.found = {}, !.toRead = toRead]
<1>1. /\ request[r] \in RequestState /\ request[r].phase = "listing" /\ RequestOK(r)
      /\ UNCHANGED <<resources, cache, refs>>
    BY DEF RequestInv, RequestTypeOK, OpsResourcesExist, user, informers
<1>2. request[r].polls + 1 \in 0..MaxPolls
    BY <1>1, WebhookAssumption DEF RequestState, RequestOK
<1>3. /\ phase \in {"resolving", "waiting"} /\ toRead \in SUBSET Needed /\ toRead \subseteq Needs(r)
      /\ phase = "waiting" => ~all
    <2>1. phase \in {"resolving", "waiting"}
        BY Zenon
    <2>2. toRead \subseteq Needs(r)
        BY Zenon
    <2>3. toRead \in SUBSET Needed
        BY <2>2, Zenon DEF Needed
    <2>4. phase = "waiting" => ~all
        OBVIOUS
    <2> QED BY <2>1, <2>2, <2>3, <2>4
<1>4. request' = [request EXCEPT ![r] = s]
    BY DEF OpsResourcesExist, LookedUp, RequestInv, RequestTypeOK
<1>5. Listed(r) => request[r].excuse \/ all
    <2> SUFFICES ASSUME Listed(r), Complete(r, known), NEW x \in refs[r],
                        \A y \in refs[r] : y[1] = "configmap" => y \in request[r].found
                 PROVE  x \in request[r].found \/ (x[1] = "secret" /\ x \in known)
        BY <1>1 DEF RequestOK
    <2>1. x[1] \in Kinds
        BY DEF Listed
    <2>2. Sees(known, x)
        BY DEF Complete, Needs
    <2> QED BY <2>1, <2>2 DEF Kinds, Sees
<1> HIDE DEF all, phase, toRead
<1>6. s \in RequestState
    BY <1>1, <1>2, <1>3 DEF RequestState
<1>7. request'[r] = s
    BY <1>4 DEF RequestInv, RequestTypeOK
<1>8. /\ request'[r].phase = phase /\ request'[r].toRead = toRead
      /\ request'[r].excuse = request[r].excuse /\ request'[r].by = request[r].by
    BY <1>1, <1>7 DEF RequestState
<1>9. RequestOK(r)'
    BY <1>1, <1>3, <1>5, <1>8 DEF Listed, RequestOK, Complete, Needs, Sees
<1> QED BY <1>1, <1>4, <1>6, <1>9, OneRequest

LEMMA RequestPolledTooLong ==
    ASSUME RequestInv, NEW r \in Requests, PollTimeout(r) PROVE RequestInv'
<1>1. Listed(r) => request[r].excuse
    BY DEF PollTimeout, RequestInv, RequestOK
<1> QED BY <1>1, RequestRejected DEF PollTimeout, user, informers

LEMMA RequestReads ==
    ASSUME RequestInv, NEW r \in Requests, ReadResource(r) PROVE RequestInv'
<1>1. /\ request[r] \in RequestState /\ request[r].phase = "resolving" /\ RequestOK(r)
      /\ UNCHANGED <<resources, cache, refs>>
    BY DEF RequestInv, RequestTypeOK, ReadResource, user, informers
<1>2. PICK x \in request[r].toRead :
          IF Sees(cache[request[r].by], x) THEN request' = [request EXCEPT ![r].toRead = @ \ {x}]
          ELSE Rejected(r, FALSE)
    BY DEF ReadResource
<1>3. CASE Sees(cache[request[r].by], x)
    <2> DEFINE s == [request[r] EXCEPT !.toRead = @ \ {x}]
    <2>1. s \in RequestState
        BY <1>1 DEF RequestState
    <2>2. request' = [request EXCEPT ![r] = s]
        BY <1>2, <1>3 DEF RequestInv, RequestTypeOK
    <2>3. request'[r] = s
        BY <2>2 DEF RequestInv, RequestTypeOK
    <2>4. RequestOK(r)'
        BY <1>1, <2>3 DEF Listed, RequestOK, RequestState, Complete, Needs, Sees
    <2> QED BY <1>1, <2>1, <2>2, <2>4, OneRequest
<1>4. CASE ~Sees(cache[request[r].by], x)
    <2>1. ~Complete(r, cache[request[r].by])
        BY <1>1, <1>4 DEF Complete, RequestOK
    <2>2. request[r].excuse
        BY <1>1, <2>1 DEF Listed, RequestOK
    <2> QED BY <1>1, <1>2, <1>4, <2>2, RequestRejected
<1> QED BY <1>3, <1>4

\* What a change that arrives does to a request: nothing but the excuse.
LEMMA DeliveredRequest ==
    ASSUME RequestInv, NEW o \in Operators, NEW k \in Kinds, Deliver(o, k), NEW r \in Requests
    PROVE  /\ request'[r] \in RequestState
           /\ request'[r].phase = request[r].phase /\ request'[r].polls = request[r].polls
           /\ request'[r].found = request[r].found /\ request'[r].toRead = request[r].toRead
           /\ request'[r].by = request[r].by
           /\ request[r].excuse => request'[r].excuse
           /\ Active(r) /\ request[r].by = o => request'[r].excuse \/ Complete(r, cache'[o])
<1> DEFINE known == Toggle(cache[o], Head(watch[o][k]))
           lacks == Active(r) /\ request[r].by = o /\ ~Complete(r, known)
           e == request[r].excuse \/ lacks
<1>1. request[r] \in RequestState /\ DOMAIN cache = Operators
    BY DEF RequestInv, RequestTypeOK
<1>2. request'[r] = [request[r] EXCEPT !.excuse = e] /\ cache' = [cache EXCEPT ![o] = known]
    BY Zenon DEF Deliver
<1>3. e \in BOOLEAN /\ (request[r].excuse => e) /\ (lacks => e)
    BY Zenon
<1>4. cache'[o] = known
    BY <1>1, <1>2
<1>5. Active(r) /\ request[r].by = o => e \/ Complete(r, cache'[o])
    BY <1>3, <1>4, Zenon
<1> HIDE DEF e
<1>6. request'[r] \in RequestState /\ request'[r].excuse = e
    BY <1>1, <1>2, <1>3 DEF RequestState
<1>7. /\ request'[r].phase = request[r].phase /\ request'[r].polls = request[r].polls
      /\ request'[r].found = request[r].found /\ request'[r].toRead = request[r].toRead
      /\ request'[r].by = request[r].by
    BY <1>1, <1>2 DEF RequestState
<1> QED BY <1>3, <1>5, <1>6, <1>7, Zenon

LEMMA RequestDelivers ==
    ASSUME RequestInv, NEW o \in Operators, NEW k \in Kinds, Deliver(o, k) PROVE RequestInv'
<1>1. /\ refs' = refs /\ resources' = resources /\ DOMAIN cache' = Operators
      /\ \A p \in Operators \ {o} : cache'[p] = cache[p]
    BY DEF Deliver, RequestInv, RequestTypeOK
<1>2. ASSUME NEW r \in Requests PROVE RequestOK(r)'
    <2>1. /\ request'[r].phase = request[r].phase /\ request'[r].polls = request[r].polls
          /\ request'[r].found = request[r].found /\ request'[r].toRead = request[r].toRead
          /\ request'[r].by = request[r].by
          /\ request[r].excuse => request'[r].excuse
          /\ Active(r) /\ request[r].by = o => request'[r].excuse \/ Complete(r, cache'[o])
        BY DeliveredRequest
    <2>2. RequestOK(r) /\ Needs(r)' = Needs(r)
        BY <1>1 DEF RequestInv, Needs
    <2>3. CASE request[r].phase \in {"listing", "resolving"}
        <3>1. Active(r)
            BY <2>3 DEF Active
        <3>2. Complete(r, cache[request[r].by]) /\ request[r].by # o => Complete(r, cache'[request[r].by])
            <4>1. request[r].by \in Operators \/ request[r].by \notin DOMAIN cache
                BY DEF RequestInv, RequestTypeOK
            <4>2. cache' = [cache EXCEPT ![o] = Toggle(cache[o], Head(watch[o][k]))]
                BY DEF Deliver
            <4>3. request[r].by # o => cache'[request[r].by] = cache[request[r].by]
                BY <4>2
            <4> QED BY <4>3
        <3>3. request'[r].excuse \/ Complete(r, cache'[request[r].by])
            BY <2>1, <2>2, <2>3, <3>1, <3>2 DEF Listed, RequestOK
        <3>4. request'[r].excuse \/ Complete(r, cache[request[r].by])'
            BY <1>1, <2>1, <3>3 DEF Complete, Needs, Sees
        <3> QED BY <1>1, <2>1, <2>2, <2>3, <3>4 DEF Listed, RequestOK
    <2>4. CASE request[r].phase \notin {"listing", "resolving"}
        BY <1>1, <2>1, <2>2, <2>4 DEF Listed, RequestOK
    <2> QED BY <2>3, <2>4
<1>3. RequestTypeOK'
    <2>1. request' \in [Requests -> RequestState]
        BY DeliveredRequest DEF Deliver
    <2> QED BY <1>1, <2>1 DEF RequestInv, RequestTypeOK, RequestState, Needed, Needs
<1> QED BY <1>2, <1>3 DEF RequestInv

\* The manager that starts has no requests yet.
LEMMA RequestStart ==
    ASSUME RequestInv, \A r \in Requests : ServedByOne(r), NEW o \in Operators, Start(o)
    PROVE  RequestInv'
<1>1. /\ UNCHANGED <<resources, refs, request>> /\ o \notin Serving
      /\ cache' = [cache EXCEPT ![o] = resources] /\ DOMAIN cache' = Operators
    BY DEF Start, Serving, RequestInv, RequestTypeOK
<1>2. ASSUME NEW r \in Requests PROVE RequestOK(r)'
    <2>1. CASE Active(r)
        <3>1. request[r].by \in Operators /\ request[r].by # o
            BY <1>1, <2>1 DEF ServedByOne, Serving
        <3>2. cache'[request[r].by] = cache[request[r].by]
            BY <1>1, <3>1 DEF RequestInv, RequestTypeOK
        <3> QED BY <1>1, <3>2 DEF RequestInv, RequestOK, Listed, Complete, Needs, Sees
    <2>2. CASE ~Active(r)
        BY <1>1, <2>2 DEF RequestInv, RequestOK, Listed, Active, Needs
    <2> QED BY <2>1, <2>2
<1>3. RequestTypeOK'
    BY <1>1 DEF RequestInv, RequestTypeOK, RequestState, Needed, Needs
<1> QED BY <1>2, <1>3 DEF RequestInv

\* Requests of an operator that is gone are rejected, for a reason.
LEMMA RequestAbandoned ==
    ASSUME RequestInv, NEW o \in Operators, Abandon(o), UNCHANGED <<resources, cache, refs>> PROVE RequestInv'
<1>1. ASSUME NEW r \in Requests PROVE request'[r] \in RequestState /\ RequestOK(r)'
    <2>1. CASE request[r].by = o
        <3>1. request'[r] = [New EXCEPT !.phase = "rejected", !.excuse = TRUE]
            BY <2>1 DEF Abandon
        <3> QED BY <3>1, AnsweredState DEF Listed, RequestOK, New
    <2>2. CASE request[r].by # o
        <3>1. request'[r] = request[r]
            BY <2>2 DEF Abandon
        <3> QED BY <3>1 DEF RequestInv, RequestTypeOK, RequestOK, Listed, Complete, Needs, Sees
    <2> QED BY <2>1, <2>2
<1>2. request' \in [Requests -> RequestState]
    BY <1>1 DEF Abandon
<1>3. RequestTypeOK'
    BY <1>2 DEF RequestInv, RequestTypeOK, RequestState, Needed, Needs
<1> QED BY <1>1, <1>3 DEF RequestInv

LEMMA RequestUnchanged ==
    RequestInv /\ UNCHANGED <<cache, refs, request>> /\ resources' \subseteq Resources => RequestInv'
BY DEF RequestInv, RequestTypeOK, RequestState, Needed, RequestOK, Listed, Complete, Needs, Sees

LEMMA RequestNext ==
    RequestInv /\ (\A r \in Requests : ServedByOne(r)) /\ [Next]_vars => RequestInv'
<1> SUFFICES ASSUME RequestInv, \A r \in Requests : ServedByOne(r), [Next]_vars PROVE RequestInv'
    OBVIOUS
<1> USE DEF user, informers
<1>0. UNCHANGED resources => resources' \subseteq Resources
    BY DEF RequestInv, RequestTypeOK
<1>1. CASE \E o \in Operators : OperatorStep(o)
    <2>1. ASSUME NEW o \in Operators, OperatorStep(o), ~Start(o) PROVE RequestInv'
        BY <1>0, <2>1, RequestUnchanged DEF OperatorStep, CreateOperator, ApplyCRDs, GetNamespace,
            setOperatorNamespaceLabel, GetCertificate, CreateCertificate,
            generateValidationWebhookServerConfig, generateMutationWebhookServerConfig, DeleteHook, CreateHook
    <2> QED BY <1>1, <2>1, RequestStart
<1>2. CASE \E r \in Requests : Send(r)
    BY <1>2, RequestSent
<1>3. CASE \E r \in Requests : RequestStep(r)
    <2>1. ASSUME NEW r \in Requests, Handle(r) PROVE RequestInv'
        BY <2>1, RequestAdmitted DEF Handle
    <2> QED BY <1>3, <2>1, RequestListed, RequestLookedUp, RequestPolledTooLong, RequestReads DEF RequestStep
<1>4. CASE EditResources
    <2>1. resources' \subseteq Resources
        BY <1>4 DEF EditResources, Toggle, RequestInv, RequestTypeOK
    <2> QED BY <1>4, <2>1, RequestUnchanged DEF EditResources
<1>5. CASE RemoveConfigurations
    BY <1>0, <1>5, RequestUnchanged DEF RemoveConfigurations
<1>6. CASE Fault
    <2>1. CASE \E o \in Operators : OperatorFails(o) \/ OperatorLost(o)
        BY <2>1, RequestAbandoned DEF OperatorFails, OperatorLost
    <2>2. CASE \E r \in Requests : ListFails(r)
        BY <2>2, RequestRejected DEF ListFails
    <2> QED BY <1>6, <2>1, <2>2 DEF Fault
<1>7. CASE \E o \in Operators, k \in Kinds : Deliver(o, k)
    BY <1>7, RequestDelivers
<1>8. CASE UNCHANGED vars
    BY <1>0, <1>8, RequestUnchanged DEF vars
<1> QED BY <1>1, <1>2, <1>3, <1>4, <1>5, <1>6, <1>7, <1>8 DEF Next

-----------------------------------------------------------------------------
(* The type invariant.  Two of its parts need an argument: the step of      *)
(* ApplyCRDs stays within the list of CRDs, and a request that is being     *)
(* validated is with an operator that serves, since the operator that goes  *)
(* takes its requests with it (Abandon).                                    *)

CAsKnown ==
    /\ secret <= generated
    /\ \A h \in Hooks : hooks[h] <= generated
    /\ \A o \in Operators : op[o].ca <= generated
StepsInList ==
    /\ crds \subseteq ToSet(CRDs)
    /\ \A o \in Operators : op[o].step \in 1..Len(CRDs)

TypeInv == CAsKnown /\ StepsInList /\ \A r \in Requests : ServedByOne(r)

LEMMA CRDsFacts ==
    /\ Len(CRDs) \in Nat /\ 1 <= Len(CRDs) /\ DOMAIN CRDs = 1..Len(CRDs)
    /\ \A i \in 1..Len(CRDs) : CRDs[i] \in ToSet(CRDs)
<1>1. Len(CRDs) \in Nat /\ DOMAIN CRDs = 1..Len(CRDs) /\ Len(CRDs) # 0
    BY WebhookAssumption
<1>2. 1 <= Len(CRDs)
    BY <1>1
<1> QED BY <1>1, <1>2 DEF ToSet

LEMMA TypeInit == Init => TypeInv
<1> SUFFICES ASSUME Init PROVE TypeInv
    OBVIOUS
<1>1. CAsKnown
    BY DEF Init, CAsKnown, Absent, Starting, Hooks
<1>2. StepsInList
    BY CRDsFacts DEF Init, StepsInList, Absent, Starting
<1>3. \A r \in Requests : ServedByOne(r)
    BY DEF Init, ServedByOne, Active, New
<1> QED BY <1>1, <1>2, <1>3 DEF TypeInv

\* What one operator does to itself while it starts.
LEMMA OneOperator ==
    ASSUME StoreInv, TypeInv, NEW o \in Operators, NEW s,
           op' = [op EXCEPT ![o] = s], op[o].phase # "serving", UNCHANGED request,
           s.step \in 1..Len(CRDs), s.ca <= generated', generated <= generated', generated' \in Nat,
           secret' <= generated', \A h \in Hooks : hooks'[h] <= generated', crds' \subseteq ToSet(CRDs)
    PROVE  TypeInv'
<1>1. op'[o] = s /\ \A p \in Operators \ {o} : op'[p] = op[p]
    BY DEF StoreInv, StoreTypeOK
<1>2. CAsKnown'
    <2>1. \A p \in Operators : op[p].ca \in Nat /\ op[p].ca <= generated /\ generated \in Nat
        BY DEF StoreInv, StoreTypeOK, OperatorState, TypeInv, CAsKnown
    <2> QED BY <1>1, <2>1 DEF CAsKnown
<1>3. StepsInList'
    BY <1>1 DEF TypeInv, StepsInList
<1>4. \A r \in Requests : ServedByOne(r)'
    BY <1>1 DEF TypeInv, ServedByOne, Active, Serving
<1> QED BY <1>2, <1>3, <1>4 DEF TypeInv

LEMMA TypeOperatorStep ==
    ASSUME StoreInv, TypeInv, NEW o \in Operators, OperatorStep(o) PROVE TypeInv'
<1>1. /\ op[o] \in OperatorState /\ generated \in Nat /\ secret \in Nat /\ \A h \in Hooks : hooks[h] \in Nat
      /\ op[o].ca <= generated /\ secret <= generated /\ \A h \in Hooks : hooks[h] <= generated
      /\ op[o].step \in 1..Len(CRDs) /\ crds \subseteq ToSet(CRDs) /\ op \in [Operators -> OperatorState]
      /\ hooks \in [Hooks -> Nat]
    BY DEF StoreInv, StoreTypeOK, TypeInv, CAsKnown, StepsInList
<1>2. /\ Starting.step \in 1..Len(CRDs) /\ Starting.ca <= generated
      /\ generated + 1 \in Nat /\ generated <= generated + 1 /\ generated <= generated
    BY <1>1, CRDsFacts DEF Starting
<1>3. CASE CreateOperator(o)
    BY <1>1, <1>2, <1>3, OneOperator DEF CreateOperator, Exits, objects
<1>4. CASE ApplyCRDs(o)
    <2>1. CRDs[op[o].step] \in ToSet(CRDs)
        BY <1>1, CRDsFacts
    <2>2. CASE op[o].step < Len(CRDs)
        <3> DEFINE s == [op[o] EXCEPT !.step = @ + 1]
        <3>1. op' = [op EXCEPT ![o] = s]
            BY <1>1, <1>4, <2>2 DEF ApplyCRDs
        <3>2. s.step \in 1..Len(CRDs) /\ s.ca = op[o].ca
            BY <1>1, <2>2, CRDsFacts DEF OperatorState
        <3> HIDE DEF s
        <3> QED BY <1>1, <1>2, <1>4, <2>1, <3>1, <3>2, OneOperator DEF ApplyCRDs
    <2>3. CASE ~(op[o].step < Len(CRDs))
        <3> DEFINE s == [op[o] EXCEPT !.phase = "getLabel", !.step = 1]
        <3>1. op' = [op EXCEPT ![o] = s]
            BY <1>1, <1>4, <2>3 DEF ApplyCRDs
        <3>2. s.step \in 1..Len(CRDs) /\ s.ca = op[o].ca
            BY <1>1, CRDsFacts DEF OperatorState
        <3> HIDE DEF s
        <3> QED BY <1>1, <1>2, <1>4, <2>1, <3>1, <3>2, OneOperator DEF ApplyCRDs
    <2> QED BY <2>2, <2>3
<1>5. CASE GetNamespace(o)
    <2> DEFINE s == [op[o] EXCEPT !.phase = "setLabel", !.seen = label]
    <2>1. op' = [op EXCEPT ![o] = s]
        BY <1>1, <1>5 DEF GetNamespace
    <2>2. s.step = op[o].step /\ s.ca = op[o].ca
        BY <1>1 DEF OperatorState
    <2> HIDE DEF s
    <2> QED BY <1>1, <1>2, <1>5, <2>1, <2>2, OneOperator DEF GetNamespace, objects
<1>6. CASE setOperatorNamespaceLabel(o)
    <2>1. CASE op[o].seen = label
        <3> DEFINE s == [op[o] EXCEPT !.phase = "getCert", !.seen = FALSE]
        <3>1. op' = [op EXCEPT ![o] = s]
            BY <1>1, <1>6, <2>1 DEF setOperatorNamespaceLabel
        <3>2. s.step = op[o].step /\ s.ca = op[o].ca
            BY <1>1 DEF OperatorState
        <3> HIDE DEF s
        <3> QED BY <1>1, <1>2, <1>6, <3>1, <3>2, OneOperator DEF setOperatorNamespaceLabel
    <2>2. CASE op[o].seen # label
        BY <1>1, <1>2, <1>6, <2>2, OneOperator DEF setOperatorNamespaceLabel, Exits
    <2> QED BY <2>1, <2>2
<1>7. CASE GetCertificate(o)
    <2>1. CASE secret # 0
        <3> DEFINE s == [op[o] EXCEPT !.phase = "delValidating", !.ca = secret]
        <3>1. op' = [op EXCEPT ![o] = s] /\ generated' = generated
            BY <1>1, <1>7, <2>1 DEF GetCertificate
        <3>2. s.step = op[o].step /\ s.ca = secret
            BY <1>1 DEF OperatorState
        <3> HIDE DEF s
        <3> QED BY <1>1, <1>2, <1>7, <3>1, <3>2, OneOperator DEF GetCertificate
    <2>2. CASE secret = 0
        <3> DEFINE s == [op[o] EXCEPT !.phase = "createCert", !.ca = generated + 1]
        <3>1. op' = [op EXCEPT ![o] = s] /\ generated' = generated + 1
            BY <1>1, <1>7, <2>2 DEF GetCertificate
        <3>2. s.step = op[o].step /\ s.ca = generated + 1
            BY <1>1 DEF OperatorState
        <3>3. /\ secret' <= generated' /\ \A h \in Hooks : hooks'[h] <= generated'
              /\ s.ca <= generated' /\ generated' \in Nat /\ generated <= generated'
            BY <1>1, <1>7, <3>1, <3>2 DEF GetCertificate
        <3> HIDE DEF s
        <3> QED BY <1>1, <1>7, <3>1, <3>2, <3>3, OneOperator DEF GetCertificate
    <2> QED BY <2>1, <2>2
<1>8. ASSUME NEW next, Goes(o, next)
      PROVE  \E s : op' = [op EXCEPT ![o] = s] /\ s.step \in 1..Len(CRDs) /\ s.ca <= generated
    <2> DEFINE s == [op[o] EXCEPT !.phase = next]
    <2>1. op' = [op EXCEPT ![o] = s]
        BY <1>1, <1>8 DEF Goes
    <2>2. s.step = op[o].step /\ s.ca = op[o].ca
        BY <1>1 DEF OperatorState
    <2> HIDE DEF s
    <2> QED BY <1>1, <2>1, <2>2
<1>9. CASE CreateCertificate(o)
    BY <1>1, <1>2, <1>8, <1>9, OneOperator DEF CreateCertificate, Exits
<1>10. ASSUME NEW h \in Hooks, NEW next, DeleteHook(o, h, next) \/ CreateHook(o, h, next), op[o].phase # "serving"
       PROVE  TypeInv'
    <2>1. /\ \A k \in Hooks : hooks'[k] <= generated
          /\ UNCHANGED <<crds, label, secret, generated, request>>
        BY <1>1, <1>10 DEF DeleteHook, CreateHook, user
    <2>2. \E s : op' = [op EXCEPT ![o] = s] /\ s.step \in 1..Len(CRDs) /\ s.ca <= generated
        BY <1>2, <1>8, <1>10 DEF DeleteHook, CreateHook, Exits
    <2> QED BY <1>1, <1>2, <1>10, <2>1, <2>2, OneOperator
<1>11. CASE generateValidationWebhookServerConfig(o)
    BY <1>10, <1>11 DEF generateValidationWebhookServerConfig, Hooks
<1>12. CASE generateMutationWebhookServerConfig(o)
    BY <1>10, <1>12 DEF generateMutationWebhookServerConfig, Hooks
<1>13. CASE Start(o)
    BY <1>1, <1>2, <1>8, <1>13, OneOperator DEF Start, objects
<1> QED BY <1>3, <1>4, <1>5, <1>6, <1>7, <1>9, <1>11, <1>12, <1>13 DEF OperatorStep

\* A request that goes on stays with its operator, one that ends has none.
LEMMA TypeOneRequest ==
    ASSUME TypeInv, RequestInv, UNCHANGED <<objects, op>>, NEW r \in Requests,
           \A q \in Requests \ {r} : request'[q] = request[q],
           ServedByOne(r)'
    PROVE  TypeInv'
BY DEF TypeInv, CAsKnown, StepsInList, ServedByOne, Active, Serving, objects

LEMMA TypeRequestStep ==
    ASSUME TypeInv, RequestInv, NEW r \in Requests,
           Send(r) \/ RequestStep(r) \/ ListFails(r)
    PROVE  TypeInv'
<1>1. /\ UNCHANGED <<objects, op>> /\ request \in [Requests -> RequestState] /\ request[r] \in RequestState
      /\ ServedByOne(r) /\ Serving' = Serving
    BY DEF Send, RequestStep, ListConfigMaps, OpsResourcesExist, PollTimeout, ReadResource, Handle, ListFails,
           RequestInv, RequestTypeOK, TypeInv, Serving
<1>2. ASSUME NEW s, request' = [request EXCEPT ![r] = s],
             s.phase \in {"waiting", "listing", "resolving"} => s.by \in Serving
      PROVE  TypeInv'
    BY <1>1, <1>2, TypeOneRequest DEF ServedByOne, Active
<1>3. ASSUME NEW phase \in {"admitted", "rejected"}, Ends(r, phase) PROVE TypeInv'
    BY <1>2, <1>3 DEF Ends, New
<1>4. ASSUME NEW excused, Rejected(r, excused) PROVE TypeInv'
    <2> DEFINE e == request[r].excuse \/ excused
               s == [New EXCEPT !.phase = "rejected", !.excuse = e]
    <2>1. request' = [request EXCEPT ![r] = s]
        BY <1>4, Zenon DEF Rejected
    <2> HIDE DEF e
    <2>2. s.phase = "rejected"
        BY DEF New
    <2> HIDE DEF s
    <2> QED BY <1>2, <2>1, <2>2
<1>5. CASE Send(r)
    <2>1. ASSUME NEW o \in Trusted("validating"),
                 request' = [request EXCEPT ![r].phase = "waiting", ![r].by = o]
          PROVE  TypeInv'
        <3> DEFINE s == [request[r] EXCEPT !.phase = "waiting", !.by = o]
        <3>1. request' = [request EXCEPT ![r] = s]
            BY <1>1, <2>1
        <3>2. s.by = o
            BY <1>1 DEF RequestState
        <3>3. o \in Serving
            BY DEF Trusted
        <3> HIDE DEF s
        <3> QED BY <1>2, <3>1, <3>2, <3>3
    <2> QED BY <1>3, <1>4, <1>5, <2>1 DEF Send
<1>6. CASE ListConfigMaps(r)
    <2> DEFINE found == {x \in refs[r] : x[1] = "configmap" /\ x \in cache[request[r].by]}
               e == ~Complete(r, cache[request[r].by])
               s == [request[r] EXCEPT !.phase = "listing", !.found = found, !.excuse = e]
    <2>1. request' = [request EXCEPT ![r] = s]
        BY <1>1, <1>6 DEF ListConfigMaps
    <2> HIDE DEF found, e
    <2>2. s.by = request[r].by
        BY <1>1 DEF RequestState
    <2>3. request[r].by \in Serving
        BY <1>1, <1>6 DEF ListConfigMaps, ServedByOne, Active
    <2> HIDE DEF s
    <2> QED BY <1>2, <2>1, <2>2, <2>3
<1>7. CASE OpsResourcesExist(r)
    <2> DEFINE all == \A x \in refs[r] : \/ x \in request[r].found
                                         \/ (x[1] = "secret" /\ x \in cache[request[r].by])
               phase == IF all THEN "resolving" ELSE "waiting"
               toRead == IF all THEN Needs(r) ELSE {}
               s == [request[r] EXCEPT !.phase = phase, !.polls = @ + 1, !.found = {}, !.toRead = toRead]
    <2>1. request' = [request EXCEPT ![r] = s]
        BY <1>1, <1>7 DEF OpsResourcesExist, LookedUp
    <2> HIDE DEF phase, toRead
    <2>2. s.by = request[r].by
        BY <1>1 DEF RequestState
    <2>3. request[r].by \in Serving
        BY <1>1, <1>7 DEF OpsResourcesExist, ServedByOne, Active
    <2> HIDE DEF s
    <2> QED BY <1>2, <2>1, <2>2, <2>3
<1>8. CASE ReadResource(r)
    <2>1. ASSUME NEW x, request' = [request EXCEPT ![r].toRead = @ \ {x}] PROVE TypeInv'
        <3> DEFINE s == [request[r] EXCEPT !.toRead = @ \ {x}]
        <3>1. request' = [request EXCEPT ![r] = s]
            BY <1>1, <2>1
        <3>2. s.by = request[r].by
            BY <1>1 DEF RequestState
        <3>3. request[r].by \in Serving
            BY <1>1, <1>8 DEF ReadResource, ServedByOne, Active
        <3> HIDE DEF s
        <3> QED BY <1>2, <3>1, <3>2, <3>3
    <2> QED BY <1>4, <1>8, <2>1 DEF ReadResource
<1>9. CASE PollTimeout(r) \/ Handle(r) \/ ListFails(r)
    BY <1>3, <1>4, <1>9 DEF PollTimeout, Handle, ListFails
<1> QED BY <1>5, <1>6, <1>7, <1>8, <1>9 DEF RequestStep

\* The operator that goes had the requests that are rejected.
LEMMA TypeGone ==
    ASSUME StoreInv, TypeInv, NEW o \in Operators, NEW s \in {Starting, Absent},
           op' = [op EXCEPT ![o] = s], Abandon(o), UNCHANGED objects
    PROVE  TypeInv'
<1>1. op'[o] = s /\ \A p \in Operators \ {o} : op'[p] = op[p]
    BY DEF StoreInv, StoreTypeOK
<1>2. s.step = 1 /\ s.ca = 0
    BY DEF Starting, Absent
<1>3. CAsKnown' /\ StepsInList'
    <2>1. generated \in Nat /\ 1 \in 1..Len(CRDs)
        BY CRDsFacts DEF StoreInv, StoreTypeOK
    <2> QED BY <1>1, <1>2, <2>1 DEF TypeInv, CAsKnown, StepsInList, objects
<1>4. ASSUME NEW r \in Requests PROVE ServedByOne(r)'
    <2>1. CASE request[r].by = o
        BY <2>1 DEF Abandon, ServedByOne, Active, New
    <2>2. CASE request[r].by # o
        <3>1. request'[r] = request[r]
            BY <2>2 DEF Abandon
        <3> QED BY <1>1, <2>2, <3>1 DEF TypeInv, ServedByOne, Active, Serving
    <2> QED BY <2>1, <2>2
<1> QED BY <1>3, <1>4 DEF TypeInv

LEMMA TypeNext == StoreInv /\ RequestInv /\ TypeInv /\ [Next]_vars => TypeInv'
<1> SUFFICES ASSUME StoreInv, RequestInv, TypeInv, [Next]_vars PROVE TypeInv'
    OBVIOUS
<1>1. CASE \E o \in Operators : OperatorStep(o)
    BY <1>1, TypeOperatorStep
<1>2. CASE \E r \in Requests : Send(r) \/ RequestStep(r)
    BY <1>2, TypeRequestStep
<1>3. CASE EditResources
    BY <1>3 DEF EditResources, TypeInv, CAsKnown, StepsInList, ServedByOne, Active, Serving, objects
<1>4. CASE RemoveConfigurations
    <2>1. \A h \in Hooks : hooks'[h] <= generated
        BY <1>4 DEF RemoveConfigurations, StoreInv, StoreTypeOK
    <2> QED BY <1>4, <2>1 DEF RemoveConfigurations, TypeInv, CAsKnown, StepsInList, ServedByOne, Active, Serving
<1>5. CASE Fault
    BY <1>5, TypeRequestStep, TypeGone DEF Fault, OperatorFails, OperatorLost, Exits
<1>6. CASE \E o \in Operators, k \in Kinds : Deliver(o, k)
    <2>1. \A r \in Requests : request'[r].phase = request[r].phase /\ request'[r].by = request[r].by
        BY <1>6, DeliveredRequest
    <2>2. UNCHANGED <<objects, op>>
        BY <1>6 DEF Deliver
    <2> QED BY <2>1, <2>2 DEF TypeInv, CAsKnown, StepsInList, ServedByOne, Active, Serving, objects
<1>7. CASE UNCHANGED vars
    BY <1>7 DEF vars, TypeInv, CAsKnown, StepsInList, ServedByOne, Active, Serving, objects
<1> QED BY <1>1, <1>2, <1>3, <1>4, <1>5, <1>6, <1>7 DEF Next

\* Objects, operators and requests keep their types; a request that is being
\* validated has an operator that serves, and the start never runs past the last
\* CRD, for any number of operators and faults.
THEOREM TypeCorrect == Spec => []TypeOK
<1>1. StoreInv /\ RequestInv /\ TypeInv => TypeOK
    <2> SUFFICES ASSUME StoreInv, RequestInv, TypeInv PROVE TypeOK
        OBVIOUS
    <2>1. /\ crds \subseteq ToSet(CRDs) /\ label \in BOOLEAN
          /\ secret \in 0..generated /\ \A h \in Hooks : hooks[h] \in 0..generated
        BY DEF StoreInv, StoreTypeOK, TypeInv, CAsKnown, StepsInList
    <2>2. \A o \in Operators : op[o].ca \in 0..generated /\ op[o].step \in DOMAIN CRDs
        BY CRDsFacts DEF StoreInv, StoreTypeOK, OperatorState, TypeInv, CAsKnown, StepsInList
    <2>3. \A r \in Requests : /\ request[r].polls \in 0..MaxPolls
                              /\ Active(r) => op[request[r].by].phase = "serving"
                              /\ request[r].toRead \subseteq Needs(r)
        BY DEF RequestInv, RequestTypeOK, RequestState, RequestOK, TypeInv, ServedByOne, Serving
    <2>4. resources \subseteq Resources
        BY DEF RequestInv, RequestTypeOK
    <2> QED BY <2>1, <2>2, <2>3, <2>4 DEF TypeOK
<1>2. RequestInv /\ TypeInv /\ [Next]_vars => RequestInv'
    BY RequestNext DEF TypeInv
<1> QED BY <1>1, <1>2, StoreInit, StoreNext, RequestInit, TypeInit, TypeNext, PTL DEF Spec

\* A BOSHDeployment whose ops are ConfigMaps and Secrets is rejected only if the
\* webhook could not be reached, a call failed, or something it needs was missing
\* in the cache since its last poll began, for any number of operators, requests,
\* polls, changes of the resources and faults, and any lag of the caches.
THEOREM GoodRequestIsAdmitted == Spec => []GoodRequestAdmitted
<1>1. RequestInv => GoodRequestAdmitted
    BY DEF RequestInv, RequestOK, GoodRequestAdmitted
<1>2. RequestInv /\ TypeInv /\ [Next]_vars => RequestInv'
    BY RequestNext DEF TypeInv
<1> QED BY <1>1, <1>2, StoreInit, StoreNext, RequestInit, TypeInit, TypeNext, PTL DEF Spec
=============================================================================
