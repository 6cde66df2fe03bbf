--------------------------- MODULE WebhookServer ---------------------------
(***************************************************************************)
(* The start of the operator and its admission webhooks: cmd/internal/     *)
(* root.go, pkg/kube/operator, the hooks of pkg/kube/controllers and the   *)
(* validator of BOSHDeployments.                                           *)
(*                                                                         *)
(* Every start applies the CRDs, labels the watched namespace, finds or    *)
(* creates the Secret with the server's certificate, and replaces the two  *)
(* webhook configurations by deleting and creating them.  An error ends    *)
(* the process, Kubernetes starts the container again.  There is no leader *)
(* election: during an update two operators start and serve side by side.  *)
(*                                                                         *)
(* External: Kubernetes, whose API server calls the validating webhook for *)
(* a BOSHDeployment and the mutating webhook for a pod in the labelled     *)
(* namespace, checks the server's certificate against the configuration's  *)
(* CA and refuses the request when the webhook cannot be reached           *)
(* (failure policy Fail); and the informers of a manager, from whose cache *)
(* the validator's client reads.  Each kind of object has its own: the     *)
(* changes of a kind arrive in order, those of two kinds in any order, and *)
(* all of them late.                                                       *)
(***************************************************************************)
EXTENDS Naturals, Sequences, FiniteSets, SequencesExt

CONSTANTS
    Operators,     \* the operator pods
    CRDs,          \* the custom resource definitions, in the order they are applied
    Namespaced,    \* the cases: TRUE, the operator watches its own namespace
    Requests,      \* BOSHDeployments that are created or updated
    RefsOf,        \* the cases: the ops resources a request refers to, <<type, name>>
    Resources,     \* the ConfigMaps and Secrets there may be, <<type, name>>
    AtFirst,       \* the cases: the ones there are at first
    ManifestOf,    \* the resources of a request that are not polled for: its manifest
                   \* and the Secrets of its implicit variables
    MaxPolls,      \* bound: polls before the timeout, ten in the code
    MaxEdits,      \* bound: resources created and deleted
    MaxFaults,     \* bound: crashes and API errors
    None

ASSUME WebhookAssumption ==
    /\ MaxPolls \in Nat \ {0} /\ MaxEdits \in Nat /\ MaxFaults \in Nat
    /\ CRDs \in Seq(STRING) /\ CRDs # <<>>
    /\ Namespaced \subseteq BOOLEAN /\ AtFirst \subseteq SUBSET Resources
    /\ \A case \in RefsOf : DOMAIN case = Requests
    /\ \A x \in Resources : x[1] \in {"configmap", "secret"}

VARIABLES
    own,        \* does the operator watch its own namespace
    crds,       \* the CRDs applied
    label,      \* the label of the watched namespace
    secret,     \* the Secret with CA and certificate: which CA
    hooks,      \* the two configurations: their CA bundle
    generated,  \* how many CAs have been generated
    op,         \* the operators
    resources,  \* the ConfigMaps and Secrets
    cache,      \* the ones in the cache of each operator's manager
    watch,      \* for each operator and kind, the changes not yet in the cache
    refs,       \* the ops resources of each request
    request,    \* the requests (history: excuse, since its last poll began something
                \* it needs was missing in the cache, or a call failed)
    edits, faults

objects == <<crds, label, secret, hooks, generated>>
informers == <<cache, watch>>
user == <<own, resources, informers, refs, edits>>
vars == <<objects, user, op, request, faults>>

Hooks == {"validating", "mutating"}
Kinds == {"configmap", "secret"}
Starting == [phase |-> "crds", step |-> 1, ca |-> 0, seen |-> FALSE]
Absent == [Starting EXCEPT !.phase = "absent"]
New == [phase |-> "new", by |-> None, polls |-> 0, found |-> {}, toRead |-> {}, excuse |-> FALSE]

Init ==
    /\ own \in Namespaced
    /\ crds = {} /\ label = FALSE /\ secret = 0 /\ generated = 0
    /\ hooks = [h \in Hooks |-> 0]
    /\ op = [o \in Operators |-> Absent]
    /\ refs \in RefsOf
    /\ resources \in AtFirst
    /\ cache = [o \in Operators |-> {}]
    /\ watch = [o \in Operators |-> [k \in Kinds |-> <<>>]]
    /\ request = [r \in Requests |-> New]
    /\ edits = 0 /\ faults = 0

\* The operators that a webhook call may reach, and those it can trust.
Serving == {o \in Operators : op[o].phase = "serving"}
Trusted(h) == {o \in Serving : op[o].ca = hooks[h]}

-----------------------------------------------------------------------------
(* The start of an operator.                                               *)

Goes(o, phase) == op' = [op EXCEPT ![o].phase = phase]
Exits(o) == op' = [op EXCEPT ![o] = Starting]

\* A pod of the operator is created like any other: in its own namespace the
\* mutating webhook has to agree.
CreateOperator(o) ==
    /\ op[o].phase = "absent"
    /\ (own /\ label /\ hooks["mutating"] # 0) => Trusted("mutating") # {}
    /\ Exits(o)
    /\ UNCHANGED <<objects, user, request, faults>>

\* Faulty variant: one more than there are.
ApplyTooManyCRDs(o) ==
    /\ op[o].phase = "crds"
    /\ crds' = crds \cup {CRDs[op[o].step]}
    /\ op' = IF op[o].step <= Len(CRDs) THEN [op EXCEPT ![o].step = @ + 1]
             ELSE [op EXCEPT ![o].phase = "getLabel", ![o].step = 1]
    /\ UNCHANGED <<label, secret, hooks, generated, user, request, faults>>

ApplyCRDs(o) ==
    /\ op[o].phase = "crds"
    /\ crds' = crds \cup {CRDs[op[o].step]}
    /\ op' = IF op[o].step < Len(CRDs) THEN [op EXCEPT ![o].step = @ + 1]
             ELSE [op EXCEPT ![o].phase = "getLabel", ![o].step = 1]
    /\ UNCHANGED <<label, secret, hooks, generated, user, request, faults>>

\* setOperatorNamespaceLabel reads the namespace ...
GetNamespace(o) ==
    /\ op[o].phase = "getLabel"
    /\ op' = [op EXCEPT ![o].phase = "setLabel", ![o].seen = label]
    /\ UNCHANGED <<objects, user, request, faults>>

\* ... and updates it, which fails when another has changed it since.
setOperatorNamespaceLabel(o) ==
    /\ op[o].phase = "setLabel"
    /\ IF op[o].seen = label THEN label' = TRUE /\ op' = [op EXCEPT ![o].phase = "getCert", ![o].seen = FALSE]
       ELSE Exits(o) /\ UNCHANGED label
    /\ UNCHANGED <<crds, secret, hooks, generated, user, request, faults>>

\* setupCertificate: the Secret is there, or a CA and a certificate are generated.
GetCertificate(o) ==
    /\ op[o].phase = "getCert"
    /\ IF secret # 0
       THEN op' = [op EXCEPT ![o].phase = "delValidating", ![o].ca = secret] /\ UNCHANGED generated
       ELSE /\ generated' = generated + 1
            /\ op' = [op EXCEPT ![o].phase = "createCert", ![o].ca = generated + 1]
    /\ UNCHANGED <<crds, label, secret, hooks, user, request, faults>>

\* Faulty variant: a Secret that is there by now is replaced.
ReplaceCertificate(o) ==
    /\ op[o].phase = "createCert"
    /\ secret' = op[o].ca /\ Goes(o, "delValidating")
    /\ UNCHANGED <<crds, label, hooks, generated, user, request, faults>>

\* The Secret is created, unless another operator was faster.
CreateCertificate(o) ==
    /\ op[o].phase = "createCert"
    /\ IF secret = 0 THEN secret' = op[o].ca /\ Goes(o, "delValidating")
       ELSE Exits(o) /\ UNCHANGED secret
    /\ UNCHANGED <<crds, label, hooks, generated, user, request, faults>>

\* A configuration is deleted, whether it is there or not ...
DeleteHook(o, h, next) ==
    /\ hooks' = [hooks EXCEPT ![h] = 0]
    /\ Goes(o, next)
    /\ UNCHANGED <<crds, label, secret, generated, user, request, faults>>

\* ... and created, unless another operator has done it since.
CreateHook(o, h, next) ==
    /\ IF hooks[h] = 0 THEN hooks' = [hooks EXCEPT ![h] = op[o].ca] /\ Goes(o, next)
       ELSE Exits(o) /\ UNCHANGED hooks
    /\ UNCHANGED <<crds, label, secret, generated, user, request, faults>>

\* Faulty variant: the configuration is not deleted first.
keepValidationWebhookServerConfig(o) ==
    \/ op[o].phase = "delValidating" /\ Goes(o, "newValidating") /\ UNCHANGED <<objects, user, request, faults>>
    \/ op[o].phase = "newValidating" /\ CreateHook(o, "validating", "delMutating")

generateValidationWebhookServerConfig(o) ==
    \/ op[o].phase = "delValidating" /\ DeleteHook(o, "validating", "newValidating")
    \/ op[o].phase = "newValidating" /\ CreateHook(o, "validating", "delMutating")

generateMutationWebhookServerConfig(o) ==
    \/ op[o].phase = "delMutating" /\ DeleteHook(o, "mutating", "newMutating")
    \/ op[o].phase = "newMutating" /\ CreateHook(o, "mutating", "starting")

\* The controllers have been added and the manager starts: its informers list
\* what there is, then the hook server serves.
Start(o) ==
    /\ op[o].phase = "starting" /\ Goes(o, "serving")
    /\ cache' = [cache EXCEPT ![o] = resources]
    /\ watch' = [watch EXCEPT ![o] = [k \in Kinds |-> <<>>]]
    /\ UNCHANGED <<objects, own, resources, refs, edits, request, faults>>

-----------------------------------------------------------------------------
(* Requests.                                                               *)

\* A request that ends, with an excuse if it is rejected for no fault of its own.
Ends(r, phase) == request' = [request EXCEPT ![r] = [New EXCEPT !.phase = phase]]
Rejected(r, excused) ==
    request' = [request EXCEPT ![r] = [New EXCEPT !.phase = "rejected",
                                                  !.excuse = request[r].excuse \/ excused]]

\* Is everything the request needs in a cache?  What a URL has is fetched.
Needs(r) == ManifestOf[r] \cup refs[r]
Sees(known, x) == x[1] = "url" \/ x \in known
Complete(r, known) == \A x \in Needs(r) : Sees(known, x)

\* The API server has the request validated, if there is a configuration.
Send(r) ==
    /\ request[r].phase = "new" /\ "boshdeployments" \in crds
    /\ IF ~label \/ hooks["validating"] = 0 THEN Ends(r, "admitted")
       ELSE IF Trusted("validating") # {}
       THEN \E o \in Trusted("validating") :
               request' = [request EXCEPT ![r].phase = "waiting", ![r].by = o]
       ELSE Rejected(r, TRUE)
    /\ UNCHANGED <<objects, user, op, faults>>

\* OpsResourcesExist at a tick: the ConfigMaps are listed, from the cache ...
ListConfigMaps(r) ==
    /\ request[r].phase = "waiting" /\ request[r].polls < MaxPolls
    /\ request' = [request EXCEPT ![r].phase = "listing",
           ![r].found = {x \in refs[r] : x[1] = "configmap" /\ x \in cache[request[r].by]},
           ![r].excuse = ~Complete(r, cache[request[r].by])]
    /\ UNCHANGED <<objects, user, op, faults>>

\* The references of a request have been looked up.
LookedUp(r, all) ==
    request' = [request EXCEPT
        ![r].phase = IF all THEN "resolving" ELSE "waiting",
        ![r].polls = @ + 1, ![r].found = {},
        ![r].toRead = IF all THEN Needs(r) ELSE {}]

\* Faulty variant: Secrets are looked up among the ConfigMaps.
ConfigMapsOnly(r) ==
    /\ request[r].phase = "listing"
    /\ LookedUp(r, refs[r] \subseteq request[r].found)
    /\ UNCHANGED <<objects, user, op, faults>>

\* ... and then the Secrets, and every reference is looked up.  One of another
\* type, a URL, is never found.
OpsResourcesExist(r) ==
    /\ request[r].phase = "listing"
    /\ LookedUp(r, \A x \in refs[r] :
           x \in request[r].found \/ (x[1] = "secret" /\ x \in cache[request[r].by]))
    /\ UNCHANGED <<objects, user, op, faults>>

\* Faulty variant: there is no timeout while resources are missing.
NoPollTimeout(r) ==
    /\ request[r].phase = "waiting" /\ request[r].polls > 0 /\ refs[r] \subseteq cache[request[r].by]
    /\ Rejected(r, FALSE)
    /\ UNCHANGED <<objects, user, op, faults>>

\* Five seconds have passed.
PollTimeout(r) ==
    /\ request[r].phase = "waiting" /\ request[r].polls > 0
    /\ Rejected(r, FALSE)
    /\ UNCHANGED <<objects, user, op, faults>>

\* WithOpsManifestDetailed reads one resource after the other.
ReadResource(r) ==
    /\ request[r].phase = "resolving"
    /\ \E x \in request[r].toRead :
          IF Sees(cache[request[r].by], x) THEN request' = [request EXCEPT ![r].toRead = @ \ {x}]
          ELSE Rejected(r, FALSE)
    /\ UNCHANGED <<objects, user, op, faults>>

Handle(r) ==
    /\ request[r].phase = "resolving" /\ request[r].toRead = {}
    /\ Ends(r, "admitted")
    /\ UNCHANGED <<objects, user, op, faults>>

-----------------------------------------------------------------------------
(* The user, and faults.                                                   *)

Active(r) == request[r].phase \in {"waiting", "listing", "resolving"}

\* A resource is created or deleted; the managers that run are told.
Toggle(there, x) == IF x \in there THEN there \ {x} ELSE there \cup {x}
EditResources ==
    /\ edits < MaxEdits /\ edits' = edits + 1
    /\ \E x \in Resources :
          /\ resources' = Toggle(resources, x)
          /\ watch' = [o \in Operators |-> IF o \in Serving THEN [watch[o] EXCEPT ![x[1]] = Append(@, x)]
                                          ELSE watch[o]]
    /\ UNCHANGED <<objects, own, cache, refs, op, request, faults>>

\* The next change of a kind reaches the cache; a request being validated there
\* may have lost something it needs.
Deliver(o, k) ==
    LET known == Toggle(cache[o], Head(watch[o][k])) IN
    /\ o \in Serving /\ watch[o][k] # <<>>
    /\ cache' = [cache EXCEPT ![o] = known]
    /\ watch' = [watch EXCEPT ![o][k] = Tail(@)]
    /\ request' = [r \in Requests |-> [request[r] EXCEPT !.excuse =
                      @ \/ (Active(r) /\ request[r].by = o /\ ~Complete(r, known))]]
    /\ UNCHANGED <<objects, own, resources, refs, edits, op, faults>>

\* README.md, "Recovering from a crash": both configurations are removed when the
\* operator cannot come back.
RemoveConfigurations ==
    /\ own /\ label /\ hooks["mutating"] # 0 /\ Trusted("mutating") = {}
    /\ \A o \in Operators : op[o].phase = "absent"
    /\ hooks' = [h \in Hooks |-> 0]
    /\ UNCHANGED <<crds, label, secret, generated, user, op, request, faults>>

\* A request whose operator is gone is rejected.
Abandon(o) ==
    request' = [r \in Requests |->
        IF request[r].by = o THEN [New EXCEPT !.phase = "rejected", !.excuse = TRUE]
        ELSE request[r]]

CanFail == faults < MaxFaults /\ faults' = faults + 1

\* The process crashes, or a call of the API fails during the start: a Get that
\* fails in any other way than NotFound is a failed type assertion.
OperatorFails(o) ==
    /\ CanFail /\ op[o].phase \notin {"absent", "crds"}
    /\ Exits(o) /\ Abandon(o)
    /\ UNCHANGED <<objects, user>>

\* The pod is lost, or replaced by an update.
OperatorLost(o) ==
    /\ CanFail /\ op[o].phase # "absent"
    /\ op' = [op EXCEPT ![o] = Absent] /\ Abandon(o)
    /\ UNCHANGED <<objects, user>>

\* Listing the resources fails, or the operator is stalled until the timeout.
ListFails(r) ==
    /\ CanFail /\ request[r].phase \in {"waiting", "listing"}
    /\ Rejected(r, TRUE)
    /\ UNCHANGED <<objects, user, op>>

-----------------------------------------------------------------------------
OperatorStep(o) ==
    \/ CreateOperator(o) \/ ApplyCRDs(o) \/ GetNamespace(o) \/ setOperatorNamespaceLabel(o)
    \/ GetCertificate(o) \/ CreateCertificate(o)
    \/ generateValidationWebhookServerConfig(o) \/ generateMutationWebhookServerConfig(o) \/ Start(o)

RequestStep(r) ==
    ListConfigMaps(r) \/ OpsResourcesExist(r) \/ PollTimeout(r) \/ ReadResource(r) \/ Handle(r)

Fault == \/ \E o \in Operators : OperatorFails(o) \/ OperatorLost(o)
         \/ \E r \in Requests : ListFails(r)

Next ==
    \/ \E o \in Operators : OperatorStep(o)
    \/ \E r \in Requests : Send(r) \/ RequestStep(r)
    \/ \E o \in Operators, k \in Kinds : Deliver(o, k)
    \/ EditResources \/ RemoveConfigurations \/ Fault

Spec == Init /\ [][Next]_vars

\* Kubernetes restarts what exits, goroutines are scheduled and the timer fires;
\* the user follows the README.  Nobody has to send a request.
FairSpec ==
    /\ Spec
    /\ \A o \in Operators : WF_vars(OperatorStep(o))
    /\ \A r \in Requests : WF_vars(RequestStep(r))
    /\ WF_vars(RemoveConfigurations)

-----------------------------------------------------------------------------
(* Properties.                                                             *)

\* Type invariant of the objects, the operators and the requests.
TypeOK ==
    /\ crds \subseteq ToSet(CRDs) /\ label \in BOOLEAN
    /\ secret \in 0..generated /\ \A h \in Hooks : hooks[h] \in 0..generated
    /\ \A o \in Operators : op[o].ca \in 0..generated /\ op[o].step \in DOMAIN CRDs
    /\ resources \subseteq Resources
    /\ \A r \in Requests : /\ request[r].polls \in 0..MaxPolls
                           /\ Active(r) => op[request[r].by].phase = "serving"
                           /\ request[r].toRead \subseteq Needs(r)

\* Every operator that serves has a certificate that both configurations trust,
\* whoever of several starting operators generated it, created the Secret, or
\* wrote the configurations last, and whenever one of them failed
\* (setupCertificate).  Otherwise no pod could be created in the namespace.
CertificateTrusted ==
    \A o \in Serving : \A h \in Hooks : hooks[h] # 0 => hooks[h] = op[o].ca

\* In the end all operators serve and both configurations are there, although
\* each start deletes the ones of the others and a lost race ends the process;
\* an operator that watches its own namespace needs the user for it (README.md).
OperatorsServe == <>[](Serving = Operators /\ \A h \in Hooks : hooks[h] # 0)

\* Every request that an operator validates is answered: by the poll, the timeout,
\* the resolution or the end of the operator (Handle, OpsResourcesExist).
RequestsAnswered ==
    \A r \in Requests : (request[r].phase = "waiting") ~> (request[r].phase \in {"admitted", "rejected"})

\* Are all the ops resources of a request ones that OpsResourcesExist looks for?
Listed(r) == \A x \in refs[r] : x[1] \in Kinds

\* A request whose ops files are in ConfigMaps and Secrets is rejected only if a
\* webhook could not be reached, a call failed, or something it needs was missing,
\* in the cache of the operator that validates it, when its last poll began or
\* later: what appears before that poll is in time, although the ConfigMaps, the
\* Secrets and then each resource are read one after the other while changes arrive
\* (OpsResourcesExist, Handle).  The cache may be behind the API, and only the ops
\* resources are waited for.  An ops file at a URL, which the CRD allows and the
\* resolver fetches, is never found, and every such request is rejected.
GoodRequestAdmitted ==
    \A r \in Requests : Listed(r) /\ request[r].phase = "rejected" => request[r].excuse
=============================================================================
