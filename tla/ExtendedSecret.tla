--------------------------- MODULE ExtendedSecret ---------------------------
(***************************************************************************)
(* The ExtendedSecret controllers (pkg/kube/controllers/extendedsecret):   *)
(* the reconciler that generates passwords, keys and certificates into     *)
(* Secrets, with a worker per ExtendedSecret, and the                      *)
(* CertificateSigningRequest reconciler that approves cluster-signed       *)
(* requests and merges certificate and private key into one Secret.        *)
(*                                                                         *)
(* Every object is the sequence of its versions from the one in the        *)
(* informer cache (first) to the one in the API (last).  A reconciler      *)
(* reads the first, and a write is refused when the object it read is not  *)
(* the last (the API's optimistic concurrency).  Key material is a number: *)
(* the n-th key generated for a name.                                      *)
(***************************************************************************)
EXTENDS Naturals, Sequences

CONSTANTS
    Names,           \* the ExtendedSecrets; Spec.SecretName is the same name
    Kind,            \* name -> "password" (RSA and SSH keys too), "ca", "leaf", "csr"
    Deployments,     \* the sets of ExtendedSecrets that a user creates together
    CARef,           \* the name of the CA that signs the leaves
    Completes,       \* names whose spec a reconcile completes (signer, services)
    MayProvide,      \* names whose Secret the user may create himself
    MayEdit,         \* names whose spec the user may edit
    MayFail,         \* names whose generation may meet an API error
    MayCrash,        \* may the operator process die
    MaxDisturbances, \* bound: API errors, user edits, crashes
    MaxKeys          \* bound: keys generated for a name

ASSUME ConstantsAssumption ==
    /\ Kind \in [Names -> {"password", "ca", "leaf", "csr"}]
    /\ CARef \in Names
    /\ Deployments \subseteq SUBSET Names /\ Deployments # {}
    /\ Completes \subseteq {n \in Names : Kind[n] # "password"}
    /\ MayProvide \subseteq Names /\ MayEdit \subseteq Names /\ MayFail \subseteq Names
    /\ MayCrash \in BOOLEAN
    /\ MaxDisturbances \in Nat /\ MaxKeys \in Nat \ {0}

VARIABLES
    esec,       \* name -> versions of the ExtendedSecret
    secret,     \* name -> versions of the Secret
    keySecret,  \* name -> versions of the CSR's private key Secret (0: none)
    csr,        \* name -> the CertificateSigningRequest in the API
    seenCsr,    \* name -> its state in the cache
    queue,      \* names waiting in the ExtendedSecret controller's queue
    csrQueue,   \* names waiting in the CSR controller's queue
    w,          \* name -> worker of the ExtendedSecret controller
    c,          \* name -> worker of the CSR controller
    keys,       \* name -> keys generated so far
    operator,   \* the operator process: "running" or "down"
    disturbed   \* disturbances so far

vars == <<esec, secret, keySecret, csr, seenCsr, queue, csrQueue, w, c, keys,
          operator, disturbed>>

Up == operator = "running"

(***************************************************************************)
(* Objects.                                                                *)
(***************************************************************************)
Cached(versions) == Head(versions)
Latest(versions) == versions[Len(versions)]

\* Spec as the user's edit "rev", completed or not; Status.Generated.
Esec == [version : Nat, rev : Nat, completed : BOOLEAN, generated : BOOLEAN]

NoEsec == [version |-> 0, rev |-> 0, completed |-> FALSE, generated |-> FALSE]

SpecOf(o) == <<o.rev, o.completed>>

\* A Secret of the user, or one with the label "generated": its private key, the
\* key its certificate is for and the key of the CA that signed it.
Secret == [kind : {"none", "user", "generated"}, key : Nat, cert : Nat, ca : Nat]

NoSecret == [kind |-> "none", key |-> 0, cert |-> 0, ca |-> 0]
UserSecret == [NoSecret EXCEPT !.kind = "user"]

\* A CertificateSigningRequest is absent, pending, approved or signed.
Csr == [stage : 0..3, key : Nat]

NoCsr == [stage |-> 0, key |-> 0]

\* A worker between two calls of its reconcile: the spec it read and completed, the
\* key it generated, the CA that signed it and the object its update returned.
Worker == [pc : {"idle", "generate", "write", "csr", "update", "status"},
           rev : Nat, completed : BOOLEAN, key : Nat, ca : Nat, obj : Esec]

CsrWorker == [pc : {"idle", "create", "delete"}, key : Nat]

Idle == [pc |-> "idle", rev |-> 0, completed |-> FALSE, key |-> 0, ca |-> 0, obj |-> NoEsec]
CsrIdle == [pc |-> "idle", key |-> 0]

\* The API accepts a CreateOrUpdate that starts from what the cache has.
Accepts(versions, none) ==
    Len(versions) = 1 \/ (Cached(versions) = none /\ Latest(versions) = none)

(***************************************************************************)
(* The ExtendedSecret reconciler.                                          *)
(***************************************************************************)

\* An error or RequeueAfter: the name goes back to the queue.
Retry(n) ==
    /\ w' = [w EXCEPT ![n] = Idle]
    /\ queue' = queue \cup {n}

\* Not generated yet, and no Secret of the user has the name.
CanBeGenerated(n) ==
    /\ ~Cached(esec[n]).generated
    /\ Cached(secret[n]).kind # "user"

\* Reads the ExtendedSecret and the Secret from the cache.  In the meltdown
\* window, which opens with Status.Generated, the request is put back and stays
\* queued.
EsecGet(n) ==
    /\ Up /\ n \in queue /\ w[n].pc = "idle"
    /\ queue' = queue \ {n}
    /\ IF CanBeGenerated(n)
       THEN w' = [w EXCEPT ![n] = [Idle EXCEPT !.pc = "generate",
                                               !.rev = Cached(esec[n]).rev,
                                               !.completed = Cached(esec[n]).completed]]
       ELSE UNCHANGED w
    /\ UNCHANGED <<esec, secret, keySecret, csr, seenCsr, csrQueue, c, keys, operator, disturbed>>

\* A certificate signed locally needs the Secret of its CA in the cache.
CAReady(n) == Kind[n] = "leaf" => Cached(secret[CARef]).kind # "none"

\* Faulty variant: the requeue is forgotten.
ForgetCANotReady(n) ==
    /\ Up /\ w[n].pc = "generate" /\ ~CAReady(n)
    /\ w' = [w EXCEPT ![n] = Idle]
    /\ UNCHANGED <<esec, secret, keySecret, csr, seenCsr, queue, csrQueue, c, keys, operator, disturbed>>

\* caNotReadyError: try again in five seconds.
EsecCANotReady(n) ==
    /\ Up /\ w[n].pc = "generate" /\ ~CAReady(n)
    /\ Retry(n)
    /\ UNCHANGED <<esec, secret, keySecret, csr, seenCsr, csrQueue, c, keys, operator, disturbed>>

\* Generates the key material.
EsecGenerate(n) ==
    /\ Up /\ w[n].pc = "generate" /\ CAReady(n)
    /\ keys[n] < MaxKeys
    /\ keys' = [keys EXCEPT ![n] = @ + 1]
    /\ w' = [w EXCEPT ![n].pc = "write",
                      ![n].completed = @ \/ n \in Completes,
                      ![n].key = keys[n] + 1,
                      ![n].ca = IF Kind[n] = "leaf" THEN Cached(secret[CARef]).cert ELSE 0]
    /\ UNCHANGED <<esec, secret, keySecret, csr, seenCsr, queue, csrQueue, c, operator, disturbed>>

\* createSecret: creates the Secret, or overwrites the one the cache has.
EsecWrite(n) ==
    /\ Up /\ w[n].pc = "write" /\ Kind[n] # "csr"
    /\ Accepts(secret[n], NoSecret)
    /\ secret' = [secret EXCEPT ![n] = Append(@,
          [kind |-> "generated", key |-> w[n].key, ca |-> w[n].ca,
           cert |-> IF Kind[n] = "password" THEN 0 ELSE w[n].key])]
    /\ w' = [w EXCEPT ![n].pc = "update"]
    /\ UNCHANGED <<esec, keySecret, csr, seenCsr, queue, csrQueue, c, keys, operator, disturbed>>

\* The same for the private key of a request the cluster signs.
EsecWriteKey(n) ==
    /\ Up /\ w[n].pc = "write" /\ Kind[n] = "csr"
    /\ Accepts(keySecret[n], 0)
    /\ keySecret' = [keySecret EXCEPT ![n] = Append(@, w[n].key)]
    /\ w' = [w EXCEPT ![n].pc = "csr"]
    /\ UNCHANGED <<esec, secret, csr, seenCsr, queue, csrQueue, c, keys, operator, disturbed>>

EsecWriteRefused(n) ==
    /\ Up /\ w[n].pc = "write"
    /\ IF Kind[n] = "csr" THEN ~Accepts(keySecret[n], 0) ELSE ~Accepts(secret[n], NoSecret)
    /\ Retry(n)
    /\ UNCHANGED <<esec, secret, keySecret, csr, seenCsr, csrQueue, c, keys, operator, disturbed>>

\* createCertificateSigningRequest.  The Get looks for an ExtendedSecret with the
\* request's name and no namespace: it never finds one, so a request that exists
\* is created again, which the API refuses.
EsecCreateCsr(n) ==
    /\ Up /\ w[n].pc = "csr"
    /\ IF csr[n].stage = 0
       THEN /\ csr' = [csr EXCEPT ![n] = [stage |-> 1, key |-> w[n].key]]
            /\ w' = [w EXCEPT ![n].pc = "update"]
            /\ UNCHANGED queue
       ELSE Retry(n) /\ UNCHANGED csr
    /\ UNCHANGED <<esec, secret, keySecret, seenCsr, csrQueue, c, keys, operator, disturbed>>

\* What the mutate function makes of the cached object, and whether that is a
\* change.  Update does not store the status.
Mutated(n) ==
    [Cached(esec[n]) EXCEPT !.rev = w[n].rev, !.completed = w[n].completed]

NeedsUpdate(n) == ~Cached(esec[n]).generated \/ Mutated(n) # Cached(esec[n])

\* updateExSecret, first half: CreateOrUpdate.
EsecUpdate(n) ==
    /\ Up /\ w[n].pc = "update"
    /\ NeedsUpdate(n) => Len(esec[n]) = 1
    /\ LET new == IF Mutated(n) = Cached(esec[n]) THEN Cached(esec[n])
                  ELSE [Mutated(n) EXCEPT !.version = @ + 1]
       IN  /\ esec' = IF new = Cached(esec[n]) THEN esec
                      ELSE [esec EXCEPT ![n] = Append(@, new)]
           /\ w' = [w EXCEPT ![n].pc = "status", ![n].obj = new]
    /\ UNCHANGED <<secret, keySecret, csr, seenCsr, queue, csrQueue, c, keys, operator, disturbed>>

\* Second half: Status().Update.
EsecStatus(n) ==
    /\ Up /\ w[n].pc = "status"
    /\ Latest(esec[n]) = w[n].obj
    /\ esec' = [esec EXCEPT ![n] =
                  Append(@, [w[n].obj EXCEPT !.generated = TRUE,
                                             !.version = w[n].obj.version + 1])]
    /\ w' = [w EXCEPT ![n] = Idle]
    /\ UNCHANGED <<secret, keySecret, csr, seenCsr, queue, csrQueue, c, keys, operator, disturbed>>

\* The API refuses a write that starts from an old version.
EsecConflict(n) ==
    /\ Up
    /\ \/ w[n].pc = "update" /\ NeedsUpdate(n) /\ Len(esec[n]) > 1
       \/ w[n].pc = "status" /\ Latest(esec[n]) # w[n].obj
    /\ Retry(n)
    /\ UNCHANGED <<esec, secret, keySecret, csr, seenCsr, csrQueue, c, keys, operator, disturbed>>

(***************************************************************************)
(* The CertificateSigningRequest reconciler.                               *)
(***************************************************************************)
CsrRetry(n) ==
    /\ c' = [c EXCEPT ![n] = CsrIdle]
    /\ csrQueue' = csrQueue \cup {n}

\* Faulty variant: approves whatever it finds.
CsrApproveAgain(n) ==
    /\ Up /\ n \in csrQueue /\ c[n].pc = "idle"
    /\ seenCsr[n] < 3
    /\ csrQueue' = csrQueue \ {n}
    /\ csr' = [csr EXCEPT ![n].stage = @ + 1]
    /\ UNCHANGED <<esec, secret, keySecret, seenCsr, queue, w, c, keys, operator, disturbed>>

\* Without certificate: approve the request, unless it is approved by now.
CsrApprove(n) ==
    /\ Up /\ n \in csrQueue /\ c[n].pc = "idle"
    /\ seenCsr[n] < 3
    /\ csrQueue' = csrQueue \ {n}
    /\ csr' = [csr EXCEPT ![n].stage = IF @ = 1 THEN 2 ELSE @]
    /\ UNCHANGED <<esec, secret, keySecret, seenCsr, queue, w, c, keys, operator, disturbed>>

\* With certificate: read the private key.  Without private key the request
\* fails and stays queued.
CsrGetKey(n) ==
    /\ Up /\ n \in csrQueue /\ c[n].pc = "idle"
    /\ seenCsr[n] = 3 /\ Cached(keySecret[n]) # 0
    /\ csrQueue' = csrQueue \ {n}
    /\ c' = [c EXCEPT ![n] = [pc |-> "create", key |-> Cached(keySecret[n])]]
    /\ UNCHANGED <<esec, secret, keySecret, csr, seenCsr, queue, w, keys, operator, disturbed>>

\* Faulty variant: the certificate replaces what is there.
CsrOverwriteSecret(n) ==
    /\ Up /\ c[n].pc = "create"
    /\ secret' = [secret EXCEPT ![n] = Append(@,
          [kind |-> "generated", key |-> c[n].key, cert |-> csr[n].key, ca |-> 0])]
    /\ c' = [c EXCEPT ![n].pc = "delete"]
    /\ UNCHANGED <<esec, keySecret, csr, seenCsr, queue, csrQueue, w, keys, operator, disturbed>>

\* createSecret.  The mutate function sets only StringData, which is empty here:
\* a Secret the cache has is left as it is.
CsrCreateSecret(n) ==
    /\ Up /\ c[n].pc = "create"
    /\ Cached(secret[n]).kind = "none" => Latest(secret[n]).kind = "none"
    /\ secret' = IF Cached(secret[n]).kind # "none" THEN secret
                 ELSE [secret EXCEPT ![n] = Append(@,
                        [kind |-> "generated", key |-> c[n].key, cert |-> csr[n].key, ca |-> 0])]
    /\ c' = [c EXCEPT ![n].pc = "delete"]
    /\ UNCHANGED <<esec, keySecret, csr, seenCsr, queue, csrQueue, w, keys, operator, disturbed>>

CsrCreateRefused(n) ==
    /\ Up /\ c[n].pc = "create"
    /\ Cached(secret[n]).kind = "none" /\ Latest(secret[n]).kind # "none"
    /\ CsrRetry(n)
    /\ UNCHANGED <<esec, secret, keySecret, csr, seenCsr, queue, w, keys, operator, disturbed>>

\* Faulty variant: the private key is deleted before the Secret is created.
CsrDeleteKeyEarly(n) ==
    /\ Up /\ c[n].pc \in {"create", "delete"} /\ Latest(keySecret[n]) # 0
    /\ keySecret' = [keySecret EXCEPT ![n] = Append(@, 0)]
    /\ c' = IF c[n].pc = "create" THEN c ELSE [c EXCEPT ![n] = CsrIdle]
    /\ UNCHANGED <<esec, secret, csr, seenCsr, queue, csrQueue, w, keys, operator, disturbed>>

\* deleteSecret, by name; one that is gone already is an error.
CsrDeleteKey(n) ==
    /\ Up /\ c[n].pc = "delete"
    /\ IF Latest(keySecret[n]) # 0
       THEN /\ keySecret' = [keySecret EXCEPT ![n] = Append(@, 0)]
            /\ c' = [c EXCEPT ![n] = CsrIdle]
            /\ UNCHANGED csrQueue
       ELSE CsrRetry(n) /\ UNCHANGED keySecret
    /\ UNCHANGED <<esec, secret, csr, seenCsr, queue, w, keys, operator, disturbed>>

(***************************************************************************)
(* Event handlers.                                                         *)
(***************************************************************************)

\* Faulty variant: a create event always passes.
CreatePasses(n) == TRUE

\* The create predicate: no Secret with the label "generated" is owned yet.
CreatePredicate(n) ==
    Cached(secret[n]).kind # "generated" /\ Cached(keySecret[n]) = 0

\* A version of the ExtendedSecret arrives; an update event needs a changed spec.
SyncEsec(n) ==
    /\ Up /\ Len(esec[n]) > 1
    /\ esec' = [esec EXCEPT ![n] = Tail(@)]
    /\ queue' = IF \/ Cached(esec[n]) = NoEsec /\ CreatePredicate(n)
                   \/ Cached(esec[n]) # NoEsec /\ SpecOf(esec[n][1]) # SpecOf(esec[n][2])
                THEN queue \cup {n} ELSE queue
    /\ UNCHANGED <<secret, keySecret, csr, seenCsr, csrQueue, w, c, keys, operator, disturbed>>

SyncSecret(n) ==
    /\ Up /\ Len(secret[n]) > 1
    /\ secret' = [secret EXCEPT ![n] = Tail(@)]
    /\ UNCHANGED <<esec, keySecret, csr, seenCsr, queue, csrQueue, w, c, keys, operator, disturbed>>

SyncKeySecret(n) ==
    /\ Up /\ Len(keySecret[n]) > 1
    /\ keySecret' = [keySecret EXCEPT ![n] = Tail(@)]
    /\ UNCHANGED <<esec, secret, csr, seenCsr, queue, csrQueue, w, c, keys, operator, disturbed>>

\* Every event of an owned request passes.
SyncCsr(n) ==
    /\ Up /\ seenCsr[n] < csr[n].stage
    /\ seenCsr' = [seenCsr EXCEPT ![n] = @ + 1]
    /\ csrQueue' = csrQueue \cup {n}
    /\ UNCHANGED <<esec, secret, keySecret, csr, queue, w, c, keys, operator, disturbed>>

\* An update event without change, at the informer's resynchronisation.
ResyncCsr(n) ==
    /\ Up /\ seenCsr[n] > 0 /\ n \notin csrQueue
    /\ csrQueue' = csrQueue \cup {n}
    /\ UNCHANGED <<esec, secret, keySecret, csr, seenCsr, queue, w, c, keys, operator, disturbed>>

(***************************************************************************)
(* The cluster and the user.                                               *)
(***************************************************************************)
ClusterSigns(n) ==
    /\ csr[n].stage = 2
    /\ csr' = [csr EXCEPT ![n].stage = 3]
    /\ UNCHANGED <<esec, secret, keySecret, seenCsr, queue, csrQueue, w, c, keys, operator, disturbed>>

\* The user creates the Secret himself.
UserProvides(n) ==
    /\ n \in MayProvide /\ Latest(esec[n]) # NoEsec /\ Latest(secret[n]).kind = "none"
    /\ secret' = [secret EXCEPT ![n] = Append(@, UserSecret)]
    /\ UNCHANGED <<esec, keySecret, csr, seenCsr, queue, csrQueue, w, c, keys, operator, disturbed>>

Disturb ==
    /\ disturbed < MaxDisturbances
    /\ disturbed' = disturbed + 1

\* The user, or the generated-variable controller, writes another spec.
UserEdits(n) ==
    /\ Disturb
    /\ n \in MayEdit /\ Latest(esec[n]) # NoEsec
    /\ esec' = [esec EXCEPT ![n] = Append(@,
          [Latest(esec[n]) EXCEPT !.version = Latest(esec[n]).version + 1,
                                  !.rev = Latest(esec[n]).rev + 1, !.completed = FALSE])]
    /\ UNCHANGED <<secret, keySecret, csr, seenCsr, queue, csrQueue, w, c, keys, operator>>

\* A call to the API fails.
EsecApiError(n) ==
    /\ Disturb
    /\ Up /\ n \in MayFail /\ w[n].pc # "idle"
    /\ Retry(n)
    /\ UNCHANGED <<esec, secret, keySecret, csr, seenCsr, csrQueue, c, keys, operator>>

CsrApiError(n) ==
    /\ Disturb
    /\ Up /\ c[n].pc # "idle"
    /\ CsrRetry(n)
    /\ UNCHANGED <<esec, secret, keySecret, csr, seenCsr, queue, w, keys, operator>>

Crash ==
    /\ MayCrash /\ Disturb
    /\ Up
    /\ operator' = "down"
    /\ queue' = {} /\ csrQueue' = {}
    /\ w' = [n \in Names |-> Idle] /\ c' = [n \in Names |-> CsrIdle]
    /\ UNCHANGED <<esec, secret, keySecret, csr, seenCsr, keys>>

\* The new process lists everything: each object is a create event.
Restart ==
    /\ ~Up
    /\ operator' = "running"
    /\ esec' = [n \in Names |-> IF Latest(esec[n]) = NoEsec THEN <<NoEsec>>
                                 ELSE <<NoEsec, Latest(esec[n])>>]
    /\ secret' = [n \in Names |-> <<Latest(secret[n])>>]
    /\ keySecret' = [n \in Names |-> <<Latest(keySecret[n])>>]
    /\ seenCsr' = [n \in Names |-> csr[n].stage]
    /\ csrQueue' = {n \in Names : csr[n].stage > 0}
    /\ UNCHANGED <<csr, queue, w, c, keys, disturbed>>

-----------------------------------------------------------------------------

Init ==
    /\ \E created \in Deployments :
          esec = [n \in Names |-> IF n \in created THEN <<NoEsec, [NoEsec EXCEPT !.version = 1]>>
                                  ELSE <<NoEsec>>]
    /\ secret = [n \in Names |-> <<NoSecret>>]
    /\ keySecret = [n \in Names |-> <<0>>]
    /\ csr = [n \in Names |-> NoCsr] /\ seenCsr = [n \in Names |-> 0]
    /\ queue = {} /\ csrQueue = {}
    /\ w = [n \in Names |-> Idle] /\ c = [n \in Names |-> CsrIdle]
    /\ keys = [n \in Names |-> 0]
    /\ operator = "running"
    /\ disturbed = 0

EsecStep(n) ==
    \/ EsecGet(n) \/ EsecCANotReady(n) \/ EsecGenerate(n)
    \/ EsecWrite(n) \/ EsecWriteKey(n) \/ EsecWriteRefused(n)
    \/ EsecCreateCsr(n) \/ EsecUpdate(n) \/ EsecStatus(n) \/ EsecConflict(n)

CsrStep(n) ==
    \/ CsrApprove(n) \/ CsrGetKey(n)
    \/ CsrCreateSecret(n) \/ CsrCreateRefused(n) \/ CsrDeleteKey(n)

SyncStep(n) == SyncEsec(n) \/ SyncSecret(n) \/ SyncKeySecret(n) \/ SyncCsr(n)

EnvStep(n) ==
    \/ ResyncCsr(n) \/ ClusterSigns(n)
    \/ UserProvides(n) \/ UserEdits(n)
    \/ EsecApiError(n) \/ CsrApiError(n)

Next ==
    \/ \E n \in Names : EsecStep(n) \/ CsrStep(n) \/ SyncStep(n) \/ EnvStep(n)
    \/ Crash \/ Restart

Spec == Init /\ [][Next]_vars

(***************************************************************************)
(* Fairness: each worker works on its request, each informer delivers, the *)
(* cluster signs what is approved and a dead operator is restarted.        *)
(***************************************************************************)
Fairness ==
    /\ \A n \in Names : /\ WF_vars(EsecStep(n)) /\ WF_vars(CsrStep(n))
                        /\ WF_vars(SyncEsec(n)) /\ WF_vars(SyncSecret(n))
                        /\ WF_vars(SyncKeySecret(n)) /\ WF_vars(SyncCsr(n))
                        /\ WF_vars(ClusterSigns(n))
    /\ WF_vars(Restart)

FairSpec == Spec /\ Fairness

-----------------------------------------------------------------------------

TypeOK ==
    /\ esec \in [Names -> Seq(Esec)] /\ secret \in [Names -> Seq(Secret)]
    /\ keySecret \in [Names -> Seq(Nat)]
    /\ \A n \in Names : esec[n] # <<>> /\ secret[n] # <<>> /\ keySecret[n] # <<>>
    /\ csr \in [Names -> Csr] /\ seenCsr \in [Names -> 0..3]
    /\ queue \subseteq Names /\ csrQueue \subseteq Names
    /\ w \in [Names -> Worker] /\ c \in [Names -> CsrWorker]
    /\ keys \in [Names -> 0..MaxKeys]
    /\ operator \in {"running", "down"} /\ disturbed \in 0..MaxDisturbances

\* A Secret is not generated again once Status.Generated is stored: nothing
\* rotates a credential under the pods that use it (test: "Skips generation of a
\* secret when extendedSecret's `generated` status is true").
GeneratedIsFinal ==
    [][\A n \in Names : Latest(esec[n]).generated /\ Latest(secret[n]).kind = "generated"
          => Latest(secret'[n]) = Latest(secret[n])]_vars

\* Nothing but a crash disturbs the reconcile of the name: no API call of it fails
\* and its spec stays as it is.
Steady(n) == n \notin MayEdit \cup MayFail \cup Completes

\* The certificate in the Secret is for the private key beside it.
KeyPairMatches(n) ==
    Latest(secret[n]).kind = "generated" /\ Kind[n] # "password"
        => Latest(secret[n]).cert = Latest(secret[n]).key

\* The certificate in a Secret is for the private key beside it, although the
\* two are written at different times by different controllers, from caches and
\* through crashes; if the cluster signs it, as long as the reconcile that asks
\* for it is not disturbed otherwise (createCertificateSigningRequest): an API error
\* or an edit after the request was made has it write another key beside it.
CertificateMatchesKey ==
    \A n \in Names : (Kind[n] = "csr" => Steady(n)) => KeyPairMatches(n)

\* A certificate signed locally is signed by the CA that is there, although its
\* reconcile read the CA from the cache and ran beside the CA's own, which is
\* disturbed by crashes only.
ChainMatches ==
    \A n \in Names : Kind[n] = "leaf" /\ Latest(secret[n]).kind = "generated"
        => Latest(secret[n]).ca = Latest(secret[CARef]).cert

\* The Secret the user created under the name stays as it is.
UserSecretStays(n) ==
    Latest(secret[n]).kind = "user" => Latest(secret'[n]) = Latest(secret[n])

\* A Secret the user created is not overwritten by a certificate that the cluster
\* signs, whenever it is created (test: "Skips generation of a secret when existing
\* secret has not `generated` label").  Of the other kinds it may be: their
\* createSecret overwrites one that came after the check.
UserSecretKept == [][\A n \in Names : Kind[n] = "csr" => UserSecretStays(n)]_vars

\* When the status says generated, the Secret is there or the CSR controller
\* still has what it needs to make it: the request and its private key.
GeneratedIsThere ==
    \A n \in Names : Latest(esec[n]).generated =>
        \/ Latest(secret[n]).kind # "none"
        \/ csr[n].stage > 0 /\ Latest(keySecret[n]) # 0

\* Every ExtendedSecret comes to have its Secret (docs: "will generate a
\* certificate stored in a Kubernetes secret") and stays with it.  One that the
\* cluster signs is promised it only with its request: a crash between private
\* key and request leaves a Secret that the create predicate takes for the result.
SecretsIssued ==
    <>[](\A n \in Names :
            Latest(esec[n]) # NoEsec /\ (Kind[n] = "csr" => csr[n].stage > 0)
                => Latest(secret[n]).kind # "none")
=============================================================================
