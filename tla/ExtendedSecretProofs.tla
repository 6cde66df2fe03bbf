------------------------ MODULE ExtendedSecretProofs ------------------------
(***************************************************************************)
(* Proofs about the ExtendedSecret controllers, for any set of             *)
(* ExtendedSecrets and any bounds: type correctness, that a Secret of the  *)
(* user is kept, that a generated status never outlives the means to make  *)
(* the Secret, and, for the names whose reconcile nothing disturbs, that   *)
(* a credential is generated once, that a chain matches its CA and that a  *)
(* certificate matches its key.                                            *)
(***************************************************************************)
EXTENDS ExtendedSecret, SequenceTheorems, TLAPS

\* The Secret is there, or the CSR controller has what it needs to make it.
Kept(n) ==
    \/ Latest(secret[n]).kind # "none"
    \/ csr[n].stage > 0 /\ Latest(keySecret[n]) # 0

\* A Secret never goes away, a worker that is past its writes has left what the
\* Secret needs, and a private key is deleted only beside the finished Secret.
ThereInv(n) ==
    /\ Latest(esec[n]).generated => Kept(n)
    /\ \A i \in 1..Len(secret[n]) :
          secret[n][i].kind # "none" => Latest(secret[n]).kind # "none"
    /\ w[n].pc = "write" => w[n].key # 0
    /\ w[n].pc = "csr" => Latest(secret[n]).kind # "none" \/ Latest(keySecret[n]) # 0
    /\ w[n].pc \in {"update", "status"} => Kept(n)
    /\ c[n].pc = "delete" => Latest(secret[n]).kind # "none"

\* The spec as the user first wrote it.
Blank(o) == o.rev = 0 /\ o.completed = FALSE

\* A steady name is reconciled once per create event: its spec never changes, and
\* while it is queued or worked on the cache has the only version there is.
SteadyInv(n) ==
    /\ \A i \in 1..Len(esec[n]) : Blank(esec[n][i])
    /\ \A i \in 2..Len(esec[n]) : esec[n][i] # NoEsec
    /\ Blank(w[n])
    /\ Cached(esec[n]) = NoEsec => Len(esec[n]) \in {1, 2}
    /\ n \in queue \/ w[n].pc # "idle" => Cached(esec[n]) # NoEsec
    /\ n \in queue \/ w[n].pc \in {"generate", "write", "csr", "update"} => Len(esec[n]) = 1
    /\ w[n].pc = "status" => Latest(esec[n]) = w[n].obj
    /\ w[n].pc # "idle" => n \notin queue
    /\ operator = "down" => n \notin queue /\ w[n].pc = "idle"

\* A name that the cluster does not sign never meets the CSR controller.
LocalInv(n) ==
    /\ csr[n].stage = 0 /\ seenCsr[n] = 0 /\ c[n].pc = "idle" /\ w[n].pc # "csr"

\* A steady name that the cluster does not sign is done when its Secret is written:
\* not even a restart queues it again.
OnceInv(n) ==
    Latest(secret[n]).kind = "generated" =>
        /\ n \notin queue /\ w[n].pc \in {"idle", "update", "status"}
        /\ Cached(esec[n]) = NoEsec =>
              \A i \in 1..Len(secret[n]) : secret[n][i].kind = "generated"

\* The CA has one Secret, whichever version of it a reconcile reads.
CAInv ==
    \A i \in 1..Len(secret[CARef]) :
        \/ secret[CARef][i].kind = "none"
        \/ secret[CARef][i].kind = "generated" /\ secret[CARef][i] = Latest(secret[CARef])

\* A leaf is signed, or about to be written, with the certificate of that Secret.
ChainInv(n) ==
    /\ w[n].pc = "write" => /\ Latest(secret[CARef]).kind = "generated"
                            /\ w[n].ca = Latest(secret[CARef]).cert
    /\ Latest(secret[n]).kind = "generated" =>
          /\ Latest(secret[CARef]).kind = "generated"
          /\ Latest(secret[n]).ca = Latest(secret[CARef]).cert

\* Until the Secret is there, one private key is written for a name that the
\* cluster signs, and the request is for that key.
OneKeyInv(n) ==
    Latest(secret[n]).kind = "none" =>
        /\ n \in queue \/ w[n].pc \in {"generate", "write"} =>
              csr[n].stage = 0 /\ \A i \in 1..Len(keySecret[n]) : keySecret[n][i] = 0
        /\ w[n].pc = "csr" => csr[n].stage = 0 /\ Latest(keySecret[n]) = w[n].key
        /\ csr[n].stage > 0 => Latest(keySecret[n]) = csr[n].key /\ csr[n].key # 0
        /\ c[n].pc = "create" => csr[n].stage > 0 /\ c[n].key = csr[n].key
        /\ \A i \in 1..Len(keySecret[n]) :
              keySecret[n][i] # 0 => keySecret[n][i] = Latest(keySecret[n])
        /\ Cached(esec[n]) = NoEsec /\ Latest(keySecret[n]) # 0 =>
              \A i \in 1..Len(keySecret[n]) : keySecret[n][i] # 0
        /\ seenCsr[n] <= csr[n].stage

-----------------------------------------------------------------------------
(***************************************************************************)
(* Sequences of versions.                                                  *)
(***************************************************************************)

\* A write adds the version that the API has from then on.
LEMMA AppendFacts ==
    ASSUME NEW S, NEW s \in Seq(S), s # <<>>, NEW x \in S
    PROVE  /\ Append(s, x) \in Seq(S) /\ Append(s, x) # <<>>
           /\ Len(s) \in Nat \ {0} /\ Len(Append(s, x)) = Len(s) + 1
           /\ Latest(Append(s, x)) = x
           /\ Cached(Append(s, x)) = Cached(s)
           /\ \A i \in 1..Len(s) : Append(s, x)[i] = s[i]
<1>1. Len(s) \in Nat \ {0}
  BY EmptySeq
<1>2. /\ Append(s, x) \in Seq(S) /\ Len(Append(s, x)) = Len(s) + 1
      /\ \A i \in 1..Len(s) : Append(s, x)[i] = s[i]
      /\ Append(s, x)[Len(s) + 1] = x
  BY AppendProperties
<1>3. Append(s, x) # <<>>
  BY <1>1, <1>2, EmptySeq
<1>4. Cached(Append(s, x)) = Cached(s)
  BY <1>1, <1>2 DEF Cached
<1> QED
  BY <1>1, <1>2, <1>3, <1>4 DEF Latest

\* The cache moves on to the next version; the API keeps the last one.
LEMMA TailFacts ==
    ASSUME NEW S, NEW s \in Seq(S), Len(s) > 1
    PROVE  /\ Tail(s) \in Seq(S) /\ Tail(s) # <<>>
           /\ Len(s) \in Nat /\ Len(Tail(s)) = Len(s) - 1
           /\ Latest(Tail(s)) = Latest(s)
           /\ Cached(Tail(s)) = s[2]
           /\ \A i \in 1..Len(Tail(s)) : Tail(s)[i] = s[i + 1]
<1>1. s # <<>> /\ Len(s) \in Nat
  OBVIOUS
<1>2. /\ Tail(s) \in Seq(S) /\ Len(Tail(s)) = Len(s) - 1
      /\ \A i \in 1..Len(Tail(s)) : Tail(s)[i] = s[i + 1]
  BY <1>1, HeadTailProperties
<1>3. Tail(s) # <<>>
  <2>1. Len(Tail(s)) # 0
    BY <1>1, <1>2
  <2> QED
    BY <2>1, <1>2, EmptySeq
<1>4. Latest(Tail(s)) = Latest(s)
  BY <1>1, <1>2 DEF Latest
<1>5. Cached(Tail(s)) = s[2]
  BY <1>1, <1>2 DEF Cached
<1> QED
  BY <1>1, <1>2, <1>3, <1>4, <1>5

\* A sequence of versions has a first and a last one.
LEMMA EndFacts ==
    ASSUME NEW S, NEW s \in Seq(S), s # <<>>
    PROVE  /\ Len(s) \in Nat \ {0}
           /\ Cached(s) = s[1] /\ Cached(s) \in S
           /\ Latest(s) = s[Len(s)] /\ Latest(s) \in S
           /\ \A i \in 1..Len(s) : s[i] \in S
<1>1. Len(s) \in Nat \ {0}
  BY EmptySeq
<1>2. \A i \in 1..Len(s) : s[i] \in S
  BY ElementOfSeq
<1> QED
  BY <1>1, <1>2 DEF Cached, Latest

\* After a restart the cache has what the API has.
LEMMA SingleFacts ==
    ASSUME NEW S, NEW x \in S
    PROVE  /\ <<x>> \in Seq(S) /\ <<x>> # <<>> /\ Len(<<x>>) = 1
           /\ Cached(<<x>>) = x /\ Latest(<<x>>) = x /\ <<x>>[1] = x
  BY DEF Cached, Latest

LEMMA PairFacts ==
    ASSUME NEW S, NEW x \in S, NEW y \in S
    PROVE  /\ <<x, y>> \in Seq(S) /\ <<x, y>> # <<>> /\ Len(<<x, y>>) = 2
           /\ Cached(<<x, y>>) = x /\ Latest(<<x, y>>) = y
           /\ <<x, y>>[1] = x /\ <<x, y>>[2] = y
  BY DEF Cached, Latest

-----------------------------------------------------------------------------
(***************************************************************************)
(* Type correctness.                                                       *)
(***************************************************************************)
LEMMA Records ==
    /\ NoEsec \in Esec /\ NoSecret \in Secret /\ UserSecret \in Secret
    /\ NoCsr \in Csr /\ Idle \in Worker /\ CsrIdle \in CsrWorker
<1>1. NoEsec \in Esec
  BY DEF NoEsec, Esec
<1> QED
  BY <1>1 DEF NoSecret, UserSecret, Secret, NoCsr, Csr, Idle, Worker, CsrIdle, CsrWorker

\* The versions of an ExtendedSecret that the writes make, and the states of a
\* worker.
LEMMA EsecWrites ==
    ASSUME NEW o \in Esec, NEW v \in Nat, NEW r \in Nat, NEW b \in BOOLEAN
    PROVE  /\ [o EXCEPT !.version = v] \in Esec
           /\ [o EXCEPT !.generated = TRUE, !.version = v] \in Esec
           /\ [o EXCEPT !.version = v, !.rev = r, !.completed = b] \in Esec
           /\ [o EXCEPT !.rev = r, !.completed = b] \in Esec
           /\ o.version + 1 \in Nat /\ o.rev + 1 \in Nat
<1>1. [o EXCEPT !.version = v] \in Esec
  BY DEF Esec
<1>2. [o EXCEPT !.generated = TRUE, !.version = v] \in Esec
  BY DEF Esec
<1>3. [o EXCEPT !.version = v, !.rev = r, !.completed = b] \in Esec
  BY DEF Esec
<1>4. [o EXCEPT !.rev = r, !.completed = b] \in Esec
  BY DEF Esec
<1>5. o.version + 1 \in Nat /\ o.rev + 1 \in Nat
  BY DEF Esec
<1> QED
  BY <1>1, <1>2, <1>3, <1>4, <1>5

LEMMA WorkerStates ==
    ASSUME NEW x \in Worker, NEW k \in Nat, NEW a \in Nat, NEW b \in BOOLEAN, NEW o \in Esec
    PROVE  /\ [x EXCEPT !.pc = "write", !.completed = b, !.key = k, !.ca = a] \in Worker
           /\ [x EXCEPT !.pc = "generate", !.rev = k, !.completed = b] \in Worker
           /\ [x EXCEPT !.pc = "update"] \in Worker
           /\ [x EXCEPT !.pc = "csr"] \in Worker
           /\ [x EXCEPT !.pc = "status", !.obj = o] \in Worker
  BY DEF Worker

\* The first and the last version of every object.
LEMMA Versions ==
    ASSUME TypeOK, NEW n \in Names
    PROVE  /\ Len(esec[n]) \in Nat \ {0}
           /\ Cached(esec[n]) \in Esec /\ Latest(esec[n]) \in Esec
           /\ Len(secret[n]) \in Nat \ {0}
           /\ Cached(secret[n]) \in Secret /\ Latest(secret[n]) \in Secret
           /\ Len(keySecret[n]) \in Nat \ {0}
           /\ Cached(keySecret[n]) \in Nat /\ Latest(keySecret[n]) \in Nat
<1>1. /\ esec[n] \in Seq(Esec) /\ esec[n] # <<>>
      /\ secret[n] \in Seq(Secret) /\ secret[n] # <<>>
      /\ keySecret[n] \in Seq(Nat) /\ keySecret[n] # <<>>
  BY DEF TypeOK
<1>2. Len(esec[n]) \in Nat \ {0} /\ Cached(esec[n]) \in Esec /\ Latest(esec[n]) \in Esec
  BY <1>1, EndFacts
<1>3. Len(secret[n]) \in Nat \ {0} /\ Cached(secret[n]) \in Secret /\ Latest(secret[n]) \in Secret
  BY <1>1, EndFacts
<1>4. Len(keySecret[n]) \in Nat \ {0} /\ Cached(keySecret[n]) \in Nat /\ Latest(keySecret[n]) \in Nat
  BY <1>1, EndFacts
<1> QED
  BY <1>2, <1>3, <1>4

\* One object gets other versions.
LEMMA TypeEsec ==
    ASSUME TypeOK, NEW n \in Names, NEW s \in Seq(Esec), s # <<>>,
           esec' = [esec EXCEPT ![n] = s]
    PROVE  esec' \in [Names -> Seq(Esec)] /\ \A m \in Names : esec'[m] # <<>>
  BY DEF TypeOK

LEMMA TypeSecret ==
    ASSUME TypeOK, NEW n \in Names, NEW s \in Seq(Secret), s # <<>>,
           secret' = [secret EXCEPT ![n] = s]
    PROVE  secret' \in [Names -> Seq(Secret)] /\ \A m \in Names : secret'[m] # <<>>
  BY DEF TypeOK

LEMMA TypeKeySecret ==
    ASSUME TypeOK, NEW n \in Names, NEW s \in Seq(Nat), s # <<>>,
           keySecret' = [keySecret EXCEPT ![n] = s]
    PROVE  keySecret' \in [Names -> Seq(Nat)] /\ \A m \in Names : keySecret'[m] # <<>>
  BY DEF TypeOK

\* An error puts the name back.
LEMMA TypeRetry ==
    ASSUME TypeOK, NEW n \in Names, Retry(n)
    PROVE  w' \in [Names -> Worker] /\ queue' \subseteq Names
  BY Records DEF TypeOK, Retry

LEMMA TypeCsrRetry ==
    ASSUME TypeOK, NEW n \in Names, CsrRetry(n)
    PROVE  c' \in [Names -> CsrWorker] /\ csrQueue' \subseteq Names
  BY Records DEF TypeOK, CsrRetry

LEMMA TypeEsecStep ==
    ASSUME TypeOK, NEW n \in Names, EsecStep(n)
    PROVE  TypeOK'
<1>0. w \in [Names -> Worker] /\ w[n] \in Worker /\ keys[n] \in 0..MaxKeys /\ MaxKeys \in Nat
  BY ConstantsAssumption DEF TypeOK
<1>v. /\ esec[n] \in Seq(Esec) /\ esec[n] # <<>>
      /\ secret[n] \in Seq(Secret) /\ secret[n] # <<>>
      /\ keySecret[n] \in Seq(Nat) /\ keySecret[n] # <<>>
  BY DEF TypeOK
<1>1. CASE EsecGet(n)
  <2>1. w' \in [Names -> Worker]
    <3> DEFINE new == [Idle EXCEPT !.pc = "generate", !.rev = Cached(esec[n]).rev,
                                   !.completed = Cached(esec[n]).completed]
    <3>0. Cached(esec[n]).rev \in Nat /\ Cached(esec[n]).completed \in BOOLEAN
      BY Versions DEF Esec
    <3>1. new \in Worker
      BY <3>0, Records, WorkerStates
    <3>2. w' = w \/ w' = [w EXCEPT ![n] = new]
      BY <1>1 DEF EsecGet
    <3> HIDE DEF new
    <3> QED
      BY <3>1, <3>2, <1>0
  <2> QED
    BY <1>1, <2>1 DEF TypeOK, EsecGet
<1>2. CASE EsecCANotReady(n)
  BY <1>2, TypeRetry DEF TypeOK, EsecCANotReady
<1>3. CASE EsecGenerate(n)
  <2>1. w' \in [Names -> Worker]
    <3> DEFINE ca == IF Kind[n] = "leaf" THEN Cached(secret[CARef]).cert ELSE 0
               done == w[n].completed \/ n \in Completes
               new == [w[n] EXCEPT !.pc = "write", !.completed = done,
                                   !.key = keys[n] + 1, !.ca = ca]
    <3>1. ca \in Nat
      BY Versions, ConstantsAssumption DEF Secret
    <3>2. w' = [w EXCEPT ![n] = new]
      BY <1>3, <1>0 DEF TypeOK, EsecGenerate
    <3>3. done \in BOOLEAN
      OBVIOUS
    <3>4. new \in Worker
      <4>1. keys[n] + 1 \in Nat
        BY <1>0
      <4> HIDE DEF ca, done
      <4> QED BY <4>1, <3>1, <3>3, <1>0, Records, WorkerStates
    <3> HIDE DEF new
    <3> QED
      BY <3>2, <3>4, <1>0
  <2>2. keys' \in [Names -> 0..MaxKeys]
    BY <1>3, <1>0 DEF TypeOK, EsecGenerate
  <2> QED
    BY <1>3, <2>1, <2>2 DEF TypeOK, EsecGenerate
<1>4. CASE EsecWrite(n)
  <2> DEFINE new == [kind |-> "generated", key |-> w[n].key, ca |-> w[n].ca,
                     cert |-> IF Kind[n] = "password" THEN 0 ELSE w[n].key]
  <2>1. new \in Secret
    BY <1>0 DEF Worker, Secret
  <2>2. secret' = [secret EXCEPT ![n] = Append(secret[n], new)]
    BY <1>4 DEF EsecWrite
  <2>3. secret' \in [Names -> Seq(Secret)] /\ \A m \in Names : secret'[m] # <<>>
    <3> HIDE DEF new
    <3>1. Append(secret[n], new) \in Seq(Secret) /\ Append(secret[n], new) # <<>>
      BY <1>v, <2>1, AppendFacts
    <3> QED BY <2>2, <3>1, TypeSecret
  <2>4. w' \in [Names -> Worker]
    BY <1>4, <1>0 DEF EsecWrite, TypeOK, Worker
  <2> QED
    BY <1>4, <2>3, <2>4 DEF TypeOK, EsecWrite
<1>5. CASE EsecWriteKey(n)
  <2>1. w[n].key \in Nat
    BY <1>0 DEF Worker
  <2>2. Append(keySecret[n], w[n].key) \in Seq(Nat) /\ Append(keySecret[n], w[n].key) # <<>>
    BY <1>v, <2>1, AppendFacts
  <2>3. keySecret' \in [Names -> Seq(Nat)] /\ \A m \in Names : keySecret'[m] # <<>>
    BY <1>5, <2>2, TypeKeySecret DEF EsecWriteKey
  <2>4. w' \in [Names -> Worker]
    BY <1>5, <1>0 DEF EsecWriteKey, TypeOK, Worker
  <2> QED
    BY <1>5, <2>3, <2>4 DEF TypeOK, EsecWriteKey
<1>6. CASE EsecWriteRefused(n)
  BY <1>6, TypeRetry DEF TypeOK, EsecWriteRefused
<1>7. CASE EsecCreateCsr(n)
  <2>1. CASE csr[n].stage = 0
    <3>1. csr' \in [Names -> Csr]
      <4>1. [stage |-> 1, key |-> w[n].key] \in Csr
        BY <1>0 DEF Csr, Worker
      <4> QED BY <4>1, <1>7, <2>1 DEF EsecCreateCsr, TypeOK
    <3>2. w' \in [Names -> Worker]
      <4>1. w' = [w EXCEPT ![n] = [w[n] EXCEPT !.pc = "update"]]
        BY <1>7, <2>1 DEF EsecCreateCsr
      <4>2. [w[n] EXCEPT !.pc = "update"] \in Worker
        BY <1>0, Records, WorkerStates
      <4> QED BY <4>1, <4>2 DEF TypeOK
    <3> QED
      BY <1>7, <2>1, <3>1, <3>2 DEF TypeOK, EsecCreateCsr
  <2>2. CASE csr[n].stage # 0
    BY <1>7, <2>2, TypeRetry DEF TypeOK, EsecCreateCsr
  <2> QED
    BY <2>1, <2>2
<1>8. CASE EsecUpdate(n)
  <2> DEFINE new == IF Mutated(n) = Cached(esec[n]) THEN Cached(esec[n])
                    ELSE [Mutated(n) EXCEPT !.version = @ + 1]
  <2>1. Mutated(n) \in Esec
    <3>1. w[n].rev \in Nat /\ w[n].completed \in BOOLEAN
      BY <1>0 DEF Worker
    <3> QED BY <3>1, Versions, EsecWrites DEF Mutated
  <2>2. new \in Esec
    BY <2>1, Versions, EsecWrites
  <2>3. /\ esec' = esec \/ esec' = [esec EXCEPT ![n] = Append(esec[n], new)]
        /\ w' = [w EXCEPT ![n].pc = "status", ![n].obj = new]
    BY <1>8 DEF EsecUpdate
  <2> HIDE DEF new
  <2>4. esec' \in [Names -> Seq(Esec)] /\ \A m \in Names : esec'[m] # <<>>
    <3>1. Append(esec[n], new) \in Seq(Esec) /\ Append(esec[n], new) # <<>>
      BY <1>v, <2>2, AppendFacts
    <3> QED BY <2>3, <3>1, TypeEsec DEF TypeOK
  <2>5. w' \in [Names -> Worker]
    BY <2>2, <2>3, <1>0 DEF TypeOK, Worker
  <2> QED
    BY <1>8, <2>4, <2>5 DEF TypeOK, EsecUpdate
<1>9. CASE EsecStatus(n)
  <2> DEFINE new == [w[n].obj EXCEPT !.generated = TRUE, !.version = w[n].obj.version + 1]
  <2>1. w[n].obj \in Esec
    BY <1>0 DEF Worker
  <2>2. new \in Esec
    BY <2>1, EsecWrites
  <2>3. esec' = [esec EXCEPT ![n] = Append(esec[n], new)] /\ w' = [w EXCEPT ![n] = Idle]
    BY <1>9 DEF EsecStatus
  <2> HIDE DEF new
  <2>4. Append(esec[n], new) \in Seq(Esec) /\ Append(esec[n], new) # <<>>
    BY <1>v, <2>2, AppendFacts
  <2>5. esec' \in [Names -> Seq(Esec)] /\ \A m \in Names : esec'[m] # <<>>
    BY <2>3, <2>4, TypeEsec
  <2>6. w' \in [Names -> Worker]
    BY <2>3, Records DEF TypeOK
  <2> QED
    BY <1>9, <2>5, <2>6 DEF TypeOK, EsecStatus
<1>10. CASE EsecConflict(n)
  BY <1>10, TypeRetry DEF TypeOK, EsecConflict
<1> QED
  BY <1>1, <1>2, <1>3, <1>4, <1>5, <1>6, <1>7, <1>8, <1>9, <1>10 DEF EsecStep

LEMMA TypeCsrStep ==
    ASSUME TypeOK, NEW n \in Names, CsrStep(n)
    PROVE  TypeOK'
<1>0. c \in [Names -> CsrWorker] /\ c[n] \in CsrWorker /\ csr \in [Names -> Csr] /\ csr[n] \in Csr
  BY DEF TypeOK
<1>1. CASE CsrApprove(n)
  <2>1. csr' \in [Names -> Csr]
    BY <1>1, <1>0 DEF CsrApprove, Csr
  <2> QED
    BY <1>1, <2>1 DEF TypeOK, CsrApprove
<1>2. CASE CsrGetKey(n)
  <2>1. [pc |-> "create", key |-> Cached(keySecret[n])] \in CsrWorker
    BY Versions DEF CsrWorker
  <2>2. c' \in [Names -> CsrWorker]
    BY <1>2, <1>0, <2>1 DEF CsrGetKey
  <2> QED
    BY <1>2, <2>2 DEF TypeOK, CsrGetKey
<1>3. CASE CsrCreateSecret(n)
  <2> DEFINE new == [kind |-> "generated", key |-> c[n].key, cert |-> csr[n].key, ca |-> 0]
  <2>1. new \in Secret
    BY <1>0 DEF CsrWorker, Csr, Secret
  <2>2. secret' = secret \/ secret' = [secret EXCEPT ![n] = Append(secret[n], new)]
    BY <1>3 DEF CsrCreateSecret
  <2>3. secret' \in [Names -> Seq(Secret)] /\ \A m \in Names : secret'[m] # <<>>
    <3> HIDE DEF new
    <3>1. secret[n] \in Seq(Secret) /\ secret[n] # <<>>
      BY DEF TypeOK
    <3>2. Append(secret[n], new) \in Seq(Secret) /\ Append(secret[n], new) # <<>>
      BY <3>1, <2>1, AppendFacts
    <3> QED BY <2>2, <3>2, TypeSecret DEF TypeOK
  <2>4. c' \in [Names -> CsrWorker]
    BY <1>3, <1>0 DEF CsrCreateSecret, CsrWorker
  <2> QED
    BY <1>3, <2>3, <2>4 DEF TypeOK, CsrCreateSecret
<1>4. CASE CsrCreateRefused(n)
  BY <1>4, TypeCsrRetry DEF TypeOK, CsrCreateRefused
<1>5. CASE CsrDeleteKey(n)
  <2>1. CASE Latest(keySecret[n]) # 0
    <3>1. keySecret[n] \in Seq(Nat) /\ keySecret[n] # <<>> /\ 0 \in Nat
      BY DEF TypeOK
    <3>2. Append(keySecret[n], 0) \in Seq(Nat) /\ Append(keySecret[n], 0) # <<>>
      BY <3>1, AppendFacts
    <3>3. keySecret' \in [Names -> Seq(Nat)] /\ \A m \in Names : keySecret'[m] # <<>>
      BY <1>5, <2>1, <3>2, TypeKeySecret DEF CsrDeleteKey
    <3>4. c' \in [Names -> CsrWorker]
      BY <1>5, <2>1, <1>0, Records DEF CsrDeleteKey
    <3> QED
      BY <1>5, <2>1, <3>3, <3>4 DEF TypeOK, CsrDeleteKey
  <2>2. CASE Latest(keySecret[n]) = 0
    BY <1>5, <2>2, TypeCsrRetry DEF TypeOK, CsrDeleteKey
  <2> QED
    BY <2>1, <2>2
<1> QED
  BY <1>1, <1>2, <1>3, <1>4, <1>5 DEF CsrStep

LEMMA TypeSyncStep ==
    ASSUME TypeOK, NEW n \in Names, SyncStep(n)
    PROVE  TypeOK'
<1>v. esec[n] \in Seq(Esec) /\ secret[n] \in Seq(Secret) /\ keySecret[n] \in Seq(Nat)
  BY DEF TypeOK
<1>1. CASE SyncEsec(n)
  <2>1. Tail(esec[n]) \in Seq(Esec) /\ Tail(esec[n]) # <<>>
    BY <1>1, <1>v, TailFacts DEF SyncEsec
  <2>2. esec' \in [Names -> Seq(Esec)] /\ \A m \in Names : esec'[m] # <<>>
    BY <1>1, <2>1, TypeEsec DEF SyncEsec
  <2>3. queue' \subseteq Names
    <3>1. queue' = queue \/ queue' = queue \cup {n}
      BY <1>1 DEF SyncEsec
    <3> QED BY <3>1 DEF TypeOK
  <2> QED
    BY <1>1, <2>2, <2>3 DEF TypeOK, SyncEsec
<1>2. CASE SyncSecret(n)
  <2>1. Tail(secret[n]) \in Seq(Secret) /\ Tail(secret[n]) # <<>>
    BY <1>2, <1>v, TailFacts DEF SyncSecret
  <2>2. secret' \in [Names -> Seq(Secret)] /\ \A m \in Names : secret'[m] # <<>>
    BY <1>2, <2>1, TypeSecret DEF SyncSecret
  <2> QED
    BY <1>2, <2>2 DEF TypeOK, SyncSecret
<1>3. CASE SyncKeySecret(n)
  <2>1. Tail(keySecret[n]) \in Seq(Nat) /\ Tail(keySecret[n]) # <<>>
    BY <1>3, <1>v, TailFacts DEF SyncKeySecret
  <2>2. keySecret' \in [Names -> Seq(Nat)] /\ \A m \in Names : keySecret'[m] # <<>>
    BY <1>3, <2>1, TypeKeySecret DEF SyncKeySecret
  <2> QED
    BY <1>3, <2>2 DEF TypeOK, SyncKeySecret
<1>4. CASE SyncCsr(n)
  <2>1. seenCsr' \in [Names -> 0..3]
    <3>1. csr[n].stage \in 0..3 /\ seenCsr[n] \in 0..3
      BY DEF TypeOK, Csr
    <3> QED BY <1>4, <3>1 DEF TypeOK, SyncCsr
  <2> QED
    BY <1>4, <2>1 DEF TypeOK, SyncCsr
<1> QED
  BY <1>1, <1>2, <1>3, <1>4 DEF SyncStep

LEMMA TypeEnvStep ==
    ASSUME TypeOK, NEW n \in Names, EnvStep(n)
    PROVE  TypeOK'
<1>d. Disturb => disturbed' \in 0..MaxDisturbances
  BY ConstantsAssumption DEF TypeOK, Disturb
<1>1. CASE ResyncCsr(n)
  BY <1>1 DEF TypeOK, ResyncCsr
<1>2. CASE ClusterSigns(n)
  <2>1. csr' \in [Names -> Csr]
    <3>1. csr \in [Names -> Csr] /\ csr[n] \in Csr
      BY DEF TypeOK
    <3> QED BY <1>2, <3>1 DEF ClusterSigns, Csr
  <2> QED
    BY <1>2, <2>1 DEF TypeOK, ClusterSigns
<1>3. CASE UserProvides(n)
  <2>1. secret[n] \in Seq(Secret) /\ secret[n] # <<>>
    BY DEF TypeOK
  <2>2. Append(secret[n], UserSecret) \in Seq(Secret) /\ Append(secret[n], UserSecret) # <<>>
    BY <2>1, Records, AppendFacts
  <2>3. secret' \in [Names -> Seq(Secret)] /\ \A m \in Names : secret'[m] # <<>>
    BY <1>3, <2>2, TypeSecret DEF UserProvides
  <2> QED
    BY <1>3, <2>3 DEF TypeOK, UserProvides
<1>4. CASE UserEdits(n)
  <2> DEFINE new == [Latest(esec[n]) EXCEPT !.version = Latest(esec[n]).version + 1,
                        !.rev = Latest(esec[n]).rev + 1, !.completed = FALSE]
  <2>1. new \in Esec
    BY Versions, EsecWrites
  <2>2. esec' = [esec EXCEPT ![n] = Append(esec[n], new)]
    BY <1>4 DEF UserEdits
  <2> HIDE DEF new
  <2>3. esec[n] \in Seq(Esec) /\ esec[n] # <<>>
    BY DEF TypeOK
  <2>4. Append(esec[n], new) \in Seq(Esec) /\ Append(esec[n], new) # <<>>
    BY <2>1, <2>3, AppendFacts
  <2>5. esec' \in [Names -> Seq(Esec)] /\ \A m \in Names : esec'[m] # <<>>
    BY <2>2, <2>4, TypeEsec
  <2> QED
    BY <1>4, <1>d, <2>5 DEF TypeOK, UserEdits
<1>5. CASE EsecApiError(n)
  BY <1>5, <1>d, TypeRetry DEF TypeOK, EsecApiError
<1>6. CASE CsrApiError(n)
  BY <1>6, <1>d, TypeCsrRetry DEF TypeOK, CsrApiError
<1> QED
  BY <1>1, <1>2, <1>3, <1>4, <1>5, <1>6 DEF EnvStep

LEMMA TypeCrash ==
    ASSUME TypeOK, Crash
    PROVE  TypeOK'
<1>1. disturbed' \in 0..MaxDisturbances
  BY ConstantsAssumption DEF TypeOK, Crash, Disturb
<1>2. w' \in [Names -> Worker] /\ c' \in [Names -> CsrWorker]
  BY Records DEF Crash
<1> QED
  BY <1>1, <1>2 DEF TypeOK, Crash

\* What the lists of a restart put into the cache.
LEMMA RestartVersions ==
    ASSUME TypeOK, Restart, NEW n \in Names
    PROVE  /\ esec'[n] \in Seq(Esec) /\ esec'[n] # <<>>
           /\ secret'[n] \in Seq(Secret) /\ secret'[n] # <<>>
           /\ keySecret'[n] \in Seq(Nat) /\ keySecret'[n] # <<>>
           /\ secret'[n] = <<Latest(secret[n])>> /\ keySecret'[n] = <<Latest(keySecret[n])>>
           /\ Latest(esec[n]) = NoEsec => esec'[n] = <<NoEsec>>
           /\ Latest(esec[n]) # NoEsec => esec'[n] = <<NoEsec, Latest(esec[n])>>
<1>1. Latest(esec[n]) \in Esec /\ Latest(secret[n]) \in Secret /\ Latest(keySecret[n]) \in Nat
  BY Versions
<1>2. /\ secret'[n] = <<Latest(secret[n])>> /\ keySecret'[n] = <<Latest(keySecret[n])>>
      /\ Latest(esec[n]) = NoEsec => esec'[n] = <<NoEsec>>
      /\ Latest(esec[n]) # NoEsec => esec'[n] = <<NoEsec, Latest(esec[n])>>
  BY DEF Restart
<1>3. esec'[n] \in Seq(Esec) /\ esec'[n] # <<>>
  <2>1. CASE Latest(esec[n]) = NoEsec
    BY <2>1, <1>2, Records, SingleFacts
  <2>2. CASE Latest(esec[n]) # NoEsec
    <3>1. <<NoEsec, Latest(esec[n])>> \in Seq(Esec) /\ <<NoEsec, Latest(esec[n])>> # <<>>
      BY <1>1, Records, PairFacts
    <3> QED BY <3>1, <2>2, <1>2
  <2> QED BY <2>1, <2>2
<1>4. secret'[n] \in Seq(Secret) /\ secret'[n] # <<>>
  BY <1>1, <1>2, SingleFacts
<1>5. keySecret'[n] \in Seq(Nat) /\ keySecret'[n] # <<>>
  BY <1>1, <1>2, SingleFacts
<1> QED
  BY <1>2, <1>3, <1>4, <1>5

LEMMA TypeRestart ==
    ASSUME TypeOK, Restart
    PROVE  TypeOK'
<1>1. /\ esec' \in [Names -> Seq(Esec)] /\ secret' \in [Names -> Seq(Secret)]
      /\ keySecret' \in [Names -> Seq(Nat)]
      /\ \A n \in Names : esec'[n] # <<>> /\ secret'[n] # <<>> /\ keySecret'[n] # <<>>
  <2>1. /\ esec' = [n \in Names |-> esec'[n]] /\ secret' = [n \in Names |-> secret'[n]]
        /\ keySecret' = [n \in Names |-> keySecret'[n]]
    BY DEF Restart
  <2> QED BY <2>1, RestartVersions
<1>2. seenCsr' \in [Names -> 0..3] /\ csrQueue' \subseteq Names
  <2>1. \A n \in Names : csr[n].stage \in 0..3
    BY DEF TypeOK, Csr
  <2> QED BY <2>1 DEF Restart
<1> QED
  BY <1>1, <1>2 DEF TypeOK, Restart

LEMMA TypeInit == Init => TypeOK
<1> SUFFICES ASSUME Init PROVE TypeOK
  OBVIOUS
<1>1. [NoEsec EXCEPT !.version = 1] \in Esec
  BY DEF NoEsec, Esec
<1>2. esec \in [Names -> Seq(Esec)] /\ \A n \in Names : esec[n] # <<>>
  <2>1. PICK created \in Deployments :
          esec = [n \in Names |-> IF n \in created THEN <<NoEsec, [NoEsec EXCEPT !.version = 1]>>
                                  ELSE <<NoEsec>>]
    BY DEF Init
  <2> DEFINE first == [NoEsec EXCEPT !.version = 1]
  <2>2. /\ <<NoEsec>> \in Seq(Esec) /\ <<NoEsec>> # <<>>
        /\ <<NoEsec, first>> \in Seq(Esec) /\ <<NoEsec, first>> # <<>>
    BY <1>1, Records, SingleFacts, PairFacts
  <2> HIDE DEF first
  <2> QED BY <2>1, <2>2 DEF first
<1>3. /\ secret \in [Names -> Seq(Secret)] /\ \A n \in Names : secret[n] # <<>>
      /\ keySecret \in [Names -> Seq(Nat)] /\ \A n \in Names : keySecret[n] # <<>>
  <2>1. <<NoSecret>> \in Seq(Secret) /\ <<NoSecret>> # <<>>
    BY Records, SingleFacts
  <2>2. <<0>> \in Seq(Nat) /\ <<0>> # <<>>
    BY SingleFacts
  <2> QED BY <2>1, <2>2 DEF Init
<1>4. /\ csr \in [Names -> Csr] /\ w \in [Names -> Worker] /\ c \in [Names -> CsrWorker]
  BY Records DEF Init
<1>5. /\ seenCsr \in [Names -> 0..3] /\ keys \in [Names -> 0..MaxKeys]
      /\ queue \subseteq Names /\ csrQueue \subseteq Names
      /\ operator \in {"running", "down"} /\ disturbed \in 0..MaxDisturbances
  BY ConstantsAssumption DEF Init
<1> QED
  BY <1>2, <1>3, <1>4, <1>5 DEF TypeOK

\* The state of the ExtendedSecret controllers stays within its types: every
\* object has a cached and a stored version, a request is at most signed and no
\* more keys are generated than the bound.
THEOREM TypeCorrect == Spec => []TypeOK
<1>1. Init => TypeOK
  BY TypeInit
<1>2. TypeOK /\ [Next]_vars => TypeOK'
  <2> SUFFICES ASSUME TypeOK, [Next]_vars PROVE TypeOK'
    OBVIOUS
  <2>1. CASE UNCHANGED vars
    BY <2>1 DEF vars, TypeOK
  <2>2. CASE Next
    BY <2>2, TypeEsecStep, TypeCsrStep, TypeSyncStep, TypeEnvStep, TypeCrash, TypeRestart DEF Next
  <2> QED
    BY <2>1, <2>2
<1> QED
  BY <1>1, <1>2, PTL DEF Spec

-----------------------------------------------------------------------------
(***************************************************************************)
(* A step of one name leaves the others alone.                             *)
(***************************************************************************)
Same(n) ==
    /\ esec'[n] = esec[n] /\ secret'[n] = secret[n] /\ keySecret'[n] = keySecret[n]
    /\ csr'[n] = csr[n] /\ seenCsr'[n] = seenCsr[n] /\ w'[n] = w[n] /\ c'[n] = c[n]
    /\ n \in queue' <=> n \in queue
    /\ operator' = operator

LEMMA Frame ==
    ASSUME TypeOK, NEW n \in Names, NEW m \in Names, m # n,
           EsecStep(n) \/ CsrStep(n) \/ SyncStep(n) \/ EnvStep(n)
    PROVE  Same(m)
<1>0. /\ esec \in [Names -> Seq(Esec)] /\ secret \in [Names -> Seq(Secret)]
      /\ keySecret \in [Names -> Seq(Nat)] /\ csr \in [Names -> Csr]
      /\ seenCsr \in [Names -> 0..3] /\ w \in [Names -> Worker] /\ c \in [Names -> CsrWorker]
  BY DEF TypeOK
<1>1. CASE EsecGet(n)
  BY <1>0, <1>1 DEF Same, EsecGet
<1>2. CASE EsecCANotReady(n)
  BY <1>0, <1>2 DEF Same, EsecCANotReady, Retry
<1>3. CASE EsecGenerate(n)
  BY <1>0, <1>3 DEF Same, EsecGenerate
<1>4. CASE EsecWrite(n)
  BY <1>0, <1>4 DEF Same, EsecWrite
<1>5. CASE EsecWriteKey(n)
  BY <1>0, <1>5 DEF Same, EsecWriteKey
<1>6. CASE EsecWriteRefused(n)
  BY <1>0, <1>6 DEF Same, EsecWriteRefused, Retry
<1>7. CASE EsecCreateCsr(n)
  BY <1>0, <1>7 DEF Same, EsecCreateCsr, Retry
<1>8. CASE EsecUpdate(n)
  BY <1>0, <1>8 DEF Same, EsecUpdate
<1>9. CASE EsecStatus(n)
  BY <1>0, <1>9 DEF Same, EsecStatus
<1>10. CASE EsecConflict(n)
  BY <1>0, <1>10 DEF Same, EsecConflict, Retry
<1>11. CASE CsrApprove(n)
  BY <1>0, <1>11 DEF Same, CsrApprove
<1>12. CASE CsrGetKey(n)
  BY <1>0, <1>12 DEF Same, CsrGetKey
<1>13. CASE CsrCreateSecret(n)
  BY <1>0, <1>13 DEF Same, CsrCreateSecret
<1>14. CASE CsrCreateRefused(n)
  BY <1>0, <1>14 DEF Same, CsrCreateRefused, CsrRetry
<1>15. CASE CsrDeleteKey(n)
  BY <1>0, <1>15 DEF Same, CsrDeleteKey, CsrRetry
<1>16. CASE SyncEsec(n)
  BY <1>0, <1>16 DEF Same, SyncEsec
<1>17. CASE SyncSecret(n)
  BY <1>0, <1>17 DEF Same, SyncSecret
<1>18. CASE SyncKeySecret(n)
  BY <1>0, <1>18 DEF Same, SyncKeySecret
<1>19. CASE SyncCsr(n)
  BY <1>0, <1>19 DEF Same, SyncCsr
<1>20. CASE ResyncCsr(n)
  BY <1>0, <1>20 DEF Same, ResyncCsr
<1>21. CASE ClusterSigns(n)
  BY <1>0, <1>21 DEF Same, ClusterSigns
<1>22. CASE UserProvides(n)
  BY <1>0, <1>22 DEF Same, UserProvides
<1>23. CASE UserEdits(n)
  BY <1>0, <1>23 DEF Same, UserEdits
<1>24. CASE EsecApiError(n)
  BY <1>0, <1>24 DEF Same, EsecApiError, Retry
<1>25. CASE CsrApiError(n)
  BY <1>0, <1>25 DEF Same, CsrApiError, CsrRetry
<1> QED
  BY <1>1, <1>2, <1>3, <1>4, <1>5, <1>6, <1>7, <1>8, <1>9, <1>10, <1>11, <1>12, <1>13,
     <1>14, <1>15, <1>16, <1>17, <1>18, <1>19, <1>20, <1>21, <1>22, <1>23, <1>24, <1>25
     DEF EsecStep, CsrStep, SyncStep, EnvStep

\* A step of a name on its own objects: each gets one more version, loses the
\* cached one, or stays.
LEMMA SecretWritten ==
    ASSUME TypeOK, NEW n \in Names, NEW x \in Secret, secret'[n] = Append(secret[n], x)
    PROVE  /\ Latest(secret'[n]) = x /\ Cached(secret'[n]) = Cached(secret[n])
           /\ Len(secret'[n]) = Len(secret[n]) + 1 /\ Len(secret[n]) \in Nat \ {0}
           /\ secret'[n][Len(secret[n]) + 1] = x
           /\ \A i \in 1..Len(secret[n]) : secret'[n][i] = secret[n][i]
<1>1. secret[n] \in Seq(Secret) /\ secret[n] # <<>>
  BY DEF TypeOK
<1> QED
  BY <1>1, AppendFacts DEF Latest

LEMMA SecretSynced ==
    ASSUME TypeOK, NEW n \in Names, SyncSecret(n)
    PROVE  /\ Latest(secret'[n]) = Latest(secret[n]) /\ Cached(secret'[n]) = secret[n][2]
           /\ Len(secret[n]) \in Nat /\ Len(secret[n]) > 1 /\ Len(secret'[n]) = Len(secret[n]) - 1
           /\ \A i \in 1..Len(secret'[n]) : secret'[n][i] = secret[n][i + 1]
<1>1. secret[n] \in Seq(Secret) /\ Len(secret[n]) > 1 /\ secret'[n] = Tail(secret[n])
  BY DEF TypeOK, SyncSecret
<1> QED
  BY <1>1, TailFacts

LEMMA EsecWritten ==
    ASSUME TypeOK, NEW n \in Names, NEW x \in Esec, esec'[n] = Append(esec[n], x)
    PROVE  /\ Latest(esec'[n]) = x /\ Cached(esec'[n]) = Cached(esec[n])
           /\ Len(esec'[n]) = Len(esec[n]) + 1 /\ Len(esec[n]) \in Nat \ {0}
           /\ esec'[n][Len(esec[n]) + 1] = x
           /\ \A i \in 1..Len(esec[n]) : esec'[n][i] = esec[n][i]
<1>1. esec[n] \in Seq(Esec) /\ esec[n] # <<>>
  BY DEF TypeOK
<1> QED
  BY <1>1, AppendFacts DEF Latest

LEMMA EsecSynced ==
    ASSUME TypeOK, NEW n \in Names, SyncEsec(n)
    PROVE  /\ Latest(esec'[n]) = Latest(esec[n]) /\ Cached(esec'[n]) = esec[n][2]
           /\ Len(esec[n]) \in Nat /\ Len(esec[n]) > 1 /\ Len(esec'[n]) = Len(esec[n]) - 1
           /\ \A i \in 1..Len(esec'[n]) : esec'[n][i] = esec[n][i + 1]
<1>1. esec[n] \in Seq(Esec) /\ Len(esec[n]) > 1 /\ esec'[n] = Tail(esec[n])
  BY DEF TypeOK, SyncEsec
<1> QED
  BY <1>1, TailFacts

LEMMA KeyWritten ==
    ASSUME TypeOK, NEW n \in Names, NEW x \in Nat, keySecret'[n] = Append(keySecret[n], x)
    PROVE  /\ Latest(keySecret'[n]) = x /\ Cached(keySecret'[n]) = Cached(keySecret[n])
           /\ Len(keySecret'[n]) = Len(keySecret[n]) + 1 /\ Len(keySecret[n]) \in Nat \ {0}
           /\ keySecret'[n][Len(keySecret[n]) + 1] = x
           /\ \A i \in 1..Len(keySecret[n]) : keySecret'[n][i] = keySecret[n][i]
<1>1. keySecret[n] \in Seq(Nat) /\ keySecret[n] # <<>>
  BY DEF TypeOK
<1> QED
  BY <1>1, AppendFacts DEF Latest

LEMMA KeySynced ==
    ASSUME TypeOK, NEW n \in Names, SyncKeySecret(n)
    PROVE  /\ Latest(keySecret'[n]) = Latest(keySecret[n]) /\ Cached(keySecret'[n]) = keySecret[n][2]
           /\ Len(keySecret[n]) \in Nat /\ Len(keySecret[n]) > 1
           /\ Len(keySecret'[n]) = Len(keySecret[n]) - 1
           /\ \A i \in 1..Len(keySecret'[n]) : keySecret'[n][i] = keySecret[n][i + 1]
<1>1. keySecret[n] \in Seq(Nat) /\ Len(keySecret[n]) > 1 /\ keySecret'[n] = Tail(keySecret[n])
  BY DEF TypeOK, SyncKeySecret
<1> QED
  BY <1>1, TailFacts

\* What becomes of the Secret of a name: the two writers of the controllers and
\* the user add a version, the cache drops one, and nothing else touches it.
LEMMA SecretEffect ==
    ASSUME TypeOK, NEW n \in Names,
           EsecStep(n) \/ CsrStep(n) \/ SyncStep(n) \/ EnvStep(n)
    PROVE  \/ secret'[n] = secret[n]
           \/ SyncSecret(n)
           \/ /\ EsecWrite(n)
              /\ \E x \in Secret : /\ x.kind = "generated" /\ x.key = w[n].key /\ x.ca = w[n].ca
                                   /\ Kind[n] # "password" => x.cert = w[n].key
                                   /\ secret'[n] = Append(secret[n], x)
           \/ /\ CsrCreateSecret(n)
              /\ Latest(secret[n]).kind = "none" /\ Cached(secret[n]).kind = "none"
              /\ \E x \in Secret : /\ x.kind = "generated" /\ x.key = c[n].key /\ x.cert = csr[n].key
                                   /\ secret'[n] = Append(secret[n], x)
           \/ /\ UserProvides(n)
              /\ \E x \in Secret : x.kind = "user" /\ secret'[n] = Append(secret[n], x)
<1>0. secret \in [Names -> Seq(Secret)] /\ w[n] \in Worker /\ c[n] \in CsrWorker /\ csr[n] \in Csr
  BY DEF TypeOK
<1>1. CASE EsecWrite(n)
  <2> DEFINE x == [kind |-> "generated", key |-> w[n].key, ca |-> w[n].ca,
                   cert |-> IF Kind[n] = "password" THEN 0 ELSE w[n].key]
  <2>1. x \in Secret
    BY <1>0 DEF Worker, Secret
  <2>2. /\ x.kind = "generated" /\ x.key = w[n].key /\ x.ca = w[n].ca
        /\ Kind[n] # "password" => x.cert = w[n].key
    OBVIOUS
  <2>3. secret'[n] = Append(secret[n], x)
    BY <1>0, <1>1 DEF EsecWrite
  <2> QED BY <1>1, <2>1, <2>2, <2>3
<1>2. CASE CsrCreateSecret(n)
  <2> DEFINE x == [kind |-> "generated", key |-> c[n].key, cert |-> csr[n].key, ca |-> 0]
  <2>1. x \in Secret
    BY <1>0 DEF CsrWorker, Csr, Secret
  <2>2. x.kind = "generated" /\ x.key = c[n].key /\ x.cert = csr[n].key
    OBVIOUS
  <2>3. \/ secret'[n] = secret[n]
        \/ /\ Latest(secret[n]).kind = "none" /\ Cached(secret[n]).kind = "none"
           /\ secret'[n] = Append(secret[n], x)
    BY <1>0, <1>2 DEF CsrCreateSecret
  <2> QED BY <1>2, <2>1, <2>2, <2>3
<1>3. CASE UserProvides(n)
  <2>1. UserSecret.kind = "user"
    BY DEF UserSecret, NoSecret
  <2>2. secret'[n] = Append(secret[n], UserSecret)
    BY <1>0, <1>3 DEF UserProvides
  <2> QED BY <1>3, <2>1, <2>2, Records
<1>4. CASE ~EsecWrite(n) /\ ~CsrCreateSecret(n) /\ ~UserProvides(n) /\ ~SyncSecret(n)
  <2>1. secret' = secret
    BY <1>4 DEF EsecStep, CsrStep, SyncStep, EnvStep,
       EsecGet, EsecCANotReady, EsecGenerate, EsecWriteKey, EsecWriteRefused, EsecCreateCsr,
       EsecUpdate, EsecStatus, EsecConflict, CsrApprove, CsrGetKey, CsrCreateRefused,
       CsrDeleteKey, SyncEsec, SyncKeySecret, SyncCsr, ResyncCsr, ClusterSigns,
       UserEdits, EsecApiError, CsrApiError
  <2> QED BY <2>1
<1> QED
  BY <1>1, <1>2, <1>3, <1>4

\* What becomes of the private key of a request.
LEMMA KeyEffect ==
    ASSUME TypeOK, NEW n \in Names,
           EsecStep(n) \/ CsrStep(n) \/ SyncStep(n) \/ EnvStep(n)
    PROVE  \/ keySecret'[n] = keySecret[n]
           \/ SyncKeySecret(n)
           \/ EsecWriteKey(n) /\ w[n].key \in Nat /\ keySecret'[n] = Append(keySecret[n], w[n].key)
           \/ CsrDeleteKey(n) /\ c[n].pc = "delete" /\ keySecret'[n] = Append(keySecret[n], 0)
<1>0. keySecret \in [Names -> Seq(Nat)] /\ w[n] \in Worker
  BY DEF TypeOK
<1>1. CASE EsecWriteKey(n)
  BY <1>0, <1>1 DEF EsecWriteKey, Worker
<1>2. CASE CsrDeleteKey(n)
  BY <1>0, <1>2 DEF CsrDeleteKey
<1>3. CASE ~EsecWriteKey(n) /\ ~CsrDeleteKey(n) /\ ~SyncKeySecret(n)
  <2>1. keySecret' = keySecret
    BY <1>3 DEF EsecStep, CsrStep, SyncStep, EnvStep,
       EsecGet, EsecCANotReady, EsecGenerate, EsecWrite, EsecWriteRefused, EsecCreateCsr,
       EsecUpdate, EsecStatus, EsecConflict, CsrApprove, CsrGetKey, CsrCreateSecret,
       CsrCreateRefused, SyncEsec, SyncSecret, SyncCsr, ResyncCsr, ClusterSigns,
       UserProvides, UserEdits, EsecApiError, CsrApiError
  <2> QED BY <2>1
<1> QED
  BY <1>1, <1>2, <1>3

\* What becomes of the request: it is created once, and only its stage moves.
LEMMA CsrEffect ==
    ASSUME TypeOK, NEW n \in Names,
           EsecStep(n) \/ CsrStep(n) \/ SyncStep(n) \/ EnvStep(n)
    PROVE  \/ csr'[n] = csr[n]
           \/ /\ EsecCreateCsr(n) /\ csr[n].stage = 0
              /\ csr'[n].stage = 1 /\ csr'[n].key = w[n].key
           \/ csr[n].stage > 0 /\ csr'[n].stage > csr[n].stage /\ csr'[n].key = csr[n].key
<1>0. csr \in [Names -> Csr] /\ csr[n] \in Csr
  BY DEF TypeOK
<1>1. CASE EsecCreateCsr(n)
  BY <1>0, <1>1 DEF EsecCreateCsr
<1>2. CASE CsrApprove(n)
  BY <1>0, <1>2 DEF CsrApprove, Csr
<1>3. CASE ClusterSigns(n)
  BY <1>0, <1>3 DEF ClusterSigns, Csr
<1>4. CASE ~EsecCreateCsr(n) /\ ~CsrApprove(n) /\ ~ClusterSigns(n)
  <2>1. csr' = csr
    BY <1>4 DEF EsecStep, CsrStep, SyncStep, EnvStep,
       EsecGet, EsecCANotReady, EsecGenerate, EsecWrite, EsecWriteKey, EsecWriteRefused,
       EsecUpdate, EsecStatus, EsecConflict, CsrGetKey, CsrCreateSecret,
       CsrCreateRefused, CsrDeleteKey, SyncEsec, SyncSecret, SyncKeySecret, SyncCsr, ResyncCsr,
       UserProvides, UserEdits, EsecApiError, CsrApiError
  <2> QED BY <2>1
<1> QED
  BY <1>1, <1>2, <1>3, <1>4

\* What becomes of the ExtendedSecret.
LEMMA EsecEffect ==
    ASSUME TypeOK, NEW n \in Names,
           EsecStep(n) \/ CsrStep(n) \/ SyncStep(n) \/ EnvStep(n)
    PROVE  \/ esec'[n] = esec[n]
           \/ SyncEsec(n)
           \/ /\ EsecUpdate(n) /\ Len(esec[n]) = 1
              /\ \E x \in Esec : /\ x.generated = Cached(esec[n]).generated /\ x.version # 0
                                 /\ x.rev = w[n].rev /\ x.completed = w[n].completed
                                 /\ esec'[n] = Append(esec[n], x) /\ w'[n].obj = x
           \/ /\ EsecStatus(n)
              /\ \E x \in Esec : /\ x.version # 0
                                 /\ x.rev = w[n].obj.rev /\ x.completed = w[n].obj.completed
                                 /\ esec'[n] = Append(esec[n], x)
           \/ /\ UserEdits(n)
              /\ \E x \in Esec : /\ x.generated = Latest(esec[n]).generated
                                 /\ esec'[n] = Append(esec[n], x)
<1>0. esec \in [Names -> Seq(Esec)] /\ w \in [Names -> Worker] /\ w[n] \in Worker
  BY DEF TypeOK
<1>1. CASE EsecUpdate(n)
  <2>1. Mutated(n) \in Esec /\ Cached(esec[n]) \in Esec
    <3>1. w[n].rev \in Nat /\ w[n].completed \in BOOLEAN
      BY <1>0 DEF Worker
    <3> QED BY <3>1, Versions, EsecWrites DEF Mutated
  <2> DEFINE x == [Mutated(n) EXCEPT !.version = @ + 1]
  <2>2. x \in Esec /\ x.version # 0
    <3>1. x \in Esec
      BY <2>1, EsecWrites
    <3>2. x.version = Mutated(n).version + 1 /\ Mutated(n).version \in Nat
      BY <2>1 DEF Esec
    <3> QED BY <3>1, <3>2
  <2>3. x.generated = Cached(esec[n]).generated /\ x.rev = w[n].rev /\ x.completed = w[n].completed
    BY <2>1 DEF Mutated, Esec
  <2>4. CASE esec' = esec
    BY <2>4
  <2>5. CASE esec' # esec
    <3>1. Mutated(n) # Cached(esec[n]) /\ esec' = [esec EXCEPT ![n] = Append(esec[n], x)]
          /\ w' = [w EXCEPT ![n].pc = "status", ![n].obj = x]
      BY <1>1, <2>5 DEF EsecUpdate
    <3>2. Len(esec[n]) = 1
      BY <1>1, <3>1 DEF EsecUpdate, NeedsUpdate
    <3> HIDE DEF x
    <3>3. esec'[n] = Append(esec[n], x) /\ w'[n].obj = x
      BY <3>1, <1>0 DEF Worker
    <3> QED BY <1>1, <2>2, <2>3, <3>2, <3>3
  <2> QED BY <2>4, <2>5
<1>2. CASE EsecStatus(n)
  <2> DEFINE x == [w[n].obj EXCEPT !.generated = TRUE, !.version = w[n].obj.version + 1]
  <2>1. w[n].obj \in Esec
    BY <1>0 DEF Worker
  <2>2. x \in Esec
    BY <2>1, EsecWrites
  <2>3. x.version = w[n].obj.version + 1 /\ w[n].obj.version \in Nat
    BY <2>1 DEF Esec
  <2>4. x.rev = w[n].obj.rev /\ x.completed = w[n].obj.completed
    BY <2>1 DEF Esec
  <2>5. esec'[n] = Append(esec[n], x)
    BY <1>0, <1>2 DEF EsecStatus
  <2>6. x.version # 0
    BY <2>3
  <2> QED BY <1>2, <2>2, <2>4, <2>5, <2>6
<1>3. CASE UserEdits(n)
  <2> DEFINE x == [Latest(esec[n]) EXCEPT !.version = Latest(esec[n]).version + 1,
                        !.rev = Latest(esec[n]).rev + 1, !.completed = FALSE]
  <2>1. Latest(esec[n]) \in Esec
    BY Versions
  <2>2. x \in Esec
    BY <2>1, EsecWrites
  <2>3. x.generated = Latest(esec[n]).generated
    BY <2>1 DEF Esec
  <2>4. esec'[n] = Append(esec[n], x)
    BY <1>0, <1>3 DEF UserEdits
  <2> QED BY <1>3, <2>2, <2>3, <2>4
<1>4. CASE ~EsecUpdate(n) /\ ~EsecStatus(n) /\ ~UserEdits(n) /\ ~SyncEsec(n)
  <2>1. esec' = esec
    BY <1>4 DEF EsecStep, CsrStep, SyncStep, EnvStep,
       EsecGet, EsecCANotReady, EsecGenerate, EsecWrite, EsecWriteKey, EsecWriteRefused,
       EsecCreateCsr, EsecConflict, CsrApprove, CsrGetKey, CsrCreateSecret,
       CsrCreateRefused, CsrDeleteKey, SyncSecret, SyncKeySecret, SyncCsr, ResyncCsr, ClusterSigns,
       UserProvides, EsecApiError, CsrApiError
  <2> QED BY <2>1
<1> QED
  BY <1>1, <1>2, <1>3, <1>4

\* The reconcile gives up and is queued again.
Retrying(n) ==
    \/ EsecCANotReady(n) \/ EsecWriteRefused(n) \/ EsecConflict(n) \/ EsecApiError(n)
    \/ EsecCreateCsr(n) /\ csr[n].stage # 0

\* What becomes of the worker of a name.
LEMMA WorkerEffect ==
    ASSUME TypeOK, NEW n \in Names,
           EsecStep(n) \/ CsrStep(n) \/ SyncStep(n) \/ EnvStep(n)
    PROVE  \/ w'[n] = w[n] /\ ~EsecGenerate(n) /\ ~EsecWrite(n) /\ ~EsecWriteKey(n) /\ ~EsecStatus(n)
           \/ (EsecStatus(n) \/ Retrying(n)) /\ w'[n] = Idle
           \/ /\ EsecGet(n) /\ CanBeGenerated(n) /\ w'[n].pc = "generate"
              /\ w'[n].rev = Cached(esec[n]).rev /\ w'[n].completed = Cached(esec[n]).completed
           \/ /\ EsecGenerate(n) /\ w'[n].pc = "write" /\ w'[n].key # 0 /\ w'[n].rev = w[n].rev
              /\ n \notin Completes => w'[n].completed = w[n].completed
              /\ Kind[n] = "leaf" => w'[n].ca = Cached(secret[CARef]).cert
           \/ /\ EsecWrite(n) /\ w'[n] = [w[n] EXCEPT !.pc = "update"]
           \/ /\ EsecWriteKey(n) /\ w'[n] = [w[n] EXCEPT !.pc = "csr"]
           \/ /\ EsecCreateCsr(n) /\ csr[n].stage = 0 /\ w'[n] = [w[n] EXCEPT !.pc = "update"]
           \/ /\ EsecUpdate(n) /\ w'[n].pc = "status"
              /\ w'[n].rev = w[n].rev /\ w'[n].completed = w[n].completed
              /\ esec'[n] = esec[n] => w'[n].obj = Cached(esec[n])
<1>0. /\ w \in [Names -> Worker] /\ w[n] \in Worker /\ keys \in [Names -> 0..MaxKeys]
      /\ MaxKeys \in Nat /\ keys[n] \in Nat
  BY ConstantsAssumption DEF TypeOK
<1>1. CASE EsecGet(n)
  <2>0. ~EsecGenerate(n) /\ ~EsecWrite(n) /\ ~EsecWriteKey(n) /\ ~EsecStatus(n)
    BY <1>1 DEF EsecGet, EsecGenerate, EsecWrite, EsecWriteKey, EsecStatus
  <2>1. CASE CanBeGenerated(n)
    <3>1. w'[n] = [Idle EXCEPT !.pc = "generate", !.rev = Cached(esec[n]).rev,
                               !.completed = Cached(esec[n]).completed]
      BY <1>0, <1>1, <2>1 DEF EsecGet
    <3>2. w'[n].pc = "generate" /\ w'[n].rev = Cached(esec[n]).rev
          /\ w'[n].completed = Cached(esec[n]).completed
      BY <3>1 DEF Idle
    <3> QED BY <1>1, <2>1, <3>2
  <2>2. CASE ~CanBeGenerated(n)
    BY <1>1, <2>0, <2>2 DEF EsecGet
  <2> QED BY <2>1, <2>2
<1>2. CASE EsecGenerate(n)
  <2> DEFINE ca == IF Kind[n] = "leaf" THEN Cached(secret[CARef]).cert ELSE 0
             done == w[n].completed \/ n \in Completes
  <2>1. w' = [w EXCEPT ![n] = [w[n] EXCEPT !.pc = "write", !.completed = done,
                                           !.key = keys[n] + 1, !.ca = ca]]
    BY <1>2, <1>0 DEF EsecGenerate
  <2>2. n \notin Completes => done = w[n].completed
    <3>1. w[n].completed \in BOOLEAN
      BY <1>0 DEF Worker
    <3> QED BY <3>1
  <2>3. Kind[n] = "leaf" => ca = Cached(secret[CARef]).cert
    OBVIOUS
  <2> HIDE DEF ca, done
  <2>4. w'[n] = [w[n] EXCEPT !.pc = "write", !.completed = done, !.key = keys[n] + 1, !.ca = ca]
    BY <1>0, <2>1
  <2>5. /\ w'[n].pc = "write" /\ w'[n].completed = done /\ w'[n].key = keys[n] + 1
        /\ w'[n].ca = ca /\ w'[n].rev = w[n].rev
    BY <1>0, <2>4 DEF Worker
  <2>6. w'[n].key # 0
    BY <1>0, <2>5
  <2> QED BY <1>2, <2>2, <2>3, <2>5, <2>6
<1>3. CASE EsecWrite(n)
  BY <1>0, <1>3 DEF EsecWrite
<1>4. CASE EsecWriteKey(n)
  BY <1>0, <1>4 DEF EsecWriteKey
<1>5. CASE EsecCreateCsr(n)
  <2>1. CASE csr[n].stage = 0
    BY <1>0, <1>5, <2>1 DEF EsecCreateCsr
  <2>2. CASE csr[n].stage # 0
    <3>1. w' = [w EXCEPT ![n] = Idle]
      BY <1>5, <2>2 DEF EsecCreateCsr, Retry
    <3> QED BY <1>0, <1>5, <2>2, <3>1 DEF Retrying
  <2> QED BY <2>1, <2>2
<1>6. CASE EsecUpdate(n)
  <2> DEFINE x == IF Mutated(n) = Cached(esec[n]) THEN Cached(esec[n])
                  ELSE [Mutated(n) EXCEPT !.version = @ + 1]
  <2>1. w' = [w EXCEPT ![n].pc = "status", ![n].obj = x]
    BY <1>6 DEF EsecUpdate
  <2>2. /\ esec' = IF x = Cached(esec[n]) THEN esec ELSE [esec EXCEPT ![n] = Append(esec[n], x)]
    BY <1>6 DEF EsecUpdate
  <2>3. x \in Esec
    <3>1. w[n].rev \in Nat /\ w[n].completed \in BOOLEAN
      BY <1>0 DEF Worker
    <3>2. Mutated(n) \in Esec /\ Cached(esec[n]) \in Esec
      BY <3>1, Versions, EsecWrites DEF Mutated
    <3> QED BY <3>2, EsecWrites
  <2> HIDE DEF x
  <2>4. esec'[n] = esec[n] => x = Cached(esec[n])
    <3> SUFFICES ASSUME esec'[n] = esec[n], x # Cached(esec[n]) PROVE FALSE
      OBVIOUS
    <3>1. esec'[n] = Append(esec[n], x)
      BY <2>2 DEF TypeOK
    <3> QED BY <3>1, <2>3, EsecWritten
  <2>5. /\ w'[n].pc = "status" /\ w'[n].obj = x
        /\ w'[n].rev = w[n].rev /\ w'[n].completed = w[n].completed
    BY <1>0, <2>1 DEF Worker
  <2> QED BY <1>6, <2>4, <2>5
<1>7. CASE EsecStatus(n) \/ EsecCANotReady(n) \/ EsecWriteRefused(n) \/ EsecConflict(n) \/ EsecApiError(n)
  <2>1. w' = [w EXCEPT ![n] = Idle]
    BY <1>7 DEF EsecStatus, EsecCANotReady, EsecWriteRefused, EsecConflict, EsecApiError, Retry
  <2> QED BY <1>0, <1>7, <2>1 DEF Retrying
<1>8. CASE CsrStep(n) \/ SyncStep(n) \/ (EnvStep(n) /\ ~EsecApiError(n))
  <2>1. w' = w
    BY <1>8 DEF CsrStep, SyncStep, EnvStep, CsrApprove, CsrGetKey, CsrCreateSecret,
       CsrCreateRefused, CsrDeleteKey, SyncEsec, SyncSecret, SyncKeySecret, SyncCsr, ResyncCsr,
       ClusterSigns, UserProvides, UserEdits, CsrApiError
  <2>2. ~EsecGenerate(n) /\ ~EsecWrite(n) /\ ~EsecWriteKey(n) /\ ~EsecStatus(n)
    <3>1. w[n].pc = w'[n].pc
      BY <2>1
    <3>2. ASSUME EsecGenerate(n) PROVE FALSE
      <4>1. w'[n].pc = "write" /\ w[n].pc = "generate"
        BY <3>2, <1>0 DEF EsecGenerate, Worker
      <4> QED BY <4>1, <3>1
    <3>3. ASSUME EsecWrite(n) PROVE FALSE
      BY <3>3, <3>1, <1>0 DEF EsecWrite, Worker
    <3>4. ASSUME EsecWriteKey(n) PROVE FALSE
      BY <3>4, <3>1, <1>0 DEF EsecWriteKey, Worker
    <3>5. ASSUME EsecStatus(n) PROVE FALSE
      BY <3>5, <3>1, <1>0 DEF EsecStatus, Idle
    <3> QED BY <3>2, <3>3, <3>4, <3>5
  <2> QED BY <2>1, <2>2
<1> QED
  BY <1>1, <1>2, <1>3, <1>4, <1>5, <1>6, <1>7, <1>8 DEF EsecStep, EnvStep

\* Who is queued: what an event brings, and what gave up.
LEMMA QueueEffect ==
    ASSUME TypeOK, NEW n \in Names,
           EsecStep(n) \/ CsrStep(n) \/ SyncStep(n) \/ EnvStep(n)
    PROVE  /\ operator' = operator
           /\ \/ n \in queue' <=> n \in queue
              \/ EsecGet(n) /\ n \in queue /\ n \notin queue'
              \/ /\ SyncEsec(n)
                 /\ \/ Cached(esec[n]) = NoEsec /\ CreatePredicate(n)
                    \/ Cached(esec[n]) # NoEsec /\ SpecOf(esec[n][1]) # SpecOf(esec[n][2])
              \/ Retrying(n) /\ n \in queue' /\ w'[n] = Idle
<1>1. CASE EsecGet(n)
  BY <1>1 DEF EsecGet
<1>2. CASE SyncEsec(n)
  BY <1>2 DEF SyncEsec
<1>3. CASE EsecCANotReady(n) \/ EsecWriteRefused(n) \/ EsecConflict(n) \/ EsecApiError(n)
  <2>1. w' = [w EXCEPT ![n] = Idle] /\ queue' = queue \cup {n} /\ operator' = operator
    BY <1>3 DEF EsecCANotReady, EsecWriteRefused, EsecConflict, EsecApiError, Retry
  <2> QED BY <1>3, <2>1 DEF Retrying, TypeOK
<1>4. CASE EsecCreateCsr(n)
  <2>1. CASE csr[n].stage = 0
    BY <1>4, <2>1 DEF EsecCreateCsr
  <2>2. CASE csr[n].stage # 0
    <3>1. w' = [w EXCEPT ![n] = Idle] /\ queue' = queue \cup {n} /\ operator' = operator
      BY <1>4, <2>2 DEF EsecCreateCsr, Retry
    <3> QED BY <1>4, <2>2, <3>1 DEF Retrying, TypeOK
  <2> QED BY <2>1, <2>2
<1>5. CASE /\ ~EsecGet(n) /\ ~SyncEsec(n) /\ ~EsecCANotReady(n) /\ ~EsecWriteRefused(n)
           /\ ~EsecConflict(n) /\ ~EsecApiError(n) /\ ~EsecCreateCsr(n)
  BY <1>5 DEF EsecStep, CsrStep, SyncStep, EnvStep,
       EsecGenerate, EsecWrite, EsecWriteKey, EsecUpdate, EsecStatus,
       CsrApprove, CsrGetKey, CsrCreateSecret, CsrCreateRefused, CsrDeleteKey,
       SyncSecret, SyncKeySecret, SyncCsr, ResyncCsr, ClusterSigns,
       UserProvides, UserEdits, CsrApiError
<1> QED
  BY <1>1, <1>2, <1>3, <1>4, <1>5

\* What becomes of the worker of the CSR controller, and of its cache.
LEMMA CsrWorkerEffect ==
    ASSUME TypeOK, NEW n \in Names,
           EsecStep(n) \/ CsrStep(n) \/ SyncStep(n) \/ EnvStep(n)
    PROVE  /\ \/ c'[n] = c[n]
              \/ c'[n] = CsrIdle
              \/ /\ CsrGetKey(n) /\ c'[n].pc = "create" /\ c'[n].key = Cached(keySecret[n])
              \/ /\ CsrCreateSecret(n) /\ c'[n].pc = "delete"
           /\ \/ seenCsr'[n] = seenCsr[n]
              \/ seenCsr[n] < csr[n].stage /\ csr'[n] = csr[n] /\ seenCsr'[n] = seenCsr[n] + 1
<1>0. c \in [Names -> CsrWorker] /\ c[n] \in CsrWorker
  BY DEF TypeOK
<1>1. CASE CsrGetKey(n)
  BY <1>0, <1>1 DEF CsrGetKey
<1>2. CASE CsrCreateSecret(n)
  BY <1>0, <1>2 DEF CsrCreateSecret, CsrWorker
<1>3. CASE CsrDeleteKey(n) \/ CsrCreateRefused(n) \/ CsrApiError(n)
  <2>1. c' = [c EXCEPT ![n] = CsrIdle] /\ seenCsr' = seenCsr
    BY <1>3 DEF CsrDeleteKey, CsrCreateRefused, CsrApiError, CsrRetry
  <2> QED BY <1>0, <2>1
<1>4. CASE SyncCsr(n)
  <2>1. seenCsr \in [Names -> 0..3] /\ csr' = csr /\ c' = c
    BY <1>4 DEF TypeOK, SyncCsr
  <2> QED BY <1>4, <2>1 DEF SyncCsr
<1>5. CASE /\ ~CsrGetKey(n) /\ ~CsrCreateSecret(n) /\ ~CsrDeleteKey(n) /\ ~CsrCreateRefused(n)
           /\ ~CsrApiError(n) /\ ~SyncCsr(n)
  <2>1. c' = c /\ seenCsr' = seenCsr
    BY <1>5 DEF EsecStep, CsrStep, SyncStep, EnvStep,
       EsecGet, EsecCANotReady, EsecGenerate, EsecWrite, EsecWriteKey, EsecWriteRefused,
       EsecCreateCsr, EsecUpdate, EsecStatus, EsecConflict, CsrApprove,
       SyncEsec, SyncSecret, SyncKeySecret, ResyncCsr, ClusterSigns,
       UserProvides, UserEdits, EsecApiError
  <2> QED BY <2>1
<1> QED
  BY <1>1, <1>2, <1>3, <1>4, <1>5

-----------------------------------------------------------------------------
(***************************************************************************)
(* A Secret of the user.                                                   *)
(***************************************************************************)

\* Whatever the controllers have read, a Secret that the user created under the
\* name of a certificate that the cluster signs is never overwritten.
THEOREM UserSecretIsKept == Spec => UserSecretKept
<1>1. TypeOK /\ [Next]_vars =>
        [\A n \in Names : Kind[n] = "csr" => UserSecretStays(n)]_vars
  <2> SUFFICES ASSUME TypeOK, Next, NEW n \in Names, Kind[n] = "csr",
                      Latest(secret[n]).kind = "user"
               PROVE  Latest(secret'[n]) = Latest(secret[n])
    BY DEF UserSecretStays
  <2>1. ASSUME NEW m \in Names, EsecStep(m) \/ CsrStep(m) \/ SyncStep(m) \/ EnvStep(m)
        PROVE  Latest(secret'[n]) = Latest(secret[n])
    <3>1. CASE m # n
      BY <2>1, <3>1, Frame DEF Same
    <3>2. CASE m = n
      <4>1. ~EsecWrite(n)
        BY DEF EsecWrite
      <4>2. ~UserProvides(n)
        BY DEF UserProvides
      <4>3. secret'[n] = secret[n] \/ SyncSecret(n)
        BY <2>1, <3>2, <4>1, <4>2, SecretEffect
      <4> QED BY <4>3, SecretSynced
    <3> QED BY <3>1, <3>2
  <2>2. CASE Crash
    BY <2>2 DEF Crash
  <2>3. CASE Restart
    <3>1. secret'[n] = <<Latest(secret[n])>> /\ Latest(secret[n]) \in Secret
      BY <2>3, RestartVersions, Versions
    <3> QED BY <3>1, SingleFacts
  <2> QED
    BY <2>1, <2>2, <2>3 DEF Next
<1> QED
  BY <1>1, TypeCorrect, PTL DEF Spec, UserSecretKept

-----------------------------------------------------------------------------
(***************************************************************************)
(* A generated status does not outlive the means to make the Secret.       *)
(***************************************************************************)

\* A Secret does not go away, in the API or in the cache.
LEMMA SecretStays ==
    ASSUME TypeOK, NEW n \in Names, ThereInv(n),
           EsecStep(n) \/ CsrStep(n) \/ SyncStep(n) \/ EnvStep(n)
    PROVE  /\ Latest(secret[n]).kind # "none" => Latest(secret'[n]).kind # "none"
           /\ \A i \in 1..Len(secret'[n]) :
                 secret'[n][i].kind # "none" => Latest(secret'[n]).kind # "none"
<1>0. /\ \A i \in 1..Len(secret[n]) :
           secret[n][i].kind # "none" => Latest(secret[n]).kind # "none"
      /\ Len(secret[n]) \in Nat \ {0}
  BY Versions DEF ThereInv
<1>1. CASE secret'[n] = secret[n]
  BY <1>0, <1>1
<1>2. CASE SyncSecret(n)
  <2>1. /\ Latest(secret'[n]) = Latest(secret[n])
        /\ Len(secret[n]) \in Nat /\ Len(secret'[n]) = Len(secret[n]) - 1
        /\ \A i \in 1..Len(secret'[n]) : secret'[n][i] = secret[n][i + 1]
    BY <1>2, SecretSynced
  <2>2. ASSUME NEW i \in 1..Len(secret'[n]) PROVE i + 1 \in 1..Len(secret[n])
    BY <2>1
  <2> QED BY <1>0, <2>1, <2>2
<1>3. ASSUME NEW x \in Secret, x.kind # "none", secret'[n] = Append(secret[n], x)
      PROVE  Latest(secret'[n]).kind # "none"
  BY <1>3, SecretWritten
<1> QED
  BY <1>0, <1>1, <1>2, <1>3, SecretEffect

\* Nor do the request and its private key, before the Secret is there.
LEMMA KeptStays ==
    ASSUME TypeOK, NEW n \in Names, ThereInv(n),
           EsecStep(n) \/ CsrStep(n) \/ SyncStep(n) \/ EnvStep(n)
    PROVE  /\ Kept(n) => Kept(n)'
           /\ Latest(keySecret[n]) # 0 =>
                 Latest(secret'[n]).kind # "none" \/ Latest(keySecret'[n]) # 0
<1>1. CASE Latest(secret[n]).kind # "none"
  BY <1>1, SecretStays DEF Kept
<1>2. CASE Latest(secret[n]).kind = "none"
  <2>1. Latest(keySecret[n]) # 0 => Latest(keySecret'[n]) # 0
    <3>1. CASE keySecret'[n] = keySecret[n]
      BY <3>1
    <3>2. CASE SyncKeySecret(n)
      BY <3>2, KeySynced
    <3>3. CASE /\ EsecWriteKey(n) /\ w[n].key \in Nat
               /\ keySecret'[n] = Append(keySecret[n], w[n].key)
      <4>1. w[n].key # 0
        BY <3>3 DEF ThereInv, EsecWriteKey
      <4> QED BY <3>3, <4>1, KeyWritten
    <3>4. ~(c[n].pc = "delete")
      BY <1>2 DEF ThereInv
    <3> QED BY <3>1, <3>2, <3>3, <3>4, KeyEffect
  <2>2. csr[n].stage > 0 => csr'[n].stage > 0
    <3>1. csr[n].stage \in Nat /\ csr'[n].stage \in Nat
      <4>1. TypeOK'
        BY TypeEsecStep, TypeCsrStep, TypeSyncStep, TypeEnvStep
      <4>2. csr[n] \in Csr /\ csr'[n] \in Csr
        BY <4>1 DEF TypeOK
      <4> QED BY <4>2 DEF Csr
    <3> QED BY <3>1, CsrEffect
  <2> QED
    BY <1>2, <2>1, <2>2 DEF Kept
<1> QED
  BY <1>1, <1>2

LEMMA ThereStep ==
    ASSUME TypeOK, NEW n \in Names, ThereInv(n),
           EsecStep(n) \/ CsrStep(n) \/ SyncStep(n) \/ EnvStep(n)
    PROVE  ThereInv(n)'
<1>0. w[n] \in Worker /\ c[n] \in CsrWorker
  BY DEF TypeOK
<1>s. /\ \A i \in 1..Len(secret'[n]) :
            secret'[n][i].kind # "none" => Latest(secret'[n]).kind # "none"
      /\ Latest(secret[n]).kind # "none" => Latest(secret'[n]).kind # "none"
      /\ Kept(n) => Kept(n)'
      /\ Latest(keySecret[n]) # 0 => Latest(secret'[n]).kind # "none" \/ Latest(keySecret'[n]) # 0
  BY SecretStays, KeptStays
<1>w. /\ w'[n].pc = "write" => w'[n].key # 0
      /\ w'[n].pc = "csr" => Latest(secret'[n]).kind # "none" \/ Latest(keySecret'[n]) # 0
      /\ w'[n].pc \in {"update", "status"} => Kept(n)'
  <2>1. CASE w'[n] = w[n]
    BY <1>s, <2>1 DEF ThereInv
  <2>2. CASE w'[n] = Idle
    BY <2>2 DEF Idle
  <2>3. CASE w'[n].pc = "generate"
    BY <2>3
  <2>4. CASE w'[n].pc = "write" /\ w'[n].key # 0
    BY <2>4
  <2>5. CASE EsecWrite(n) /\ w'[n] = [w[n] EXCEPT !.pc = "update"]
    <3>1. Latest(secret'[n]).kind # "none"
      <4>1. PICK x \in Secret : x.kind = "generated" /\ secret'[n] = Append(secret[n], x)
        <5>1. secret \in [Names -> Seq(Secret)]
          BY DEF TypeOK
        <5> DEFINE x == [kind |-> "generated", key |-> w[n].key, ca |-> w[n].ca,
                         cert |-> IF Kind[n] = "password" THEN 0 ELSE w[n].key]
        <5>2. x \in Secret /\ x.kind = "generated"
          BY <1>0 DEF Worker, Secret
        <5>3. secret'[n] = Append(secret[n], x)
          BY <2>5, <5>1 DEF EsecWrite
        <5> QED BY <5>2, <5>3
      <4> QED BY <4>1, SecretWritten
    <3>2. w'[n].pc = "update"
      BY <2>5, <1>0 DEF Worker
    <3> QED BY <3>1, <3>2 DEF Kept
  <2>6. CASE EsecWriteKey(n) /\ w'[n] = [w[n] EXCEPT !.pc = "csr"]
    <3>1. w[n].key # 0 /\ w[n].key \in Nat
      BY <2>6, <1>0 DEF ThereInv, EsecWriteKey, Worker
    <3>2. keySecret'[n] = Append(keySecret[n], w[n].key)
      BY <2>6 DEF EsecWriteKey, TypeOK
    <3>3. Latest(keySecret'[n]) # 0
      BY <3>1, <3>2, KeyWritten
    <3>4. w'[n].pc = "csr"
      BY <2>6, <1>0 DEF Worker
    <3> QED BY <3>3, <3>4
  <2>7. CASE EsecCreateCsr(n) /\ csr[n].stage = 0 /\ w'[n] = [w[n] EXCEPT !.pc = "update"]
    <3>1. Latest(secret[n]).kind # "none" \/ Latest(keySecret[n]) # 0
      BY <2>7 DEF ThereInv, EsecCreateCsr
    <3>2. csr'[n].stage > 0
      BY <2>7 DEF EsecCreateCsr, TypeOK
    <3>3. w'[n].pc = "update"
      BY <2>7, <1>0 DEF Worker
    <3> QED BY <1>s, <3>1, <3>2, <3>3 DEF Kept
  <2>8. CASE EsecUpdate(n) /\ w'[n].pc = "status"
    <3>1. Kept(n)
      BY <2>8 DEF EsecUpdate, ThereInv
    <3> QED BY <1>s, <2>8, <3>1
  <2> QED
    BY <2>1, <2>2, <2>3, <2>4, <2>5, <2>6, <2>7, <2>8, WorkerEffect
<1>c. c'[n].pc = "delete" => Latest(secret'[n]).kind # "none"
  <2>1. CASE c'[n] = c[n]
    BY <1>s, <2>1 DEF ThereInv
  <2>2. CASE c'[n] = CsrIdle
    BY <2>2 DEF CsrIdle
  <2>3. CASE CsrGetKey(n) /\ c'[n].pc = "create"
    BY <2>3
  <2>4. CASE CsrCreateSecret(n)
    <3>1. CASE Cached(secret[n]).kind # "none"
      <4>1. secret[n] \in Seq(Secret) /\ secret[n] # <<>>
        BY DEF TypeOK
      <4>2. Cached(secret[n]) = secret[n][1] /\ Len(secret[n]) \in Nat \ {0}
        BY <4>1, EndFacts
      <4>3. Latest(secret[n]).kind # "none"
        BY <3>1, <4>2 DEF ThereInv
      <4> QED BY <1>s, <4>3
    <3>2. CASE Cached(secret[n]).kind = "none"
      <4> DEFINE x == [kind |-> "generated", key |-> c[n].key, cert |-> csr[n].key, ca |-> 0]
      <4>1. x \in Secret /\ x.kind = "generated"
        BY <1>0 DEF TypeOK, CsrWorker, Csr, Secret
      <4>2. secret'[n] = Append(secret[n], x)
        BY <2>4, <3>2 DEF CsrCreateSecret, TypeOK
      <4> QED BY <4>1, <4>2, SecretWritten
    <3> QED BY <3>1, <3>2
  <2> QED
    BY <2>1, <2>2, <2>3, <2>4, CsrWorkerEffect
<1>e. Latest(esec'[n]).generated => Kept(n)'
  <2>1. CASE esec'[n] = esec[n]
    BY <1>s, <2>1 DEF ThereInv
  <2>2. CASE SyncEsec(n)
    <3>1. Latest(esec'[n]) = Latest(esec[n])
      BY <2>2, EsecSynced
    <3> QED BY <1>s, <3>1 DEF ThereInv
  <2>3. ASSUME NEW x \in Esec, x.generated = Latest(esec[n]).generated,
               esec'[n] = Append(esec[n], x)
        PROVE  Latest(esec'[n]).generated => Kept(n)'
    <3>1. Latest(esec'[n]) = x
      BY <2>3, EsecWritten
    <3>2. Latest(esec'[n]).generated = Latest(esec[n]).generated
      BY <3>1, <2>3
    <3> QED BY <1>s, <3>2 DEF ThereInv
  <2>4. CASE EsecUpdate(n) /\ Len(esec[n]) = 1
    <3>1. Kept(n)
      BY <2>4 DEF EsecUpdate, ThereInv
    <3> QED BY <1>s, <3>1
  <2>5. CASE EsecStatus(n)
    <3>1. Kept(n)
      BY <2>5 DEF EsecStatus, ThereInv
    <3> QED BY <1>s, <3>1
  <2> QED
    BY <2>1, <2>2, <2>3, <2>4, <2>5, EsecEffect
<1> QED
  BY <1>s, <1>w, <1>c, <1>e DEF ThereInv

LEMMA ThereFrame ==
    ASSUME NEW n, ThereInv(n), Same(n)
    PROVE  ThereInv(n)'
  BY DEF ThereInv, Kept, Same

LEMMA ThereCrash ==
    ASSUME TypeOK, Crash, NEW n \in Names, ThereInv(n)
    PROVE  ThereInv(n)'
<1>1. w'[n].pc = "idle" /\ c'[n].pc = "idle"
  BY DEF Crash, Idle, CsrIdle
<1>2. /\ esec' = esec /\ secret' = secret /\ keySecret' = keySecret /\ csr' = csr
  BY DEF Crash
<1> QED
  BY <1>1, <1>2 DEF ThereInv, Kept

\* A restart keeps what the API has.
LEMMA RestartKeeps ==
    ASSUME TypeOK, Restart, NEW n \in Names
    PROVE  /\ Latest(esec'[n]) = Latest(esec[n]) /\ Latest(secret'[n]) = Latest(secret[n])
           /\ Latest(keySecret'[n]) = Latest(keySecret[n])
           /\ Len(secret'[n]) = 1 /\ secret'[n][1] = Latest(secret[n])
           /\ Len(keySecret'[n]) = 1 /\ keySecret'[n][1] = Latest(keySecret[n])
           /\ w'[n] = w[n] /\ c'[n] = c[n] /\ csr'[n] = csr[n]
<1>1. Latest(esec[n]) \in Esec /\ Latest(secret[n]) \in Secret /\ Latest(keySecret[n]) \in Nat
  BY Versions
<1>2. /\ Latest(secret'[n]) = Latest(secret[n])
      /\ Len(secret'[n]) = 1 /\ secret'[n][1] = Latest(secret[n])
  BY <1>1, RestartVersions, SingleFacts
<1>3. /\ Latest(keySecret'[n]) = Latest(keySecret[n])
      /\ Len(keySecret'[n]) = 1 /\ keySecret'[n][1] = Latest(keySecret[n])
  BY <1>1, RestartVersions, SingleFacts
<1>4. Latest(esec'[n]) = Latest(esec[n])
  <2>1. CASE Latest(esec[n]) = NoEsec
    BY <2>1, <1>1, RestartVersions, SingleFacts
  <2>2. CASE Latest(esec[n]) # NoEsec
    <3>1. Latest(<<NoEsec, Latest(esec[n])>>) = Latest(esec[n])
      BY <1>1, Records, PairFacts
    <3> QED BY <2>2, <3>1, RestartVersions
  <2> QED BY <2>1, <2>2
<1>5. w'[n] = w[n] /\ c'[n] = c[n] /\ csr'[n] = csr[n]
  BY DEF Restart
<1> QED
  BY <1>2, <1>3, <1>4, <1>5

LEMMA ThereRestart ==
    ASSUME TypeOK, Restart, NEW n \in Names, ThereInv(n)
    PROVE  ThereInv(n)'
  BY RestartKeeps DEF ThereInv, Kept

LEMMA ThereInit == Init => \A n \in Names : ThereInv(n)
<1> SUFFICES ASSUME Init, NEW n \in Names PROVE ThereInv(n)
  OBVIOUS
<1>1. ~Latest(esec[n]).generated
  BY DEF Init, Latest, NoEsec
<1>2. secret[n] = <<NoSecret>> /\ w[n] = Idle /\ c[n] = CsrIdle
  BY DEF Init
<1> QED
  BY <1>1, <1>2 DEF ThereInv, NoSecret, Idle, CsrIdle, Latest

\* ThereInv holds of every name, whatever disturbs it.
THEOREM ThereInvariant == Spec => [](\A n \in Names : ThereInv(n))
<1>1. Init => \A n \in Names : ThereInv(n)
  BY ThereInit
<1>2. TypeOK /\ (\A n \in Names : ThereInv(n)) /\ [Next]_vars => (\A n \in Names : ThereInv(n))'
  <2> SUFFICES ASSUME TypeOK, \A n \in Names : ThereInv(n), [Next]_vars, NEW n \in Names
               PROVE  ThereInv(n)'
    OBVIOUS
  <2>1. CASE UNCHANGED vars
    BY <2>1, ThereFrame DEF vars, Same
  <2>2. ASSUME NEW m \in Names, EsecStep(m) \/ CsrStep(m) \/ SyncStep(m) \/ EnvStep(m)
        PROVE  ThereInv(n)'
    <3>1. CASE m = n
      BY <2>2, <3>1, ThereStep
    <3>2. CASE m # n
      BY <2>2, <3>2, Frame, ThereFrame
    <3> QED BY <3>1, <3>2
  <2> QED
    BY <2>1, <2>2, ThereCrash, ThereRestart DEF Next
<1> QED
  BY <1>1, <1>2, TypeCorrect, PTL DEF Spec

\* Whenever the status says generated, in any interleaving of the two controllers
\* with crashes, errors and edits, the Secret is there or the request and its
\* private key still are.
THEOREM GeneratedSecretIsThere == Spec => []GeneratedIsThere
<1>1. (\A n \in Names : ThereInv(n)) => GeneratedIsThere
  BY DEF ThereInv, Kept, GeneratedIsThere
<1> QED
  BY <1>1, ThereInvariant, PTL

-----------------------------------------------------------------------------
(***************************************************************************)
(* A steady name: one reconcile per create event.                          *)
(***************************************************************************)
LEMMA SteadyEsec ==
    ASSUME TypeOK, NEW n \in Names, Steady(n), SteadyInv(n),
           EsecStep(n) \/ CsrStep(n) \/ SyncStep(n) \/ EnvStep(n)
    PROVE  /\ \A i \in 1..Len(esec'[n]) : Blank(esec'[n][i])
           /\ \A i \in 2..Len(esec'[n]) : esec'[n][i] # NoEsec
           /\ Cached(esec'[n]) = NoEsec => Len(esec'[n]) \in {1, 2}
           /\ Cached(esec[n]) # NoEsec => Cached(esec'[n]) # NoEsec
<1>0. /\ esec[n] \in Seq(Esec) /\ esec[n] # <<>> /\ w[n] \in Worker
      /\ Len(esec[n]) \in Nat \ {0} /\ Cached(esec[n]) = esec[n][1]
      /\ Latest(esec[n]) = esec[n][Len(esec[n])]
  <2>1. esec[n] \in Seq(Esec) /\ esec[n] # <<>> /\ w[n] \in Worker
    BY DEF TypeOK
  <2> QED BY <2>1, EndFacts
<1>i. /\ \A i \in 1..Len(esec[n]) : Blank(esec[n][i])
      /\ \A i \in 2..Len(esec[n]) : esec[n][i] # NoEsec
      /\ Blank(w[n])
      /\ Cached(esec[n]) = NoEsec => Len(esec[n]) \in {1, 2}
      /\ w[n].pc # "idle" => Cached(esec[n]) # NoEsec
      /\ w[n].pc = "status" => Latest(esec[n]) = w[n].obj
  BY DEF SteadyInv
<1>1. CASE esec'[n] = esec[n]
  BY <1>i, <1>1
<1>2. CASE SyncEsec(n)
  <2>1. /\ Cached(esec'[n]) = esec[n][2] /\ Len(esec[n]) > 1 /\ Len(esec'[n]) = Len(esec[n]) - 1
        /\ \A i \in 1..Len(esec'[n]) : esec'[n][i] = esec[n][i + 1]
    BY <1>2, EsecSynced
  <2> QED
    BY <2>1, <1>0, <1>i
<1>3. ASSUME NEW x \in Esec, Blank(x), x.version # 0, w[n].pc # "idle",
             esec'[n] = Append(esec[n], x)
      PROVE  /\ \A i \in 1..Len(esec'[n]) : Blank(esec'[n][i])
             /\ \A i \in 2..Len(esec'[n]) : esec'[n][i] # NoEsec
             /\ Cached(esec'[n]) = NoEsec => Len(esec'[n]) \in {1, 2}
             /\ Cached(esec[n]) # NoEsec => Cached(esec'[n]) # NoEsec
  <2>1. /\ Cached(esec'[n]) = Cached(esec[n]) /\ Len(esec'[n]) = Len(esec[n]) + 1
        /\ esec'[n][Len(esec[n]) + 1] = x
        /\ \A i \in 1..Len(esec[n]) : esec'[n][i] = esec[n][i]
    BY <1>3, EsecWritten
  <2>2. x # NoEsec
    BY <1>3 DEF NoEsec
  <2> QED
    BY <2>1, <2>2, <1>0, <1>i, <1>3
<1>4. ASSUME EsecUpdate(n), NEW x \in Esec, x.version # 0, x.rev = w[n].rev,
             x.completed = w[n].completed, esec'[n] = Append(esec[n], x)
      PROVE  /\ \A i \in 1..Len(esec'[n]) : Blank(esec'[n][i])
             /\ \A i \in 2..Len(esec'[n]) : esec'[n][i] # NoEsec
             /\ Cached(esec'[n]) = NoEsec => Len(esec'[n]) \in {1, 2}
             /\ Cached(esec[n]) # NoEsec => Cached(esec'[n]) # NoEsec
  <2>1. w[n].pc # "idle"
    BY <1>4 DEF EsecUpdate
  <2>2. Blank(x)
    BY <1>i, <1>4 DEF Blank
  <2> QED
    BY <1>3, <1>4, <2>1, <2>2
<1>5. ASSUME EsecStatus(n), NEW x \in Esec, x.version # 0, x.rev = w[n].obj.rev,
             x.completed = w[n].obj.completed, esec'[n] = Append(esec[n], x)
      PROVE  /\ \A i \in 1..Len(esec'[n]) : Blank(esec'[n][i])
             /\ \A i \in 2..Len(esec'[n]) : esec'[n][i] # NoEsec
             /\ Cached(esec'[n]) = NoEsec => Len(esec'[n]) \in {1, 2}
             /\ Cached(esec[n]) # NoEsec => Cached(esec'[n]) # NoEsec
  <2>1. w[n].pc = "status" /\ w[n].obj = Latest(esec[n])
    BY <1>5 DEF EsecStatus
  <2>2. Blank(w[n].obj)
    BY <2>1, <1>0, <1>i
  <2>3. Blank(x)
    BY <2>2, <1>5 DEF Blank
  <2> QED
    BY <1>3, <1>5, <2>1, <2>3
<1>6. ~UserEdits(n)
  BY DEF UserEdits, Steady
<1> QED
  BY <1>1, <1>2, <1>4, <1>5, <1>6, EsecEffect

\* The reconcile of a steady name gives up only before it has written anything
\* that an update could meet.
LEMMA SteadyRetry ==
    ASSUME TypeOK, NEW n \in Names, Steady(n), SteadyInv(n), Retrying(n)
    PROVE  w[n].pc \in {"generate", "write", "csr"} /\ Up /\ esec' = esec
<1>1. ~EsecApiError(n)
  BY DEF EsecApiError, Steady
<1>2. ~EsecConflict(n)
  <2>1. /\ w[n].pc = "update" => Len(esec[n]) = 1
        /\ w[n].pc = "status" => Latest(esec[n]) = w[n].obj
    BY DEF SteadyInv
  <2> SUFFICES ASSUME EsecConflict(n) PROVE FALSE
    OBVIOUS
  <2>2. \/ w[n].pc = "update" /\ Len(esec[n]) > 1
        \/ w[n].pc = "status" /\ Latest(esec[n]) # w[n].obj
    BY DEF EsecConflict
  <2>3. CASE w[n].pc = "update" /\ Len(esec[n]) > 1
    <3>1. Len(esec[n]) = 1
      BY <2>1, <2>3
    <3> QED BY <2>3, <3>1
  <2> QED BY <2>1, <2>2, <2>3
<1> QED
  BY <1>1, <1>2 DEF Retrying, EsecCANotReady, EsecWriteRefused, EsecCreateCsr

\* The rest of SteadyInv, about the worker and the queue.
SteadyWork(n) ==
    /\ Blank(w[n])
    /\ n \in queue \/ w[n].pc # "idle" => Cached(esec[n]) # NoEsec
    /\ n \in queue \/ w[n].pc \in {"generate", "write", "csr", "update"} => Len(esec[n]) = 1
    /\ w[n].pc = "status" => Latest(esec[n]) = w[n].obj
    /\ w[n].pc # "idle" => n \notin queue
    /\ operator = "down" => n \notin queue /\ w[n].pc = "idle"

LEMMA SteadyStep ==
    ASSUME TypeOK, NEW n \in Names, Steady(n), SteadyInv(n),
           EsecStep(n) \/ CsrStep(n) \/ SyncStep(n) \/ EnvStep(n)
    PROVE  SteadyInv(n)'
<1>0. /\ w \in [Names -> Worker] /\ w[n] \in Worker /\ Len(esec[n]) \in Nat \ {0}
      /\ Cached(esec[n]) = esec[n][1]
  BY Versions DEF TypeOK, Cached
<1>i. SteadyWork(n)
  BY DEF SteadyInv, SteadyWork
<1>e. Cached(esec[n]) # NoEsec => Cached(esec'[n]) # NoEsec
  BY SteadyEsec
<1>b. Blank(Idle)
  BY DEF Blank, Idle
<1>w. SteadyWork(n)'
  <2>1. CASE SyncEsec(n)
    <3>1. /\ Latest(esec'[n]) = Latest(esec[n]) /\ Cached(esec'[n]) = esec[n][2]
          /\ Len(esec[n]) > 1 /\ Len(esec'[n]) = Len(esec[n]) - 1
      BY <2>1, EsecSynced
    <3>2. w' = w /\ operator' = operator /\ operator = "running"
      BY <2>1 DEF SyncEsec, Up
    <3>3. n \notin queue /\ w[n].pc \in {"idle", "status"}
      BY <1>i, <1>0, <3>1 DEF SteadyWork, Worker
    <3>4. CASE n \notin queue'
      BY <1>i, <1>e, <3>1, <3>2, <3>3, <3>4 DEF SteadyWork
    <3>5. CASE n \in queue'
      <4>1. Blank(esec[n][1]) /\ Blank(esec[n][2]) /\ esec[n][2] # NoEsec
        BY <1>0, <3>1 DEF SteadyInv
      <4>2. SpecOf(esec[n][1]) = SpecOf(esec[n][2])
        BY <4>1 DEF Blank, SpecOf
      <4>3. Cached(esec[n]) = NoEsec
        BY <2>1, <3>3, <3>5, <4>2 DEF SyncEsec
      <4>4. Len(esec[n]) = 2
        <5>1. Len(esec[n]) \in {1, 2}
          BY <4>3 DEF SteadyInv
        <5> QED BY <1>0, <3>1, <5>1
      <4>5. w[n].pc = "idle"
        BY <1>i, <4>3 DEF SteadyWork
      <4> QED BY <1>i, <3>1, <3>2, <4>1, <4>4, <4>5 DEF SteadyWork
    <3> QED BY <3>4, <3>5
  <2>2. CASE EsecUpdate(n)
    <3>1. /\ w[n].pc = "update" /\ queue' = queue /\ operator' = operator /\ operator = "running"
          /\ Len(esec[n]) = 1 /\ n \notin queue
      BY <2>2, <1>i DEF EsecUpdate, SteadyWork, Up
    <3> DEFINE x == IF Mutated(n) = Cached(esec[n]) THEN Cached(esec[n])
                    ELSE [Mutated(n) EXCEPT !.version = @ + 1]
    <3>2. /\ esec' = IF x = Cached(esec[n]) THEN esec ELSE [esec EXCEPT ![n] = Append(esec[n], x)]
          /\ w' = [w EXCEPT ![n].pc = "status", ![n].obj = x]
      BY <2>2 DEF EsecUpdate
    <3>3. x \in Esec
      <4>1. w[n].rev \in Nat /\ w[n].completed \in BOOLEAN
        BY <1>0 DEF Worker
      <4>2. Mutated(n) \in Esec /\ Cached(esec[n]) \in Esec
        BY <4>1, Versions, EsecWrites DEF Mutated
      <4> QED BY <4>2, EsecWrites
    <3> HIDE DEF x
    <3>4. Latest(esec'[n]) = x
      <4>1. CASE x = Cached(esec[n])
        BY <1>0, <3>1, <3>2, <4>1 DEF Latest
      <4>2. CASE x # Cached(esec[n])
        <5>1. esec'[n] = Append(esec[n], x)
          BY <3>2, <4>2 DEF TypeOK
        <5> QED BY <5>1, <3>3, EsecWritten
      <4> QED BY <4>1, <4>2
    <3>5. /\ w'[n].pc = "status" /\ w'[n].obj = x
          /\ w'[n].rev = w[n].rev /\ w'[n].completed = w[n].completed
      BY <1>0, <3>2 DEF Worker
    <3>6. Blank(w'[n])
      BY <1>i, <3>5 DEF Blank, SteadyWork
    <3>7. Cached(esec'[n]) # NoEsec
      BY <1>i, <1>e, <3>1 DEF SteadyWork
    <3> QED BY <3>1, <3>4, <3>5, <3>6, <3>7 DEF SteadyWork
  <2>3. CASE EsecStatus(n)
    <3>1. w[n].pc = "status" /\ w' = [w EXCEPT ![n] = Idle] /\ queue' = queue
          /\ operator' = operator /\ operator = "running"
      BY <2>3 DEF EsecStatus, Up
    <3>2. n \notin queue /\ w'[n].pc = "idle" /\ Blank(w'[n])
      BY <1>0, <1>i, <1>b, <3>1 DEF SteadyWork, Idle
    <3> QED BY <3>1, <3>2 DEF SteadyWork
  <2>4. CASE EsecGet(n)
    <3>1. /\ n \in queue /\ w[n].pc = "idle" /\ queue' = queue \ {n} /\ esec' = esec
          /\ operator' = operator /\ operator = "running"
      BY <2>4 DEF EsecGet, Up
    <3>2. Len(esec[n]) = 1 /\ Cached(esec[n]) # NoEsec /\ n \notin queue'
      BY <1>i, <3>1 DEF SteadyWork
    <3>3. CASE CanBeGenerated(n)
      <4>1. w'[n] = [Idle EXCEPT !.pc = "generate", !.rev = Cached(esec[n]).rev,
                                 !.completed = Cached(esec[n]).completed]
        BY <1>0, <2>4, <3>3 DEF EsecGet
      <4>2. /\ w'[n].pc = "generate" /\ w'[n].rev = Cached(esec[n]).rev
            /\ w'[n].completed = Cached(esec[n]).completed
        BY <4>1 DEF Idle
      <4>3. Blank(Cached(esec[n]))
        BY <1>0, <3>2 DEF SteadyInv
      <4>4. Blank(w'[n])
        BY <4>2, <4>3 DEF Blank
      <4> QED BY <3>1, <3>2, <4>2, <4>4 DEF SteadyWork
    <3>4. CASE ~CanBeGenerated(n)
      <4>1. w' = w
        BY <2>4, <3>4 DEF EsecGet
      <4> QED BY <1>i, <3>1, <3>2, <4>1 DEF SteadyWork
    <3> QED BY <3>3, <3>4
  <2>5. CASE Retrying(n)
    <3>1. w[n].pc \in {"generate", "write", "csr"} /\ operator = "running" /\ esec' = esec
      BY <2>5, SteadyRetry DEF Up
    <3>2. w'[n] = Idle /\ operator' = operator
      <4>1. w' = [w EXCEPT ![n] = Idle]
        BY <2>5 DEF Retrying, EsecCANotReady, EsecWriteRefused, EsecConflict, EsecApiError,
                    EsecCreateCsr, Retry
      <4> QED BY <1>0, <4>1, QueueEffect
    <3>3. w'[n].pc = "idle" /\ Blank(w'[n])
      BY <1>b, <3>2 DEF Idle
    <3>4. Len(esec[n]) = 1 /\ Cached(esec[n]) # NoEsec
      BY <1>i, <3>1 DEF SteadyWork
    <3> QED BY <3>1, <3>2, <3>3, <3>4 DEF SteadyWork
  <2>6. CASE EsecGenerate(n)
    <3>1. w[n].pc = "generate" /\ queue' = queue /\ esec' = esec /\ operator' = operator
          /\ operator = "running"
      BY <2>6 DEF EsecGenerate, Up
    <3> DEFINE ca == IF Kind[n] = "leaf" THEN Cached(secret[CARef]).cert ELSE 0
               done == w[n].completed \/ n \in Completes
    <3>2. w' = [w EXCEPT ![n] = [w[n] EXCEPT !.pc = "write", !.completed = done,
                                             !.key = keys[n] + 1, !.ca = ca]]
      BY <2>6, <1>0 DEF EsecGenerate
    <3>3. done = FALSE
      <4>1. n \notin Completes /\ w[n].completed = FALSE
        BY <1>i DEF Steady, SteadyWork, Blank
      <4> QED BY <4>1
    <3> HIDE DEF ca, done
    <3>4. w'[n].pc = "write" /\ w'[n].completed = done /\ w'[n].rev = w[n].rev
      BY <1>0, <3>2 DEF Worker
    <3>5. Blank(w'[n])
      BY <1>i, <3>3, <3>4 DEF Blank, SteadyWork
    <3> QED BY <1>i, <3>1, <3>4, <3>5 DEF SteadyWork
  <2>7. CASE EsecWrite(n) \/ EsecWriteKey(n) \/ (EsecCreateCsr(n) /\ csr[n].stage = 0)
    <3>1. /\ w[n].pc \in {"write", "csr"} /\ queue' = queue /\ esec' = esec
          /\ operator' = operator /\ operator = "running"
      BY <2>7 DEF EsecWrite, EsecWriteKey, EsecCreateCsr, Up
    <3>2. w' = [w EXCEPT ![n].pc = "update"] \/ w' = [w EXCEPT ![n].pc = "csr"]
      BY <2>7 DEF EsecWrite, EsecWriteKey, EsecCreateCsr
    <3>3. w'[n].pc \in {"update", "csr"} /\ w'[n].rev = w[n].rev /\ w'[n].completed = w[n].completed
      BY <1>0, <3>2 DEF Worker
    <3>4. Blank(w'[n])
      BY <1>i, <3>3 DEF Blank, SteadyWork
    <3> QED BY <1>i, <3>1, <3>3, <3>4 DEF SteadyWork
  <2>8. CASE CsrStep(n) \/ SyncSecret(n) \/ SyncKeySecret(n) \/ SyncCsr(n)
             \/ ResyncCsr(n) \/ ClusterSigns(n) \/ UserProvides(n) \/ CsrApiError(n)
    <3>1. w' = w /\ esec' = esec /\ queue' = queue /\ operator' = operator
      BY <2>8 DEF CsrStep, CsrApprove, CsrGetKey, CsrCreateSecret, CsrCreateRefused, CsrDeleteKey,
         SyncSecret, SyncKeySecret, SyncCsr, ResyncCsr, ClusterSigns, UserProvides, CsrApiError
    <3> QED BY <1>i, <3>1 DEF SteadyWork
  <2>9. ~UserEdits(n) /\ ~EsecApiError(n)
    BY DEF UserEdits, EsecApiError, Steady
  <2> QED
    BY <2>1, <2>2, <2>3, <2>4, <2>5, <2>6, <2>7, <2>8, <2>9
       DEF EsecStep, SyncStep, EnvStep, Retrying
<1> QED
  BY <1>w, SteadyEsec DEF SteadyInv, SteadyWork

LEMMA SteadyFrame ==
    ASSUME NEW n, SteadyInv(n), Same(n)
    PROVE  SteadyInv(n)'
  BY DEF SteadyInv, Same

LEMMA SteadyCrash ==
    ASSUME TypeOK, Crash, NEW n \in Names, SteadyInv(n)
    PROVE  SteadyInv(n)'
<1>1. w'[n].pc = "idle" /\ Blank(w'[n]) /\ n \notin queue'
  BY DEF Crash, Idle, Blank
<1>2. esec' = esec
  BY DEF Crash
<1> QED
  BY <1>1, <1>2 DEF SteadyInv

LEMMA SteadyRestart ==
    ASSUME TypeOK, Restart, NEW n \in Names, SteadyInv(n)
    PROVE  SteadyInv(n)'
<1>1. operator = "down" /\ queue' = queue /\ w' = w
  BY DEF TypeOK, Restart, Up
<1>2. n \notin queue /\ w[n].pc = "idle" /\ Blank(w[n])
  BY <1>1 DEF SteadyInv
<1>3. Blank(NoEsec) /\ NoEsec \in Esec /\ Latest(esec[n]) \in Esec
  BY Records, Versions DEF Blank, NoEsec
<1>4. Blank(Latest(esec[n]))
  BY Versions DEF SteadyInv, Latest
<1>5. /\ \A i \in 1..Len(esec'[n]) : Blank(esec'[n][i])
      /\ \A i \in 2..Len(esec'[n]) : esec'[n][i] # NoEsec
      /\ Len(esec'[n]) \in {1, 2}
  <2>1. CASE Latest(esec[n]) = NoEsec
    <3>1. esec'[n] = <<NoEsec>> /\ Len(<<NoEsec>>) = 1 /\ <<NoEsec>>[1] = NoEsec
      BY <2>1, RestartVersions
    <3> QED BY <1>3, <3>1
  <2>2. CASE Latest(esec[n]) # NoEsec
    <3> DEFINE s == <<NoEsec, Latest(esec[n])>>
    <3>1. Len(s) = 2 /\ s[1] = NoEsec /\ s[2] = Latest(esec[n])
      OBVIOUS
    <3>2. esec'[n] = s
      BY <2>2, RestartVersions
    <3> HIDE DEF s
    <3>3. \A i \in 1..2 : i = 1 \/ i = 2
      OBVIOUS
    <3>4. \A i \in 1..2 : Blank(s[i])
      BY <1>3, <1>4, <3>1, <3>3
    <3>5. \A i \in 2..2 : s[i] # NoEsec
      BY <2>2, <3>1
    <3> QED BY <3>1, <3>2, <3>4, <3>5
  <2> QED BY <2>1, <2>2
<1> QED
  BY <1>1, <1>2, <1>5 DEF SteadyInv

LEMMA SteadyInit == Init => \A n \in Names : SteadyInv(n)
<1> SUFFICES ASSUME Init, NEW n \in Names PROVE SteadyInv(n)
  OBVIOUS
<1> DEFINE first == [NoEsec EXCEPT !.version = 1]
           pair == <<NoEsec, first>>
<1>1. esec[n] = <<NoEsec>> \/ esec[n] = pair
  BY DEF Init
<1>2. Blank(NoEsec) /\ Blank(first) /\ first # NoEsec
  <2>1. first.version = 1 /\ NoEsec.version = 0 /\ first.rev = 0 /\ first.completed = FALSE
    BY DEF NoEsec
  <2> QED BY <2>1 DEF Blank, NoEsec
<1>3. Len(<<NoEsec>>) = 1 /\ <<NoEsec>>[1] = NoEsec
  OBVIOUS
<1>4. Len(pair) = 2 /\ pair[1] = NoEsec /\ pair[2] = first
  OBVIOUS
<1>5. w[n].pc = "idle" /\ Blank(w[n]) /\ n \notin queue
  BY DEF Init, Idle, Blank
<1> HIDE DEF first, pair
<1>6. /\ \A i \in 1..Len(esec[n]) : Blank(esec[n][i])
      /\ \A i \in 2..Len(esec[n]) : esec[n][i] # NoEsec
      /\ Len(esec[n]) \in {1, 2}
  <2>1. CASE esec[n] = <<NoEsec>>
    BY <2>1, <1>2, <1>3
  <2>2. CASE esec[n] = pair
    <3>1. \A i \in 1..2 : i = 1 \/ i = 2
      OBVIOUS
    <3>2. \A i \in 1..2 : Blank(pair[i])
      BY <1>2, <1>4, <3>1
    <3>3. \A i \in 2..2 : pair[i] # NoEsec
      BY <1>2, <1>4
    <3> QED BY <2>2, <1>4, <3>2, <3>3
  <2> QED BY <1>1, <2>1, <2>2
<1>7. operator = "running"
  BY DEF Init
<1> QED
  BY <1>5, <1>6, <1>7 DEF SteadyInv

\* SteadyInv holds of every name that nothing but the controllers touches.
THEOREM SteadyInvariant == Spec => [](\A n \in Names : Steady(n) => SteadyInv(n))
<1> DEFINE Inv == \A n \in Names : Steady(n) => SteadyInv(n)
<1>1. Init => Inv
  BY SteadyInit
<1>2. TypeOK /\ Inv /\ [Next]_vars => Inv'
  <2> SUFFICES ASSUME TypeOK, Inv, [Next]_vars, NEW n \in Names, Steady(n)
               PROVE  SteadyInv(n)'
    BY DEF Steady
  <2>0. SteadyInv(n)
    OBVIOUS
  <2>1. CASE UNCHANGED vars
    BY <2>0, <2>1, SteadyFrame DEF vars, Same
  <2>2. ASSUME NEW m \in Names, EsecStep(m) \/ CsrStep(m) \/ SyncStep(m) \/ EnvStep(m)
        PROVE  SteadyInv(n)'
    <3>1. CASE m = n
      BY <2>0, <2>2, <3>1, SteadyStep
    <3>2. CASE m # n
      BY <2>0, <2>2, <3>2, Frame, SteadyFrame
    <3> QED BY <3>1, <3>2
  <2> QED
    BY <2>0, <2>1, <2>2, SteadyCrash, SteadyRestart DEF Next
<1> QED
  BY <1>1, <1>2, TypeCorrect, PTL DEF Spec

-----------------------------------------------------------------------------
(***************************************************************************)
(* Names that the cluster does not sign: generated once.                   *)
(***************************************************************************)
LEMMA LocalStep ==
    ASSUME TypeOK, NEW n \in Names, Kind[n] # "csr", LocalInv(n),
           EsecStep(n) \/ CsrStep(n) \/ SyncStep(n) \/ EnvStep(n)
    PROVE  LocalInv(n)'
<1>0. w[n] \in Worker /\ csr[n].stage = 0 /\ seenCsr[n] = 0 /\ c[n].pc = "idle" /\ w[n].pc # "csr"
  BY DEF TypeOK, LocalInv
<1>1. csr'[n] = csr[n]
  <2>1. ~EsecCreateCsr(n)
    BY <1>0 DEF EsecCreateCsr
  <2> QED BY <1>0, <2>1, CsrEffect
<1>2. c'[n].pc = "idle" /\ seenCsr'[n] = 0
  <2>1. ~CsrGetKey(n) /\ ~CsrCreateSecret(n)
    BY <1>0 DEF CsrGetKey, CsrCreateSecret
  <2> QED BY <1>0, <2>1, CsrWorkerEffect DEF CsrIdle
<1>3. w'[n].pc # "csr"
  <2>1. ~EsecWriteKey(n)
    BY DEF EsecWriteKey
  <2>2. w'[n] = [w[n] EXCEPT !.pc = "update"] => w'[n].pc = "update"
    BY <1>0 DEF Worker
  <2>3. Idle.pc = "idle"
    BY DEF Idle
  <2> QED BY <1>0, <2>1, <2>2, <2>3, WorkerEffect
<1> QED
  BY <1>0, <1>1, <1>2, <1>3 DEF LocalInv

\* A password, key, CA or leaf has no request, in the API or in the cache.
THEOREM LocalInvariant == Spec => [](\A n \in Names : Kind[n] # "csr" => LocalInv(n))
<1> DEFINE Inv == \A n \in Names : Kind[n] # "csr" => LocalInv(n)
<1>1. Init => Inv
  BY DEF Init, LocalInv, NoCsr, Idle, CsrIdle
<1>2. TypeOK /\ Inv /\ [Next]_vars => Inv'
  <2> SUFFICES ASSUME TypeOK, Inv, [Next]_vars, NEW n \in Names, Kind[n] # "csr"
               PROVE  LocalInv(n)'
    OBVIOUS
  <2>0. LocalInv(n)
    OBVIOUS
  <2>1. CASE UNCHANGED vars
    BY <2>0, <2>1 DEF vars, LocalInv
  <2>2. ASSUME NEW m \in Names, EsecStep(m) \/ CsrStep(m) \/ SyncStep(m) \/ EnvStep(m)
        PROVE  LocalInv(n)'
    <3>1. CASE m = n
      BY <2>0, <2>2, <3>1, LocalStep
    <3>2. CASE m # n
      BY <2>0, <2>2, <3>2, Frame DEF Same, LocalInv
    <3> QED BY <3>1, <3>2
  <2>3. CASE Crash
    BY <2>0, <2>3 DEF Crash, LocalInv, Idle, CsrIdle
  <2>4. CASE Restart
    <3>1. seenCsr'[n] = csr[n].stage /\ w'[n] = w[n] /\ c'[n] = c[n] /\ csr'[n] = csr[n]
      BY <2>4 DEF Restart
    <3> QED BY <2>0, <3>1 DEF LocalInv
  <2> QED
    BY <2>1, <2>2, <2>3, <2>4 DEF Next
<1> QED
  BY <1>1, <1>2, TypeCorrect, PTL DEF Spec

\* Once generated, no step of the controllers starts again: the create event of a
\* restart finds the Secret, and no update event passes the predicate.
LEMMA OnceQuiet ==
    ASSUME TypeOK, NEW n \in Names, Steady(n), SteadyInv(n), OnceInv(n),
           Latest(secret[n]).kind = "generated",
           EsecStep(n) \/ CsrStep(n) \/ SyncStep(n) \/ EnvStep(n)
    PROVE  /\ n \notin queue' /\ w'[n].pc \in {"idle", "update", "status"}
           /\ ~EsecWrite(n)
<1>0. /\ n \notin queue /\ w[n].pc \in {"idle", "update", "status"}
      /\ Cached(esec[n]) = NoEsec => \A i \in 1..Len(secret[n]) : secret[n][i].kind = "generated"
  BY DEF OnceInv
<1>1. n \notin queue'
  <2>1. ~EsecGet(n)
    BY <1>0 DEF EsecGet
  <2>2. ~Retrying(n)
    BY <1>0, SteadyRetry
  <2>3. ASSUME SyncEsec(n) PROVE SpecOf(esec[n][1]) = SpecOf(esec[n][2])
    <3>1. Len(esec[n]) \in Nat /\ Len(esec[n]) > 1
      BY <2>3, EsecSynced
    <3>2. Blank(esec[n][1]) /\ Blank(esec[n][2])
      BY <3>1 DEF SteadyInv
    <3> QED BY <3>2 DEF Blank, SpecOf
  <2>4. Cached(esec[n]) = NoEsec => ~CreatePredicate(n)
    <3>1. Cached(secret[n]) = secret[n][1] /\ Len(secret[n]) \in Nat \ {0}
      BY Versions DEF Cached
    <3> QED BY <1>0, <3>1 DEF CreatePredicate
  <2> QED BY <1>0, <2>1, <2>2, <2>3, <2>4, QueueEffect
<1>2. w'[n].pc \in {"idle", "update", "status"} /\ ~EsecWrite(n)
  <2>1. /\ ~EsecGet(n) /\ ~EsecGenerate(n) /\ ~EsecWrite(n) /\ ~EsecWriteKey(n)
        /\ ~EsecCreateCsr(n)
    BY <1>0 DEF EsecGet, EsecGenerate, EsecWrite, EsecWriteKey, EsecCreateCsr
  <2>2. Idle.pc = "idle"
    BY DEF Idle
  <2> QED BY <1>0, <2>1, <2>2, WorkerEffect
<1> QED
  BY <1>1, <1>2

LEMMA OnceStep ==
    ASSUME TypeOK, NEW n \in Names, Kind[n] # "csr", Steady(n), SteadyInv(n), LocalInv(n),
           OnceInv(n), EsecStep(n) \/ CsrStep(n) \/ SyncStep(n) \/ EnvStep(n)
    PROVE  OnceInv(n)'
<1> SUFFICES ASSUME Latest(secret'[n]).kind = "generated"
             PROVE  /\ n \notin queue' /\ w'[n].pc \in {"idle", "update", "status"}
                    /\ Cached(esec'[n]) = NoEsec =>
                          \A i \in 1..Len(secret'[n]) : secret'[n][i].kind = "generated"
  BY DEF OnceInv
<1>0. Cached(esec'[n]) = NoEsec => Cached(esec[n]) = NoEsec
  BY SteadyEsec
<1>1. CASE secret'[n] = secret[n]
  BY <1>0, <1>1, OnceQuiet DEF OnceInv
<1>2. CASE SyncSecret(n)
  <2>1. /\ Latest(secret'[n]) = Latest(secret[n]) /\ Len(secret[n]) \in Nat
        /\ Len(secret'[n]) = Len(secret[n]) - 1
        /\ \A i \in 1..Len(secret'[n]) : secret'[n][i] = secret[n][i + 1]
    BY <1>2, SecretSynced
  <2>2. n \notin queue' /\ w'[n].pc \in {"idle", "update", "status"}
    BY <2>1, OnceQuiet
  <2>3. ASSUME Cached(esec'[n]) = NoEsec
        PROVE  \A i \in 1..Len(secret'[n]) : secret'[n][i].kind = "generated"
    <3>1. \A i \in 1..Len(secret[n]) : secret[n][i].kind = "generated"
      BY <1>0, <2>1, <2>3 DEF OnceInv
    <3> QED BY <2>1, <3>1
  <2> QED BY <2>2, <2>3
<1>3. CASE EsecWrite(n)
  <2>1. w[n].pc = "write" /\ queue' = queue /\ esec' = esec /\ w' = [w EXCEPT ![n].pc = "update"]
    BY <1>3 DEF EsecWrite
  <2>2. w'[n].pc = "update"
    BY <2>1 DEF TypeOK, Worker
  <2>3. n \notin queue /\ Cached(esec[n]) # NoEsec
    BY <2>1 DEF SteadyInv
  <2> QED BY <2>1, <2>2, <2>3
<1>4. ~CsrCreateSecret(n)
  BY DEF CsrCreateSecret, LocalInv
<1>5. ASSUME NEW x \in Secret, x.kind = "user", secret'[n] = Append(secret[n], x)
      PROVE  FALSE
  BY <1>5, SecretWritten
<1> QED
  BY <1>1, <1>2, <1>3, <1>4, <1>5, SecretEffect

\* OnceInv holds of every steady name that the cluster does not sign.
THEOREM OnceInvariant ==
    Spec => [](\A n \in Names : Kind[n] # "csr" /\ Steady(n) => OnceInv(n))
<1> DEFINE Inv == \A n \in Names : Kind[n] # "csr" /\ Steady(n) => OnceInv(n)
           LInv == \A n \in Names : Kind[n] # "csr" => LocalInv(n)
           SInv == \A n \in Names : Steady(n) => SteadyInv(n)
<1>1. Init => Inv
  BY DEF Init, OnceInv, NoSecret, Latest
<1>2. TypeOK /\ LInv /\ SInv /\ Inv /\ [Next]_vars => Inv'
  <2> SUFFICES ASSUME TypeOK, LInv, SInv, Inv, [Next]_vars,
                      NEW n \in Names, Kind[n] # "csr", Steady(n)
               PROVE  OnceInv(n)'
    BY DEF Steady
  <2>0. OnceInv(n) /\ SteadyInv(n) /\ LocalInv(n)
    OBVIOUS
  <2>1. CASE UNCHANGED vars
    BY <2>0, <2>1 DEF vars, OnceInv
  <2>2. ASSUME NEW m \in Names, EsecStep(m) \/ CsrStep(m) \/ SyncStep(m) \/ EnvStep(m)
        PROVE  OnceInv(n)'
    <3>1. CASE m = n
      BY <2>0, <2>2, <3>1, OnceStep
    <3>2. CASE m # n
      BY <2>0, <2>2, <3>2, Frame DEF Same, OnceInv
    <3> QED BY <3>1, <3>2
  <2>3. CASE Crash
    BY <2>0, <2>3 DEF Crash, OnceInv, Idle
  <2>4. CASE Restart
    <3>1. /\ Latest(secret'[n]) = Latest(secret[n]) /\ Len(secret'[n]) = 1
          /\ secret'[n][1] = Latest(secret[n]) /\ w'[n] = w[n]
      BY <2>4, RestartKeeps
    <3>2. queue' = queue
      BY <2>4 DEF Restart
    <3> QED BY <2>0, <3>1, <3>2 DEF OnceInv
  <2> QED
    BY <2>1, <2>2, <2>3, <2>4 DEF Next
<1> QED
  BY <1>1, <1>2, TypeCorrect, LocalInvariant, SteadyInvariant, PTL DEF Spec

\* Nothing rotates a credential whose spec no reconcile completes and no user
\* edits, and whose reconcile meets no error: of these three it takes one (see the
\* run esec_stale), a crash, a restart or a stale cache do not do it.
THEOREM GeneratedOnce ==
    ASSUME \A n \in Names : Kind[n] # "csr" => Steady(n)
    PROVE  Spec => GeneratedIsFinal
<1> DEFINE Inv == \A n \in Names : Kind[n] # "csr" /\ Steady(n) => OnceInv(n)
           SInv == \A n \in Names : Steady(n) => SteadyInv(n)
<1>1. TypeOK /\ SInv /\ Inv /\ [Next]_vars =>
        [\A n \in Names : Latest(esec[n]).generated /\ Latest(secret[n]).kind = "generated"
            => Latest(secret'[n]) = Latest(secret[n])]_vars
  <2> SUFFICES ASSUME TypeOK, SInv, Inv, Next, NEW n \in Names,
                      Latest(secret[n]).kind = "generated"
               PROVE  Latest(secret'[n]) = Latest(secret[n])
    OBVIOUS
  <2>1. ASSUME NEW m \in Names, EsecStep(m) \/ CsrStep(m) \/ SyncStep(m) \/ EnvStep(m)
        PROVE  Latest(secret'[n]) = Latest(secret[n])
    <3>1. CASE m # n
      BY <2>1, <3>1, Frame DEF Same
    <3>2. CASE m = n
      <4>1. ~EsecWrite(n)
        <5>1. CASE Kind[n] = "csr"
          BY <5>1 DEF EsecWrite
        <5>2. CASE Kind[n] # "csr"
          BY <2>1, <3>2, <5>2, OnceQuiet
        <5> QED BY <5>1, <5>2
      <4>2. ~UserProvides(n)
        BY DEF UserProvides
      <4>3. secret'[n] = secret[n] \/ SyncSecret(n)
        BY <2>1, <3>2, <4>1, <4>2, SecretEffect
      <4> QED BY <4>3, SecretSynced
    <3> QED BY <3>1, <3>2
  <2>2. CASE Crash
    BY <2>2 DEF Crash
  <2>3. CASE Restart
    BY <2>3, RestartKeeps
  <2> QED
    BY <2>1, <2>2, <2>3 DEF Next
<1> QED
  BY <1>1, TypeCorrect, SteadyInvariant, OnceInvariant, PTL DEF Spec, GeneratedIsFinal

-----------------------------------------------------------------------------
(***************************************************************************)
(* The chain: a leaf is signed by the CA that is stored.                   *)
(***************************************************************************)

\* The CA is a steady certificate of its own, and not a Secret of the user's.
QuietCA == Kind[CARef] = "ca" /\ Steady(CARef) /\ CARef \notin MayProvide

\* The CA's part of the argument: one Secret, written once.
CAFacts ==
    /\ SteadyInv(CARef) /\ LocalInv(CARef) /\ OnceInv(CARef) /\ CAInv

\* The Secret of the CA never changes once it is generated.
LEMMA CAFixed ==
    ASSUME TypeOK, QuietCA, CAFacts, [Next]_vars, Latest(secret[CARef]).kind = "generated"
    PROVE  Latest(secret'[CARef]) = Latest(secret[CARef])
<1>0. CARef \in Names /\ Steady(CARef) /\ SteadyInv(CARef) /\ OnceInv(CARef)
  BY ConstantsAssumption DEF CAFacts, QuietCA
<1>1. ASSUME NEW m \in Names, EsecStep(m) \/ CsrStep(m) \/ SyncStep(m) \/ EnvStep(m)
      PROVE  Latest(secret'[CARef]) = Latest(secret[CARef])
  <2>1. CASE m # CARef
    BY <1>0, <1>1, <2>1, Frame DEF Same
  <2>2. CASE m = CARef
    <3>1. ~EsecWrite(CARef)
      BY <1>0, <1>1, <2>2, OnceQuiet
    <3>2. ~UserProvides(CARef)
      BY DEF UserProvides, QuietCA
    <3>3. secret'[CARef] = secret[CARef] \/ SyncSecret(CARef)
      BY <1>0, <1>1, <2>2, <3>1, <3>2, SecretEffect
    <3> QED BY <1>0, <3>3, SecretSynced
  <2> QED BY <2>1, <2>2
<1>2. CASE Crash
  BY <1>2 DEF Crash
<1>3. CASE Restart
  BY <1>0, <1>3, RestartKeeps
<1>4. CASE UNCHANGED vars
  BY <1>4 DEF vars
<1> QED
  BY <1>1, <1>2, <1>3, <1>4 DEF Next

LEMMA CAStep ==
    ASSUME TypeOK, QuietCA, CAFacts, [Next]_vars
    PROVE  CAInv'
<1>0. CARef \in Names /\ Steady(CARef) /\ SteadyInv(CARef) /\ OnceInv(CARef) /\ LocalInv(CARef)
  BY ConstantsAssumption DEF CAFacts, QuietCA
<1>i. /\ Len(secret[CARef]) \in Nat \ {0}
      /\ \A i \in 1..Len(secret[CARef]) :
            \/ secret[CARef][i].kind = "none"
            \/ secret[CARef][i].kind = "generated" /\ secret[CARef][i] = Latest(secret[CARef])
  BY <1>0, Versions DEF CAFacts, CAInv
<1>1. ASSUME NEW m \in Names, EsecStep(m) \/ CsrStep(m) \/ SyncStep(m) \/ EnvStep(m)
      PROVE  CAInv'
  <2>1. CASE m # CARef
    BY <1>0, <1>i, <1>1, <2>1, Frame DEF Same, CAInv
  <2>2. CASE m = CARef
    <3>1. CASE secret'[CARef] = secret[CARef]
      BY <1>i, <3>1 DEF CAInv
    <3>2. CASE SyncSecret(CARef)
      <4>1. /\ Latest(secret'[CARef]) = Latest(secret[CARef])
            /\ Len(secret'[CARef]) = Len(secret[CARef]) - 1
            /\ \A i \in 1..Len(secret'[CARef]) : secret'[CARef][i] = secret[CARef][i + 1]
        BY <1>0, <3>2, SecretSynced
      <4> QED BY <1>i, <4>1 DEF CAInv
    <3>3. ASSUME EsecWrite(CARef), NEW x \in Secret, x.kind = "generated",
                 secret'[CARef] = Append(secret[CARef], x)
          PROVE  CAInv'
      <4>1. Latest(secret[CARef]).kind # "generated"
        BY <1>0, <3>3 DEF OnceInv, EsecWrite
      <4>2. \A i \in 1..Len(secret[CARef]) : secret[CARef][i].kind = "none"
        BY <1>i, <4>1
      <4>3. /\ Latest(secret'[CARef]) = x /\ Len(secret'[CARef]) = Len(secret[CARef]) + 1
            /\ secret'[CARef][Len(secret[CARef]) + 1] = x
            /\ \A i \in 1..Len(secret[CARef]) : secret'[CARef][i] = secret[CARef][i]
        BY <1>0, <3>3, SecretWritten
      <4> QED BY <1>i, <3>3, <4>2, <4>3 DEF CAInv
    <3>4. ~UserProvides(CARef) /\ ~CsrCreateSecret(CARef)
      BY <1>0 DEF UserProvides, QuietCA, CsrCreateSecret, LocalInv
    <3> QED BY <1>0, <1>1, <2>2, <3>1, <3>2, <3>3, <3>4, SecretEffect
  <2> QED BY <2>1, <2>2
<1>2. CASE Crash
  BY <1>i, <1>2 DEF Crash, CAInv
<1>3. CASE Restart
  <2>1. /\ Latest(secret'[CARef]) = Latest(secret[CARef]) /\ Len(secret'[CARef]) = 1
        /\ secret'[CARef][1] = Latest(secret[CARef])
    BY <1>0, <1>3, RestartKeeps
  <2>2. Latest(secret[CARef]).kind \in {"none", "generated"}
    BY <1>i DEF Latest
  <2> QED BY <2>1, <2>2 DEF CAInv
<1>4. CASE UNCHANGED vars
  BY <1>i, <1>4 DEF vars, CAInv
<1> QED
  BY <1>1, <1>2, <1>3, <1>4 DEF Next

LEMMA ChainStep ==
    ASSUME TypeOK, QuietCA, CAFacts, [Next]_vars, NEW n \in Names, Kind[n] = "leaf",
           LocalInv(n), ChainInv(n)
    PROVE  ChainInv(n)'
<1>0. CARef \in Names /\ n # CARef /\ w[n] \in Worker
  BY ConstantsAssumption DEF QuietCA, TypeOK
<1>i. /\ w[n].pc = "write" => /\ Latest(secret[CARef]).kind = "generated"
                              /\ w[n].ca = Latest(secret[CARef]).cert
      /\ Latest(secret[n]).kind = "generated" =>
            /\ Latest(secret[CARef]).kind = "generated"
            /\ Latest(secret[n]).ca = Latest(secret[CARef]).cert
  BY DEF ChainInv
<1>f. Latest(secret[CARef]).kind = "generated" =>
        Latest(secret'[CARef]) = Latest(secret[CARef])
  BY CAFixed
<1>1. ASSUME NEW m \in Names, EsecStep(m) \/ CsrStep(m) \/ SyncStep(m) \/ EnvStep(m)
      PROVE  ChainInv(n)'
  <2>1. CASE m # n
    BY <1>i, <1>f, <1>1, <2>1, Frame DEF Same, ChainInv
  <2>2. CASE m = n
    <3>1. Latest(secret'[n]).kind = "generated" =>
             /\ Latest(secret[CARef]).kind = "generated"
             /\ Latest(secret'[n]).ca = Latest(secret[CARef]).cert
      <4>1. CASE secret'[n] = secret[n]
        BY <1>i, <4>1
      <4>2. CASE SyncSecret(n)
        BY <1>i, <4>2, SecretSynced
      <4>3. ASSUME EsecWrite(n), NEW x \in Secret, x.ca = w[n].ca,
                   secret'[n] = Append(secret[n], x)
            PROVE  /\ Latest(secret[CARef]).kind = "generated"
                   /\ Latest(secret'[n]).ca = Latest(secret[CARef]).cert
        <5>1. w[n].pc = "write"
          BY <4>3 DEF EsecWrite
        <5> QED BY <1>i, <4>3, <5>1, SecretWritten
      <4>4. ~CsrCreateSecret(n)
        BY DEF CsrCreateSecret, LocalInv
      <4>5. ASSUME NEW x \in Secret, x.kind = "user", secret'[n] = Append(secret[n], x)
            PROVE  Latest(secret'[n]).kind # "generated"
        BY <4>5, SecretWritten
      <4> QED BY <1>1, <2>2, <4>1, <4>2, <4>3, <4>4, <4>5, SecretEffect
    <3>2. w'[n].pc = "write" => /\ Latest(secret[CARef]).kind = "generated"
                                /\ w'[n].ca = Latest(secret[CARef]).cert
      <4>1. CASE w'[n] = w[n]
        BY <1>i, <4>1
      <4>2. CASE EsecGenerate(n) /\ w'[n].ca = Cached(secret[CARef]).cert
        <5>1. Cached(secret[CARef]).kind # "none"
          BY <4>2 DEF EsecGenerate, CAReady
        <5>2. Cached(secret[CARef]) = secret[CARef][1] /\ Len(secret[CARef]) \in Nat \ {0}
          BY <1>0, Versions DEF Cached
        <5>3. secret[CARef][1].kind = "generated" /\ secret[CARef][1] = Latest(secret[CARef])
          BY <5>1, <5>2 DEF CAFacts, CAInv
        <5> QED BY <4>2, <5>2, <5>3
      <4>3. /\ w'[n] = [w[n] EXCEPT !.pc = "update"] => w'[n].pc # "write"
            /\ w'[n] = [w[n] EXCEPT !.pc = "csr"] => w'[n].pc # "write"
            /\ w'[n] = Idle => w'[n].pc # "write"
        BY <1>0 DEF Worker, Idle
      <4> QED BY <1>1, <2>2, <4>1, <4>2, <4>3, WorkerEffect
    <3>3. Latest(secret'[CARef]) = Latest(secret[CARef])
      BY <1>0, <1>1, <2>2, Frame DEF Same
    <3> QED BY <3>1, <3>2, <3>3 DEF ChainInv
  <2> QED BY <2>1, <2>2
<1>2. CASE Crash
  <2>1. w'[n].pc # "write" /\ secret' = secret
    BY <1>2 DEF Crash, Idle
  <2> QED BY <1>i, <2>1 DEF ChainInv
<1>3. CASE Restart
  <2>1. /\ Latest(secret'[n]) = Latest(secret[n]) /\ w'[n] = w[n]
        /\ Latest(secret'[CARef]) = Latest(secret[CARef])
    BY <1>0, <1>3, RestartKeeps
  <2> QED BY <1>i, <2>1 DEF ChainInv
<1>4. CASE UNCHANGED vars
  BY <1>i, <1>4 DEF vars, ChainInv
<1> QED
  BY <1>1, <1>2, <1>3, <1>4 DEF Next

\* A leaf is never left signed by another CA than the one that is stored, although
\* its reconcile reads the CA from a cache and runs beside the CA's own, and
\* although the leaf itself is edited, retried and generated again at will: as
\* long as nothing disturbs the reconcile of the CA.
THEOREM ChainIsKept ==
    ASSUME QuietCA
    PROVE  Spec => []ChainMatches
<1> DEFINE OInv == \A n \in Names : Kind[n] # "csr" /\ Steady(n) => OnceInv(n)
           LInv == \A n \in Names : Kind[n] # "csr" => LocalInv(n)
           SInv == \A n \in Names : Steady(n) => SteadyInv(n)
           Inv == CAInv /\ \A n \in Names : Kind[n] = "leaf" => ChainInv(n)
<1>1. Init => Inv
  BY ConstantsAssumption DEF Init, CAInv, ChainInv, NoSecret, Idle, Latest
<1>2. TypeOK /\ OInv /\ LInv /\ SInv /\ Inv /\ [Next]_vars => Inv'
  <2> SUFFICES ASSUME TypeOK, OInv, LInv, SInv, Inv, [Next]_vars
               PROVE  Inv'
    OBVIOUS
  <2>1. CAFacts
    <3>1. CARef \in Names /\ Kind[CARef] # "csr" /\ Steady(CARef)
      BY ConstantsAssumption DEF QuietCA
    <3> QED BY <3>1 DEF CAFacts
  <2>2. CAInv'
    BY <2>1, CAStep
  <2>3. ASSUME NEW n \in Names, Kind[n] = "leaf" PROVE ChainInv(n)'
    <3>1. LocalInv(n) /\ ChainInv(n)
      BY <2>3
    <3> QED BY <2>1, <2>3, <3>1, ChainStep
  <2> QED BY <2>2, <2>3
<1>3. Inv => ChainMatches
  BY DEF ChainInv, ChainMatches
<1> QED
  BY <1>1, <1>2, <1>3, TypeCorrect, OnceInvariant, LocalInvariant, SteadyInvariant, PTL DEF Spec

-----------------------------------------------------------------------------
(***************************************************************************)
(* Certificate and key.                                                    *)
(***************************************************************************)

\* A private key is written: the first, for a request that does not exist yet.
LEMMA OneKeyWritten ==
    ASSUME TypeOK, NEW n \in Names, SteadyInv(n), ThereInv(n), OneKeyInv(n),
           Latest(secret[n]).kind = "none", EsecWriteKey(n)
    PROVE  OneKeyInv(n)'
<1>0. w[n] \in Worker /\ w \in [Names -> Worker] /\ keySecret \in [Names -> Seq(Nat)]
  BY DEF TypeOK
<1>1. /\ w[n].pc = "write" /\ queue' = queue /\ esec' = esec /\ csr' = csr /\ c' = c
      /\ seenCsr' = seenCsr /\ secret' = secret
      /\ keySecret' = [keySecret EXCEPT ![n] = Append(keySecret[n], w[n].key)]
      /\ w' = [w EXCEPT ![n].pc = "csr"]
  BY DEF EsecWriteKey
<1>2. w[n].key \in Nat /\ w[n].key # 0 /\ keySecret'[n] = Append(keySecret[n], w[n].key)
  BY <1>0, <1>1 DEF ThereInv, Worker
<1>3. n \notin queue /\ Cached(esec[n]) # NoEsec
  BY <1>1 DEF SteadyInv
<1>4. w'[n].pc = "csr" /\ w'[n].key = w[n].key
  BY <1>0, <1>1 DEF Worker
<1>5. /\ csr[n].stage = 0 /\ \A i \in 1..Len(keySecret[n]) : keySecret[n][i] = 0
      /\ seenCsr[n] <= csr[n].stage
      /\ c[n].pc # "create"
  BY <1>1 DEF OneKeyInv
<1>6. /\ Latest(keySecret'[n]) = w[n].key /\ Len(keySecret[n]) \in Nat
      /\ Len(keySecret'[n]) = Len(keySecret[n]) + 1
      /\ keySecret'[n][Len(keySecret[n]) + 1] = w[n].key
      /\ \A i \in 1..Len(keySecret[n]) : keySecret'[n][i] = keySecret[n][i]
  BY <1>2, KeyWritten
<1>7. \A i \in 1..Len(keySecret'[n]) : keySecret'[n][i] # 0 => keySecret'[n][i] = w[n].key
  BY <1>5, <1>6
<1> QED
  BY <1>1, <1>3, <1>4, <1>5, <1>6, <1>7 DEF OneKeyInv

\* Any other step leaves the only key there is.
LEMMA OneKeyLeft ==
    ASSUME TypeOK, NEW n \in Names, ThereInv(n), OneKeyInv(n),
           Latest(secret[n]).kind = "none", ~EsecWriteKey(n),
           EsecStep(n) \/ CsrStep(n) \/ SyncStep(n) \/ EnvStep(n)
    PROVE  /\ Latest(keySecret'[n]) = Latest(keySecret[n])
           /\ \A i \in 1..Len(keySecret'[n]) :
                 keySecret'[n][i] # 0 => keySecret'[n][i] = Latest(keySecret'[n])
           /\ (\A i \in 1..Len(keySecret[n]) : keySecret[n][i] = 0) =>
                 \A i \in 1..Len(keySecret'[n]) : keySecret'[n][i] = 0
           /\ (\A i \in 1..Len(keySecret[n]) : keySecret[n][i] # 0) =>
                 \A i \in 1..Len(keySecret'[n]) : keySecret'[n][i] # 0
<1>0. \A i \in 1..Len(keySecret[n]) : keySecret[n][i] # 0 => keySecret[n][i] = Latest(keySecret[n])
  BY DEF OneKeyInv
<1>1. CASE keySecret'[n] = keySecret[n]
  BY <1>0, <1>1
<1>2. CASE SyncKeySecret(n)
  <2>1. /\ Latest(keySecret'[n]) = Latest(keySecret[n]) /\ Len(keySecret[n]) \in Nat
        /\ Len(keySecret'[n]) = Len(keySecret[n]) - 1
        /\ \A i \in 1..Len(keySecret'[n]) : keySecret'[n][i] = keySecret[n][i + 1]
    BY <1>2, KeySynced
  <2> QED BY <1>0, <2>1
<1>3. c[n].pc # "delete"
  BY DEF ThereInv
<1> QED
  BY <1>1, <1>2, <1>3, KeyEffect

LEMMA OneKeyStep ==
    ASSUME TypeOK, NEW n \in Names, Kind[n] = "csr", Steady(n), SteadyInv(n), ThereInv(n),
           OneKeyInv(n), EsecStep(n) \/ CsrStep(n) \/ SyncStep(n) \/ EnvStep(n)
    PROVE  OneKeyInv(n)'
<1> SUFFICES ASSUME Latest(secret'[n]).kind = "none", ~EsecWriteKey(n)
             PROVE  OneKeyInv(n)'
  <2>1. CASE Latest(secret'[n]).kind # "none"
    BY <2>1 DEF OneKeyInv
  <2>2. CASE EsecWriteKey(n) /\ Latest(secret'[n]).kind = "none"
    BY <2>2, SecretStays, OneKeyWritten
  <2> QED BY <2>1, <2>2
<1>0. Latest(secret[n]).kind = "none" /\ w[n] \in Worker /\ csr[n].stage \in Nat
      /\ seenCsr[n] \in Nat
  <2>1. w[n] \in Worker /\ csr[n] \in Csr /\ seenCsr[n] \in 0..3
    BY DEF TypeOK
  <2> QED BY <2>1, SecretStays DEF Csr
<1>t. csr'[n].stage \in Nat
  <2>1. TypeOK'
    BY TypeEsecStep, TypeCsrStep, TypeSyncStep, TypeEnvStep
  <2>2. csr'[n] \in Csr
    BY <2>1 DEF TypeOK
  <2> QED BY <2>2 DEF Csr
<1>i. /\ n \in queue \/ w[n].pc \in {"generate", "write"} =>
            csr[n].stage = 0 /\ \A i \in 1..Len(keySecret[n]) : keySecret[n][i] = 0
      /\ w[n].pc = "csr" => csr[n].stage = 0 /\ Latest(keySecret[n]) = w[n].key
      /\ csr[n].stage > 0 => Latest(keySecret[n]) = csr[n].key /\ csr[n].key # 0
      /\ c[n].pc = "create" => csr[n].stage > 0 /\ c[n].key = csr[n].key
      /\ Cached(esec[n]) = NoEsec /\ Latest(keySecret[n]) # 0 =>
              \A i \in 1..Len(keySecret[n]) : keySecret[n][i] # 0
      /\ seenCsr[n] <= csr[n].stage
  BY <1>0 DEF OneKeyInv
<1>j. \A i \in 1..Len(keySecret[n]) : keySecret[n][i] # 0 => keySecret[n][i] = Latest(keySecret[n])
  BY <1>0 DEF OneKeyInv
<1>k. /\ Latest(keySecret'[n]) = Latest(keySecret[n])
      /\ \A i \in 1..Len(keySecret'[n]) :
            keySecret'[n][i] # 0 => keySecret'[n][i] = Latest(keySecret'[n])
      /\ (\A i \in 1..Len(keySecret[n]) : keySecret[n][i] = 0) =>
            \A i \in 1..Len(keySecret'[n]) : keySecret'[n][i] = 0
      /\ (\A i \in 1..Len(keySecret[n]) : keySecret[n][i] # 0) =>
            \A i \in 1..Len(keySecret'[n]) : keySecret'[n][i] # 0
  BY <1>0, OneKeyLeft
<1>p. /\ Idle.pc = "idle" /\ CsrIdle.pc = "idle"
      /\ w'[n] = [w[n] EXCEPT !.pc = "update"] => w'[n].pc = "update"
      /\ ~EsecWrite(n)
  BY <1>0 DEF Idle, CsrIdle, Worker, EsecWrite
<1>q. EsecCreateCsr(n) => w[n].pc = "csr" /\ w'[n].pc # "csr"
  <2>1. ASSUME EsecCreateCsr(n)
        PROVE  w[n].pc = "csr" /\ (w' = [w EXCEPT ![n].pc = "update"] \/ w' = [w EXCEPT ![n] = Idle])
    BY <2>1 DEF EsecCreateCsr, Retry
  <2> QED BY <2>1, <1>p DEF TypeOK, Worker
<1>1. n \in queue' \/ w'[n].pc \in {"generate", "write"} =>
        csr'[n].stage = 0 /\ \A i \in 1..Len(keySecret'[n]) : keySecret'[n][i] = 0
  <2> SUFFICES ASSUME n \in queue' \/ w'[n].pc \in {"generate", "write"}
               PROVE  csr'[n].stage = 0 /\ \A i \in 1..Len(keySecret'[n]) : keySecret'[n][i] = 0
    OBVIOUS
  <2>1. csr[n].stage = 0 /\ \A i \in 1..Len(keySecret[n]) : keySecret[n][i] = 0
    <3>1. CASE n \in queue \/ w[n].pc \in {"generate", "write"}
      BY <1>i, <3>1
    <3>2. CASE n \notin queue /\ w[n].pc \notin {"generate", "write"}
      <4>1. w'[n].pc \notin {"generate", "write"}
        <5>1. ~EsecGet(n) /\ ~EsecGenerate(n)
          BY <3>2 DEF EsecGet, EsecGenerate
        <5> QED BY <1>p, <3>2, <5>1, WorkerEffect
      <4>2. ~Retrying(n)
        <5> SUFFICES ASSUME Retrying(n) PROVE FALSE
          OBVIOUS
        <5>1. w[n].pc = "csr"
          BY <3>2, SteadyRetry
        <5>2. csr[n].stage # 0
          BY <5>1, SteadyRetry, <1>0
             DEF Retrying, EsecCANotReady, EsecWriteRefused, EsecConflict, EsecApiError, Steady
        <5> QED BY <1>i, <5>1, <5>2
      <4>3. /\ SyncEsec(n)
            /\ \/ Cached(esec[n]) = NoEsec /\ CreatePredicate(n)
               \/ Cached(esec[n]) # NoEsec /\ SpecOf(esec[n][1]) # SpecOf(esec[n][2])
        BY <3>2, <4>1, <4>2, QueueEffect
      <4>4. SpecOf(esec[n][1]) = SpecOf(esec[n][2])
        <5>1. Len(esec[n]) \in Nat /\ Len(esec[n]) > 1
          BY <4>3, EsecSynced
        <5>2. Blank(esec[n][1]) /\ Blank(esec[n][2])
          BY <5>1 DEF SteadyInv
        <5> QED BY <5>2 DEF Blank, SpecOf
      <4>5. Cached(esec[n]) = NoEsec /\ Cached(keySecret[n]) = 0
        BY <4>3, <4>4 DEF CreatePredicate
      <4>6. Cached(keySecret[n]) = keySecret[n][1] /\ Len(keySecret[n]) \in Nat \ {0}
        BY Versions DEF Cached
      <4>7. Latest(keySecret[n]) = 0
        <5>1. ASSUME \A i \in 1..Len(keySecret[n]) : keySecret[n][i] # 0 PROVE FALSE
          BY <5>1, <4>5, <4>6
        <5> QED BY <1>i, <4>5, <5>1
      <4>8. ~(csr[n].stage > 0)
        BY <1>i, <4>7
      <4> QED BY <1>0, <1>j, <4>7, <4>8
    <3> QED BY <3>1, <3>2
  <2>2. ~EsecCreateCsr(n)
    <3> SUFFICES ASSUME EsecCreateCsr(n) PROVE FALSE
      OBVIOUS
    <3>1. w[n].pc = "csr" /\ w'[n].pc \notin {"generate", "write"} /\ queue' = queue /\ n \notin queue
      <4>1. w[n].pc = "csr" /\ queue' = queue /\ w' = [w EXCEPT ![n].pc = "update"]
        BY <2>1 DEF EsecCreateCsr
      <4>2. n \notin queue
        BY <4>1 DEF SteadyInv
      <4>3. w'[n].pc = "update"
        BY <4>1 DEF TypeOK, Worker
      <4> QED BY <4>1, <4>2, <4>3
    <3> QED BY <3>1
  <2>3. csr'[n] = csr[n]
    BY <2>1, <2>2, CsrEffect
  <2> QED BY <1>k, <2>1, <2>3
<1>2. w'[n].pc = "csr" => csr'[n].stage = 0 /\ Latest(keySecret'[n]) = w'[n].key
  <2> SUFFICES ASSUME w'[n].pc = "csr" PROVE csr'[n].stage = 0 /\ Latest(keySecret'[n]) = w'[n].key
    OBVIOUS
  <2>1. w'[n] = w[n]
    BY <1>p, WorkerEffect
  <2>2. ~EsecCreateCsr(n)
    BY <1>q
  <2>3. csr[n].stage = 0 /\ Latest(keySecret[n]) = w[n].key
    BY <1>i, <2>1
  <2>4. csr'[n] = csr[n]
    BY <2>2, <2>3, CsrEffect
  <2> QED BY <1>k, <2>1, <2>3, <2>4
<1>3. csr'[n].stage > 0 => Latest(keySecret'[n]) = csr'[n].key /\ csr'[n].key # 0
  <2>1. CASE csr'[n] = csr[n]
    BY <1>i, <1>k, <2>1
  <2>2. CASE EsecCreateCsr(n) /\ csr'[n].key = w[n].key
    <3>1. w[n].pc = "csr"
      BY <2>2 DEF EsecCreateCsr
    <3>2. Latest(keySecret[n]) # 0
      BY <1>0, <3>1 DEF ThereInv
    <3> QED BY <1>i, <1>k, <2>2, <3>1, <3>2
  <2>3. CASE csr[n].stage > 0 /\ csr'[n].key = csr[n].key
    BY <1>i, <1>k, <2>3
  <2> QED BY <2>1, <2>2, <2>3, CsrEffect
<1>4. csr[n].stage > 0 => csr'[n].stage > 0 /\ csr'[n].key = csr[n].key
  <2> SUFFICES ASSUME csr[n].stage > 0 PROVE csr'[n].stage > 0 /\ csr'[n].key = csr[n].key
    OBVIOUS
  <2>1. CASE csr'[n] = csr[n]
    BY <2>1
  <2>2. CASE csr'[n].stage > csr[n].stage /\ csr'[n].key = csr[n].key
    BY <1>0, <1>t, <2>2
  <2>3. csr[n].stage # 0
    BY <1>0
  <2> QED BY <2>1, <2>2, <2>3, CsrEffect
<1>5. c'[n].pc = "create" => csr'[n].stage > 0 /\ c'[n].key = csr'[n].key
  <2>1. CASE c'[n] = c[n]
    BY <1>i, <1>4, <2>1
  <2>2. CASE CsrGetKey(n) /\ c'[n].key = Cached(keySecret[n])
    <3>1. seenCsr[n] = 3 /\ Cached(keySecret[n]) # 0
      BY <2>2 DEF CsrGetKey
    <3>2. csr[n].stage > 0
      BY <1>0, <1>i, <3>1
    <3>3. Cached(keySecret[n]) = keySecret[n][1] /\ Len(keySecret[n]) \in Nat \ {0}
      BY Versions DEF Cached
    <3>4. Cached(keySecret[n]) = csr[n].key
      BY <1>i, <1>j, <3>1, <3>2, <3>3
    <3> QED BY <1>4, <2>2, <3>2, <3>4
  <2> QED BY <1>p, <2>1, <2>2, CsrWorkerEffect
<1>6. Cached(esec'[n]) = NoEsec /\ Latest(keySecret'[n]) # 0 =>
        \A i \in 1..Len(keySecret'[n]) : keySecret'[n][i] # 0
  BY <1>i, <1>k, SteadyEsec
<1>7. seenCsr'[n] <= csr'[n].stage
  <2>1. csr[n].stage <= csr'[n].stage
    <3>1. CASE csr'[n] = csr[n]
      BY <1>0, <3>1
    <3>2. CASE csr[n].stage = 0
      BY <1>t, <3>2
    <3>3. CASE csr'[n].stage > csr[n].stage
      BY <1>0, <1>t, <3>3
    <3> QED BY <3>1, <3>2, <3>3, CsrEffect
  <2>2. CASE seenCsr'[n] = seenCsr[n]
    BY <1>0, <1>i, <1>t, <2>1, <2>2
  <2>3. CASE seenCsr[n] < csr[n].stage /\ seenCsr'[n] = seenCsr[n] + 1
    BY <1>0, <1>t, <2>1, <2>3
  <2> QED BY <2>2, <2>3, CsrWorkerEffect
<1> QED
  BY <1>k, <1>1, <1>2, <1>3, <1>5, <1>6, <1>7 DEF OneKeyInv

\* OneKeyInv holds of every steady name that the cluster signs.
THEOREM OneKeyInvariant ==
    Spec => [](\A n \in Names : Kind[n] = "csr" /\ Steady(n) => OneKeyInv(n))
<1> DEFINE Inv == \A n \in Names : Kind[n] = "csr" /\ Steady(n) => OneKeyInv(n)
           TInv == \A n \in Names : ThereInv(n)
           SInv == \A n \in Names : Steady(n) => SteadyInv(n)
<1>1. Init => Inv
  <2> SUFFICES ASSUME Init, NEW n \in Names PROVE OneKeyInv(n)
    BY DEF Steady
  <2>1. /\ keySecret[n] = <<0>> /\ n \notin queue /\ w[n].pc = "idle" /\ c[n].pc = "idle"
        /\ csr[n].stage = 0 /\ seenCsr[n] = 0
    BY DEF Init, Idle, CsrIdle, NoCsr
  <2>2. Latest(<<0>>) = 0 /\ Len(<<0>>) = 1 /\ <<0>>[1] = 0
    BY DEF Latest
  <2> QED BY <2>1, <2>2 DEF OneKeyInv
<1>2. TypeOK /\ TInv /\ SInv /\ Inv /\ [Next]_vars => Inv'
  <2> SUFFICES ASSUME TypeOK, TInv, SInv, Inv, [Next]_vars,
                      NEW n \in Names, Kind[n] = "csr", Steady(n)
               PROVE  OneKeyInv(n)'
    BY DEF Steady
  <2>0. OneKeyInv(n) /\ SteadyInv(n) /\ ThereInv(n)
    OBVIOUS
  <2>1. CASE UNCHANGED vars
    BY <2>0, <2>1 DEF vars, OneKeyInv
  <2>2. ASSUME NEW m \in Names, EsecStep(m) \/ CsrStep(m) \/ SyncStep(m) \/ EnvStep(m)
        PROVE  OneKeyInv(n)'
    <3>1. CASE m = n
      BY <2>0, <2>2, <3>1, OneKeyStep
    <3>2. CASE m # n
      <4>1. Same(n)
        BY <2>2, <3>2, Frame
      <4> QED BY <2>0, <4>1 DEF Same, OneKeyInv
    <3> QED BY <3>1, <3>2
  <2>3. CASE Crash
    <3>1. /\ w'[n].pc = "idle" /\ c'[n].pc = "idle" /\ n \notin queue'
          /\ secret' = secret /\ keySecret' = keySecret /\ csr' = csr /\ seenCsr' = seenCsr
          /\ esec' = esec
      BY <2>3 DEF Crash, Idle, CsrIdle
    <3> QED BY <2>0, <3>1 DEF OneKeyInv
  <2>4. CASE Restart
    <3> SUFFICES ASSUME Latest(secret'[n]).kind = "none" PROVE OneKeyInv(n)'
      BY DEF OneKeyInv
    <3>1. /\ Latest(secret'[n]) = Latest(secret[n])
          /\ Latest(keySecret'[n]) = Latest(keySecret[n])
          /\ Len(keySecret'[n]) = 1 /\ keySecret'[n][1] = Latest(keySecret[n])
          /\ w'[n] = w[n] /\ c'[n] = c[n] /\ csr'[n] = csr[n]
      BY <2>4, RestartKeeps
    <3>2. operator = "down" /\ queue' = queue /\ seenCsr'[n] = csr[n].stage
      BY <2>4 DEF Restart, TypeOK, Up
    <3>3. n \notin queue /\ w[n].pc = "idle"
      BY <2>0, <3>2 DEF SteadyInv
    <3>4. /\ csr[n].stage > 0 => Latest(keySecret[n]) = csr[n].key /\ csr[n].key # 0
          /\ c[n].pc = "create" => csr[n].stage > 0 /\ c[n].key = csr[n].key
      BY <2>0, <3>1 DEF OneKeyInv
    <3>5. seenCsr'[n] <= csr'[n].stage
      <4>1. csr[n] \in Csr
        BY DEF TypeOK
      <4>2. csr[n].stage \in Nat
        BY <4>1 DEF Csr
      <4> QED BY <3>1, <3>2, <4>2
    <3> QED BY <3>1, <3>2, <3>3, <3>4, <3>5 DEF OneKeyInv
  <2> QED
    BY <2>1, <2>2, <2>3, <2>4 DEF Next
<1> QED
  BY <1>1, <1>2, TypeCorrect, ThereInvariant, SteadyInvariant, PTL DEF Spec

\* What CertificateMatchesKey says of one name.
MatchInv(n) ==
    Latest(secret[n]).kind = "generated" => Latest(secret[n]).cert = Latest(secret[n]).key

LEMMA MatchStep ==
    ASSUME TypeOK, NEW n \in Names, Kind[n] # "password",
           Kind[n] = "csr" => OneKeyInv(n),
           Kind[n] # "csr" => LocalInv(n),
           MatchInv(n), EsecStep(n) \/ CsrStep(n) \/ SyncStep(n) \/ EnvStep(n)
    PROVE  MatchInv(n)'
<1>1. CASE secret'[n] = secret[n]
  BY <1>1 DEF MatchInv
<1>2. CASE SyncSecret(n)
  BY <1>2, SecretSynced DEF MatchInv
<1>3. ASSUME NEW x \in Secret, x.key = w[n].key, Kind[n] # "password" => x.cert = w[n].key,
             secret'[n] = Append(secret[n], x)
      PROVE  MatchInv(n)'
  BY <1>3, SecretWritten DEF MatchInv
<1>4. ASSUME CsrCreateSecret(n), Latest(secret[n]).kind = "none",
             NEW x \in Secret, x.key = c[n].key, x.cert = csr[n].key,
             secret'[n] = Append(secret[n], x)
      PROVE  MatchInv(n)'
  <2>1. c[n].pc = "create"
    BY <1>4 DEF CsrCreateSecret
  <2>2. Kind[n] = "csr"
    BY <2>1 DEF LocalInv
  <2>3. c[n].key = csr[n].key
    BY <1>4, <2>1, <2>2 DEF OneKeyInv
  <2> QED BY <1>4, <2>3, SecretWritten DEF MatchInv
<1>5. ASSUME NEW x \in Secret, x.kind = "user", secret'[n] = Append(secret[n], x)
      PROVE  MatchInv(n)'
  BY <1>5, SecretWritten DEF MatchInv
<1> QED
  BY <1>1, <1>2, <1>3, <1>4, <1>5, SecretEffect

\* A certificate is never stored beside another's private key, although the CSR
\* controller reads the key from a cache, long after the other controller wrote it
\* and asked for the certificate, and although the operator may crash between any
\* two steps: as long as nothing else disturbs the reconcile of a name that the
\* cluster signs, whatever happens to the others.
THEOREM CertificateIsForItsKey == Spec => []CertificateMatchesKey
<1> DEFINE KInv == \A n \in Names : Kind[n] = "csr" /\ Steady(n) => OneKeyInv(n)
           LInv == \A n \in Names : Kind[n] # "csr" => LocalInv(n)
           Named(n) == Kind[n] # "password" /\ (Kind[n] = "csr" => Steady(n))
           Inv == \A n \in Names : Named(n) => MatchInv(n)
<1>1. Init => Inv
  BY DEF Init, MatchInv, NoSecret, Latest
<1>2. TypeOK /\ KInv /\ LInv /\ Inv /\ [Next]_vars => Inv'
  <2> SUFFICES ASSUME TypeOK, KInv, LInv, Inv, [Next]_vars, NEW n \in Names, Named(n)
               PROVE  MatchInv(n)'
    OBVIOUS
  <2>0. /\ MatchInv(n)
        /\ Kind[n] = "csr" => OneKeyInv(n)
        /\ Kind[n] # "csr" => LocalInv(n)
    OBVIOUS
  <2>1. CASE UNCHANGED vars
    BY <2>0, <2>1 DEF vars, MatchInv
  <2>2. ASSUME NEW m \in Names, EsecStep(m) \/ CsrStep(m) \/ SyncStep(m) \/ EnvStep(m)
        PROVE  MatchInv(n)'
    <3>1. CASE m = n
      BY <2>0, <2>2, <3>1, MatchStep
    <3>2. CASE m # n
      BY <2>0, <2>2, <3>2, Frame DEF Same, MatchInv
    <3> QED BY <3>1, <3>2
  <2>3. CASE Crash
    BY <2>0, <2>3 DEF Crash, MatchInv
  <2>4. CASE Restart
    BY <2>0, <2>4, RestartKeeps DEF MatchInv
  <2> QED
    BY <2>1, <2>2, <2>3, <2>4 DEF Next
<1>3. Inv => CertificateMatchesKey
  BY DEF MatchInv, CertificateMatchesKey, KeyPairMatches
<1> QED
  BY <1>1, <1>2, <1>3, TypeCorrect, OneKeyInvariant, LocalInvariant, PTL DEF Spec
=============================================================================
