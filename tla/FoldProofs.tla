---------------------------- MODULE FoldProofs ----------------------------
(***************************************************************************)
(* Induction over the lists of a manifest.  FoldLeft and FlattenSeq are    *)
(* recursive functions: that there is such a function, and what it keeps,  *)
(* is shown by induction over the natural numbers, which is here a fact    *)
(* about sets (every set of natural numbers has a smallest element).       *)
(*                                                                         *)
(* The operator of the fold is a constant of this module: a proof that     *)
(* needs a fact about one fold takes an instance for its operator.         *)
(***************************************************************************)
EXTENDS Integers, Sequences, SequencesExt, WellFoundedInduction, SequenceTheorems, TLAPS

CONSTANTS
    Op(_, _),   \* the operator of the fold
    Good(_, _)  \* what it keeps, given something that stays the same

-----------------------------------------------------------------------------
(* Induction.                                                              *)

\* A set of natural numbers has a smallest element.
LEMMA Smallest ==
    ASSUME NEW T, T \subseteq Nat, T # {}
    PROVE  \E x \in T : \A y \in T : ~(y < x)
<1> DEFINE R == OpToRel(<, Nat)
<1>1. IsWellFoundedOn(R, Nat)
    BY NatLessThanWellFounded, Zenon
<1>2. \A x, y \in Nat : y < x => <<y, x>> \in R
    BY DEF OpToRel
<1> HIDE DEF R
<1>3. \E x \in T : \A y \in T : ~(<<y, x>> \in R)
    BY <1>1, WFMin
<1> QED BY <1>2, <1>3

\* A set with 0 that has k + 1 for every k it has has all natural numbers.
LEMMA Induct ==
    ASSUME NEW S, 0 \in S, \A k \in Nat : k \in S => k + 1 \in S
    PROVE  Nat \subseteq S
<1> SUFFICES ASSUME Nat \ S # {} PROVE FALSE
    OBVIOUS
<1>1. PICK x \in Nat \ S : \A y \in Nat \ S : ~(y < x)
    BY Smallest
<1>2. x - 1 \in Nat /\ x - 1 < x /\ (x - 1) + 1 = x
    BY <1>1
<1> QED BY <1>1, <1>2

\* A set of positions has a largest element.
LEMMA MaxIn ==
    ASSUME NEW n \in Nat, NEW T \in SUBSET (1..n), T # {}
    PROVE  Max(T) \in T
<1> DEFINE U == {k \in Nat : n - k \in T}
<1>1. U \subseteq Nat /\ U # {}
    <2>1. PICK x \in T : TRUE
        OBVIOUS
    <2>2. n - x \in Nat /\ n - (n - x) = x
        OBVIOUS
    <2> QED BY <2>1, <2>2
<1>2. PICK k \in U : \A y \in U : ~(y < k)
    <2> HIDE DEF U
    <2> QED BY <1>1, Smallest
<1>3. n - k \in T
    OBVIOUS
<1>4. ASSUME NEW y \in T PROVE n - k >= y
    <2>1. n - y \in Nat /\ n - (n - y) = y
        OBVIOUS
    <2>2. n - y \in U
        BY <2>1
    <2>3. ~(n - y < k)
        BY <1>2, <2>2
    <2> QED BY <2>3
<1> QED BY <1>3, <1>4, Zenon DEF Max

-----------------------------------------------------------------------------
(* FlattenSeq.                                                             *)

\* The function by which FlattenSeq is defined exists.
LEMMA FlattenDefined ==
    ASSUME NEW ss, Len(ss) \in Nat
    PROVE  \E f : f = [i \in 1..Len(ss) |-> IF i = 1 THEN ss[i] ELSE f[i - 1] \o ss[i]]
<1> DEFINE Def(f, n) == f = [i \in 1..n |-> IF i = 1 THEN ss[i] ELSE f[i - 1] \o ss[i]]
           G == {n \in Nat : \E f : Def(f, n)}
<1>1. 0 \in G
    <2>1. Def([i \in 1..0 |-> 0], 0)
        OBVIOUS
    <2> QED BY <2>1, Zenon
<1>2. ASSUME NEW k \in Nat, k \in G PROVE k + 1 \in G
    <2>1. PICK f : Def(f, k)
        BY <1>2, Zenon
    <2> DEFINE g == [i \in 1..(k + 1) |-> IF i = 1 THEN ss[i] ELSE f[i - 1] \o ss[i]]
    <2>a. \A i \in 1..k : f[i] = IF i = 1 THEN ss[i] ELSE f[i - 1] \o ss[i]
        BY <2>1, Zenon
    <2>b. \A i \in 1..(k + 1) : g[i] = IF i = 1 THEN ss[i] ELSE f[i - 1] \o ss[i]
        BY Zenon
    <2>c. DOMAIN g = 1..(k + 1)
        BY Zenon
    <2> HIDE DEF g, Def
    <2>2. ASSUME NEW i \in 1..k PROVE f[i] = g[i]
        <3>1. i \in 1..(k + 1)
            OBVIOUS
        <3> QED BY <2>a, <2>b, <3>1, Zenon
    <2>3. ASSUME NEW i \in 1..(k + 1)
          PROVE  g[i] = IF i = 1 THEN ss[i] ELSE g[i - 1] \o ss[i]
        <3>1. i # 1 => i - 1 \in 1..k
            OBVIOUS
        <3> QED BY <2>b, <2>2, <3>1, Zenon
    <2>4. g = [i \in 1..(k + 1) |-> IF i = 1 THEN ss[i] ELSE g[i - 1] \o ss[i]]
        <3> DEFINE h == [i \in 1..(k + 1) |-> IF i = 1 THEN ss[i] ELSE g[i - 1] \o ss[i]]
        <3>1. DOMAIN g = 1..(k + 1) /\ DOMAIN h = 1..(k + 1)
            BY <2>c, Zenon
        <3>2. \A i \in 1..(k + 1) : g[i] = h[i]
            BY <2>3, Zenon
        <3> QED BY <3>1, <3>2 DEF g
    <2>5. Def(g, k + 1)
        BY <2>4, Zenon DEF Def
    <2>6. \E x : Def(x, k + 1)
        BY <2>5, Zenon
    <2>7. k + 1 \in Nat
        OBVIOUS
    <2> QED BY <2>6, <2>7, Zenon
<1> HIDE DEF G
<1>3. Len(ss) \in G
    BY <1>1, <1>2, Induct
<1> QED BY <1>3, Zenon DEF G, Def

\* A list of lists is flattened to a list of the same elements.
LEMMA FlattenIn ==
    ASSUME NEW S, NEW ss \in Seq(Seq(S))
    PROVE  FlattenSeq(ss) \in Seq(S)
<1>1. Len(ss) \in Nat /\ DOMAIN ss = 1..Len(ss)
    BY LenProperties
<1>2. CASE Len(ss) = 0
    <2>1. ss = <<>>
        BY <1>2, EmptySeq
    <2> QED BY <1>2, <2>1 DEF FlattenSeq
<1>3. CASE Len(ss) # 0
    <2> DEFINE f == CHOOSE f : f = [i \in 1..Len(ss) |-> IF i = 1 THEN ss[i] ELSE f[i - 1] \o ss[i]]
    <2>1. FlattenSeq(ss) = f[Len(ss)]
        BY <1>3, Zenon DEF FlattenSeq
    <2>2. f = [i \in 1..Len(ss) |-> IF i = 1 THEN ss[i] ELSE f[i - 1] \o ss[i]]
        BY <1>1, FlattenDefined, Zenon
    <2> HIDE DEF f
    <2>3. \A i \in 1..Len(ss) : f[i] = IF i = 1 THEN ss[i] ELSE f[i - 1] \o ss[i]
        BY <2>2, Zenon
    <2> DEFINE G == {n \in Nat : n \in 1..Len(ss) => f[n] \in Seq(S)}
    <2>4. 0 \in G
        BY <1>1
    <2>5. ASSUME NEW k \in Nat, k \in G PROVE k + 1 \in G
        <3> SUFFICES ASSUME k + 1 \in 1..Len(ss) PROVE f[k + 1] \in Seq(S)
            OBVIOUS
        <3>1. ss[k + 1] \in Seq(S)
            BY <1>1
        <3>2. CASE k = 0
            BY <2>3, <3>1, <3>2
        <3>3. CASE k # 0
            <4>1. k \in 1..Len(ss) /\ k + 1 # 1 /\ (k + 1) - 1 = k
                BY <1>1, <3>3
            <4>2. f[k + 1] = f[k] \o ss[k + 1] /\ f[k] \in Seq(S)
                BY <2>3, <2>5, <4>1
            <4> QED BY <3>1, <4>2, ConcatProperties
        <3> QED BY <3>2, <3>3
    <2> HIDE DEF G
    <2>6. Len(ss) \in G
        BY <1>1, <2>4, <2>5, Induct
    <2> QED BY <1>1, <1>3, <2>1, <2>6 DEF G
<1> QED BY <1>2, <1>3

LEMMA JoinHas ==
    ASSUME NEW S, NEW s \in Seq(S), NEW t \in Seq(S)
    PROVE  s \o t \in Seq(S) /\ ToSet(s) \subseteq ToSet(s \o t) /\ ToSet(t) \subseteq ToSet(s \o t)
<1> DEFINE c == s \o t
<1>1. /\ c \in Seq(S) /\ Len(c) = Len(s) + Len(t)
      /\ \A i \in 1..(Len(s) + Len(t)) : c[i] = IF i <= Len(s) THEN s[i] ELSE t[i - Len(s)]
    BY ConcatProperties
<1> HIDE DEF c
<1>2. /\ Len(s) \in Nat /\ DOMAIN s = 1..Len(s) /\ Len(t) \in Nat /\ DOMAIN t = 1..Len(t)
      /\ DOMAIN c = 1..(Len(s) + Len(t))
    BY <1>1, LenProperties
<1>3. ASSUME NEW i \in DOMAIN s PROVE s[i] \in ToSet(c)
    <2>1. i \in 1..(Len(s) + Len(t)) /\ i <= Len(s)
        BY <1>2
    <2> QED BY <1>1, <1>2, <2>1 DEF ToSet
<1>4. ASSUME NEW i \in DOMAIN t PROVE t[i] \in ToSet(c)
    <2>1. Len(s) + i \in 1..(Len(s) + Len(t)) /\ ~(Len(s) + i <= Len(s)) /\ (Len(s) + i) - Len(s) = i
        BY <1>2
    <2>2. c[Len(s) + i] = t[i]
        BY <1>1, <2>1
    <2> QED BY <1>2, <2>1, <2>2 DEF ToSet
<1>5. ToSet(s) \subseteq ToSet(c) /\ ToSet(t) \subseteq ToSet(c)
    <2>1. \A u : ToSet(u) = {u[i] : i \in DOMAIN u}
        BY Zenon DEF ToSet
    <2> QED BY <1>3, <1>4, <2>1
<1> QED BY <1>1, <1>5 DEF c

\* Every element of the lists is in the flattened list.
LEMMA FlattenHas ==
    ASSUME NEW S, NEW ss \in Seq(Seq(S))
    PROVE  \A i \in DOMAIN ss : ToSet(ss[i]) \subseteq ToSet(FlattenSeq(ss))
<1>1. Len(ss) \in Nat /\ DOMAIN ss = 1..Len(ss)
    BY LenProperties
<1>2. CASE Len(ss) = 0
    BY <1>1, <1>2
<1>3. CASE Len(ss) # 0
    <2> DEFINE f == CHOOSE f : f = [i \in 1..Len(ss) |-> IF i = 1 THEN ss[i] ELSE f[i - 1] \o ss[i]]
    <2>1. FlattenSeq(ss) = f[Len(ss)]
        BY <1>3, Zenon DEF FlattenSeq
    <2>2. f = [i \in 1..Len(ss) |-> IF i = 1 THEN ss[i] ELSE f[i - 1] \o ss[i]]
        BY <1>1, FlattenDefined, Zenon
    <2> HIDE DEF f
    <2>3. \A i \in 1..Len(ss) : f[i] = IF i = 1 THEN ss[i] ELSE f[i - 1] \o ss[i]
        BY <2>2, Zenon
    <2> DEFINE G == {n \in Nat : n \in 1..Len(ss) =>
                       f[n] \in Seq(S) /\ \A i \in 1..n : ToSet(ss[i]) \subseteq ToSet(f[n])}
    <2>4. 0 \in G
        BY <1>1
    <2>5. ASSUME NEW k \in Nat, k \in G PROVE k + 1 \in G
        <3> SUFFICES ASSUME k + 1 \in 1..Len(ss)
                     PROVE  f[k + 1] \in Seq(S) /\ \A i \in 1..(k + 1) : ToSet(ss[i]) \subseteq ToSet(f[k + 1])
            OBVIOUS
        <3>1. ss[k + 1] \in Seq(S)
            BY <1>1
        <3>2. CASE k = 0
            <4>1. f[k + 1] = ss[k + 1] /\ \A i \in 1..(k + 1) : i = k + 1
                BY <2>3, <3>2
            <4> QED BY <3>1, <4>1, Zenon
        <3>3. CASE k # 0
            <4>1. k \in 1..Len(ss) /\ k + 1 # 1 /\ (k + 1) - 1 = k
                BY <1>1, <3>3
            <4>2. f[k + 1] = f[k] \o ss[k + 1] /\ f[k] \in Seq(S) /\ \A i \in 1..k : ToSet(ss[i]) \subseteq ToSet(f[k])
                BY <2>3, <2>5, <4>1
            <4>3. f[k + 1] \in Seq(S) /\ ToSet(f[k]) \subseteq ToSet(f[k + 1]) /\ ToSet(ss[k + 1]) \subseteq ToSet(f[k + 1])
                BY <3>1, <4>2, JoinHas, Zenon
            <4>4. \A i \in 1..(k + 1) : i = k + 1 \/ i \in 1..k
                OBVIOUS
            <4> QED BY <4>2, <4>3, <4>4, Zenon
        <3> QED BY <3>2, <3>3
    <2> HIDE DEF G
    <2>6. Len(ss) \in G
        BY <1>1, <2>4, <2>5, Induct
    <2>7. \A i \in 1..Len(ss) : ToSet(ss[i]) \subseteq ToSet(f[Len(ss)])
        BY <1>1, <1>3, <2>6 DEF G
    <2> QED BY <1>1, <2>1, <2>7, Zenon
<1> QED BY <1>2, <1>3

-----------------------------------------------------------------------------
(* FoldLeft.                                                               *)

LEMMA MaxTop ==
    ASSUME NEW k \in Nat, NEW s \in SUBSET (1..(k + 1)), k + 1 \in s
    PROVE  Max(s) = k + 1
<1>1. \A y \in s : k + 1 >= y
    OBVIOUS
<1>2. \A x \in s : (\A y \in s : x >= y) => x = k + 1
    OBVIOUS
<1> HIDE DEF Max
<1> QED BY <1>1, <1>2, Zenon DEF Max

\* The fold.
Fold(base, seq) == FoldLeft(Op, base, seq)

\* f is the function by which FoldLeft is defined.
IsFold(f, base, seq, n) ==
    f = [s \in SUBSET (1..n) |-> IF s = {} THEN base ELSE Op(f[s \ {Max(s)}], seq[Max(s)])]

\* There is such a function.
LEMMA FoldDefined ==
    ASSUME NEW base, NEW seq, NEW n \in Nat
    PROVE  \E f : IsFold(f, base, seq, n)
<1> USE DEF IsFold
<1> DEFINE Def(f, k) == IsFold(f, base, seq, k)
           G == {k \in Nat : \E f : Def(f, k)}
<1>1. 0 \in G
    <2> DEFINE f == [s \in SUBSET (1..0) |-> base]
    <2>1. \A s \in SUBSET (1..0) : s = {}
        OBVIOUS
    <2>2. f = [s \in SUBSET (1..0) |-> IF s = {} THEN base ELSE Op(f[s \ {Max(s)}], seq[Max(s)])]
        BY <2>1, Zenon
    <2>3. Def(f, 0)
        BY <2>2, Zenon
    <2> QED BY <2>3, Zenon
<1>2. ASSUME NEW k \in Nat, k \in G PROVE k + 1 \in G
    <2>1. PICK f : Def(f, k)
        BY <1>2, Zenon
    <2> DEFINE g == [s \in SUBSET (1..(k + 1)) |->
                       IF k + 1 \in s THEN Op(f[s \ {k + 1}], seq[k + 1]) ELSE f[s]]
    <2>a. \A s \in SUBSET (1..k) : f[s] = IF s = {} THEN base ELSE Op(f[s \ {Max(s)}], seq[Max(s)])
        BY <2>1, Zenon
    <2>b. \A s \in SUBSET (1..(k + 1)) : g[s] = IF k + 1 \in s THEN Op(f[s \ {k + 1}], seq[k + 1]) ELSE f[s]
        BY Zenon
    <2>c. DOMAIN g = SUBSET (1..(k + 1))
        BY Zenon
    <2> HIDE DEF g, Def
    <2>2. ASSUME NEW s \in SUBSET (1..k) PROVE f[s] = g[s]
        <3>1. s \in SUBSET (1..(k + 1)) /\ k + 1 \notin s
            OBVIOUS
        <3> QED BY <2>b, <3>1, Zenon
    <2>3. ASSUME NEW s \in SUBSET (1..(k + 1))
          PROVE  g[s] = IF s = {} THEN base ELSE Op(g[s \ {Max(s)}], seq[Max(s)])
        <3>1. CASE k + 1 \in s
            <4>1. Max(s) = k + 1 /\ s # {}
                BY <3>1, MaxTop
            <4>2. s \ {k + 1} \in SUBSET (1..k)
                OBVIOUS
            <4> QED BY <2>b, <2>2, <3>1, <4>1, <4>2, Zenon
        <3>2. CASE k + 1 \notin s
            <4>1. s \in SUBSET (1..k) /\ s \ {Max(s)} \in SUBSET (1..k)
                <5>1. \A x \in s : x \in 1..(k + 1) /\ x # k + 1
                    BY <3>2
                <5>2. \A x \in 1..(k + 1) : x # k + 1 => x \in 1..k
                    OBVIOUS
                <5> QED BY <5>1, <5>2, Zenon
            <4> QED BY <2>a, <2>2, <4>1, Zenon
        <3> QED BY <3>1, <3>2
    <2>4. g = [s \in SUBSET (1..(k + 1)) |-> IF s = {} THEN base ELSE Op(g[s \ {Max(s)}], seq[Max(s)])]
        <3> DEFINE h == [s \in SUBSET (1..(k + 1)) |-> IF s = {} THEN base ELSE Op(g[s \ {Max(s)}], seq[Max(s)])]
        <3>1. DOMAIN g = SUBSET (1..(k + 1)) /\ DOMAIN h = SUBSET (1..(k + 1))
            BY <2>c, Zenon
        <3>2. \A s \in SUBSET (1..(k + 1)) : g[s] = h[s]
            BY <2>3, Zenon
        <3> QED BY <3>1, <3>2 DEF g
    <2>5. Def(g, k + 1)
        BY <2>4, Zenon DEF Def
    <2>6. \E x : Def(x, k + 1)
        BY <2>5, Zenon
    <2>7. k + 1 \in Nat
        OBVIOUS
    <2> QED BY <2>6, <2>7, Zenon
<1> HIDE DEF G
<1>3. n \in G
    BY <1>1, <1>2, Induct
<1> QED BY <1>3, Zenon DEF G, Def

\* The results of a fold, step by step.
Steps(r, base, seq, n) ==
    /\ r[0] = base /\ r[n] = Fold(base, seq)
    /\ \A k \in Nat : k + 1 <= n => r[k + 1] = Op(r[k], seq[k + 1])

LEMMA FoldSteps ==
    ASSUME NEW base, NEW seq, NEW n \in Nat, DOMAIN seq = 1..n
    PROVE  \E r : Steps(r, base, seq, n)
<1> DEFINE f == CHOOSE f : IsFold(f, base, seq, n)
           r == [k \in 0..n |-> f[1..k]]
<1>1. Fold(base, seq) = f[1..n]
    BY Zenon DEF Fold, FoldLeft, MapThenFoldSet, IsFold
<1>2. IsFold(f, base, seq, n)
    BY FoldDefined, Zenon
<1> HIDE DEF f
<1>3. \A s \in SUBSET (1..n) : f[s] = IF s = {} THEN base ELSE Op(f[s \ {Max(s)}], seq[Max(s)])
    BY <1>2, Zenon DEF IsFold
<1>4. \A k \in 0..n : r[k] = f[1..k]
    BY Zenon
<1> HIDE DEF r
<1>5. r[0] = base
    <2>1. 1..0 = {} /\ {} \in SUBSET (1..n) /\ 0 \in 0..n
        OBVIOUS
    <2>2. f[1..0] = base
        BY <1>3, <2>1, Zenon
    <2> QED BY <1>4, <2>1, <2>2, Zenon
<1>6. ASSUME NEW k \in Nat, k + 1 <= n PROVE r[k + 1] = Op(r[k], seq[k + 1])
    <2>1. /\ 1..(k + 1) \in SUBSET (1..n) /\ 1..(k + 1) \in SUBSET (1..(k + 1)) /\ k + 1 \in 1..(k + 1)
          /\ (1..(k + 1)) \ {k + 1} = 1..k /\ k \in 0..n /\ k + 1 \in 0..n
        BY <1>6
    <2>2. Max(1..(k + 1)) = k + 1 /\ 1..(k + 1) # {}
        BY <2>1, MaxTop, Zenon
    <2>3. f[1..(k + 1)] = Op(f[1..k], seq[k + 1])
        BY <1>3, <2>1, <2>2, Zenon
    <2> QED BY <1>4, <2>1, <2>3, Zenon
<1>7. n \in 0..n
    OBVIOUS
<1>8. Steps(r, base, seq, n)
    BY <1>1, <1>4, <1>5, <1>6, <1>7, Zenon DEF Steps
<1> QED BY <1>8, Zenon

\* What every step of a fold keeps, the fold keeps.
LEMMA FoldKeeps ==
    ASSUME NEW base, NEW seq, NEW n \in Nat, NEW ctx, DOMAIN seq = 1..n, Good(base, ctx),
           \A i \in 1..n : \A a : Good(a, ctx) => Good(Op(a, seq[i]), ctx)
    PROVE  Good(Fold(base, seq), ctx)
<1>0. PICK r : Steps(r, base, seq, n)
    BY FoldSteps, Zenon
<1>1. /\ r[0] = base /\ r[n] = Fold(base, seq)
      /\ \A k \in Nat : k + 1 <= n => r[k + 1] = Op(r[k], seq[k + 1])
    BY <1>0, Zenon DEF Steps
<1> DEFINE G == {k \in Nat : k <= n => Good(r[k], ctx)}
<1>2. 0 \in G
    BY <1>1, Zenon
<1>3. ASSUME NEW k \in Nat, k \in G PROVE k + 1 \in G
    <2> SUFFICES ASSUME k + 1 <= n PROVE Good(r[k + 1], ctx)
        OBVIOUS
    <2>1. k <= n /\ k + 1 \in 1..n
        OBVIOUS
    <2> QED BY <1>1, <1>3, <2>1, Zenon
<1> HIDE DEF G
<1>4. n \in G
    BY <1>2, <1>3, Induct
<1>5. n <= n
    OBVIOUS
<1> QED BY <1>1, <1>4, <1>5, Zenon DEF G
=============================================================================
