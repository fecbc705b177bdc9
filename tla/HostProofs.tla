----------------------------- MODULE HostProofs -----------------------------
(***************************************************************************)
(* Proofs about what parcon keeps on the host beside its tuning: its       *)
(* release and its settings.                                               *)
(***************************************************************************)
EXTENDS Settings, Releases, SequenceTheorems, WellFoundedInduction, TLAPS

\* Every nonempty set of natural numbers has a least one. The proofs by induction below are about the least number for
\* which a fact would fail.
LEMMA LeastNat ==
    ASSUME NEW T \in SUBSET Nat, T # {}
    PROVE  \E m \in T : \A k \in T : m <= k
<1> DEFINE R == OpToRel(<, Nat)
<1>1. IsWellFoundedOn(R, Nat)  BY NatLessThanWellFounded, Zenon
<1>2. PICK x \in T : \A y \in T : ~(<<y, x>> \in R)
    <2> HIDE DEF R
    <2> QED  BY <1>1, WFMin, Zenon
<1>3. \A y \in T : ~(y < x)  BY <1>2 DEF OpToRel
<1> QED  BY <1>3

-----------------------------------------------------------------------------
(* The order of sequences of pairs that semantic versioning's precedence is. *)

Pairs == Nat \X Nat

Below(x, y) == x[1] < y[1] \/ (x[1] = y[1] /\ x[2] < y[2])

Before(a, b) ==
    \E n \in DOMAIN b :
        /\ \A i \in 1..(n - 1) : i \in DOMAIN a /\ a[i] = b[i]
        /\ n \in DOMAIN a => Below(a[n], b[n])

\* Below is a total order of pairs.
LEMMA BelowOrder ==
    /\ \A x \in Pairs : ~Below(x, x)
    /\ \A x, y \in Pairs : ~(Below(x, y) /\ Below(y, x))
    /\ \A x, y \in Pairs : x # y => Below(x, y) \/ Below(y, x)
    /\ \A x, y, z \in Pairs : Below(x, y) /\ Below(y, z) => Below(x, z)
BY DEF Below, Pairs

\* At the first place where two sequences differ, the pairs there decide.
LEMMA BeforeAt ==
    ASSUME NEW a \in Seq(Pairs), NEW b \in Seq(Pairs), NEW i \in 1..Len(a), i \in 1..Len(b),
           \A j \in 1..(i - 1) : a[j] = b[j],
           a[i] # b[i]
    PROVE  Before(a, b) <=> Below(a[i], b[i])
<1>1. Len(a) \in Nat /\ Len(b) \in Nat /\ DOMAIN a = 1..Len(a) /\ DOMAIN b = 1..Len(b) /\ i \in Nat  OBVIOUS
<1>2. \A j \in 1..Len(a) : a[j] \in Pairs  OBVIOUS
<1>3. ASSUME Below(a[i], b[i]) PROVE Before(a, b)
    <2>1. \A j \in 1..(i - 1) : j \in DOMAIN a /\ a[j] = b[j]  BY <1>1
    <2> QED  BY <2>1, <1>1, <1>3 DEF Before
<1>4. ASSUME Before(a, b) PROVE Below(a[i], b[i])
    <2>1. PICK n \in DOMAIN b : /\ \A k \in 1..(n - 1) : k \in DOMAIN a /\ a[k] = b[k]
                                /\ n \in DOMAIN a => Below(a[n], b[n])
        BY <1>4 DEF Before
    <2>2. CASE n < i
        <3>1. n \in DOMAIN a /\ n \in 1..(i - 1)  BY <2>2, <1>1
        <3>2. a[n] = b[n] /\ Below(a[n], b[n]) /\ a[n] \in Pairs  BY <3>1, <2>1, <1>2
        <3> QED  BY <3>2, BelowOrder
    <2>3. CASE i < n
        <3>1. i \in 1..(n - 1)  BY <2>3, <1>1
        <3> QED  BY <3>1, <2>1
    <2>4. CASE n = i  BY <2>4, <2>1, <1>1
    <2> QED  BY <2>2, <2>3, <2>4, <1>1
<1> QED  BY <1>3, <1>4

\* A sequence comes before the ones that it begins.
LEMMA BeforePrefix ==
    ASSUME NEW a \in Seq(Pairs), NEW b \in Seq(Pairs), Len(a) < Len(b), \A j \in 1..Len(a) : a[j] = b[j]
    PROVE  Before(a, b) /\ ~Before(b, a)
<1>1. Len(a) \in Nat /\ Len(b) \in Nat /\ DOMAIN a = 1..Len(a) /\ DOMAIN b = 1..Len(b)  OBVIOUS
<1>2. Before(a, b)
    <2>1. Len(a) + 1 \in DOMAIN b /\ Len(a) + 1 \notin DOMAIN a  BY <1>1
    <2>2. \A j \in 1..((Len(a) + 1) - 1) : j \in DOMAIN a /\ a[j] = b[j]  BY <1>1
    <2> QED  BY <2>1, <2>2 DEF Before
<1>3. ~Before(b, a)
    <2> SUFFICES ASSUME NEW n \in DOMAIN a, n \in DOMAIN b => Below(b[n], a[n]) PROVE FALSE
        BY DEF Before
    <2>1. n \in DOMAIN b /\ a[n] = b[n] /\ a[n] \in Pairs  BY <1>1
    <2> QED  BY <2>1, BelowOrder
<1> QED  BY <1>2, <1>3

\* Two sequences are the same, or they differ at a first place, or one begins the other.
LEMMA Differing ==
    ASSUME NEW S, NEW a \in Seq(S), NEW b \in Seq(S)
    PROVE  \/ a = b
           \/ \E i \in 1..Len(a) : i \in 1..Len(b) /\ a[i] # b[i] /\ \A j \in 1..(i - 1) : a[j] = b[j]
           \/ Len(a) < Len(b) /\ \A j \in 1..Len(a) : a[j] = b[j]
           \/ Len(b) < Len(a) /\ \A j \in 1..Len(b) : a[j] = b[j]
<1>1. Len(a) \in Nat /\ Len(b) \in Nat  OBVIOUS
<1> DEFINE D == {i \in 1..Len(a) : i \in 1..Len(b) /\ a[i] # b[i]}
<1>2. CASE D # {}
    <2>1. D \in SUBSET Nat  BY <1>1
    <2>2. PICK i \in D : \A k \in D : i <= k
        <3> HIDE DEF D
        <3> QED  BY <2>1, <1>2, LeastNat
    <2>3. i \in 1..Len(a) /\ i \in 1..Len(b) /\ a[i] # b[i]  OBVIOUS
    <2>4. ASSUME NEW j \in 1..(i - 1) PROVE a[j] = b[j]
        <3>1. j \in 1..Len(a) /\ j \in 1..Len(b) /\ ~(i <= j)  BY <2>3, <1>1
        <3>2. j \notin D  BY <3>1, <2>2
        <3> QED  BY <3>1, <3>2
    <2> QED  BY <2>3, <2>4
<1>3. CASE D = {}
    <2>1. \A j \in 1..Len(a) : j \in 1..Len(b) => a[j] = b[j]  BY <1>3
    <2>2. CASE Len(a) < Len(b)
        <3>1. \A j \in 1..Len(a) : j \in 1..Len(b)  BY <2>2, <1>1
        <3> QED  BY <3>1, <2>1, <2>2
    <2>3. CASE Len(b) < Len(a)
        <3>1. \A j \in 1..Len(b) : j \in 1..Len(a)  BY <2>3, <1>1
        <3> QED  BY <3>1, <2>1, <2>3
    <2>4. CASE Len(a) = Len(b)
        <3>1. \A j \in 1..Len(a) : a[j] = b[j]  BY <2>1, <2>4
        <3> QED  BY <3>1, <2>4, SeqEqual
    <2> QED  BY <2>2, <2>3, <2>4, <1>1
<1> QED  BY <1>2, <1>3

\* Before is a total order of sequences of pairs.
LEMMA BeforeOrder ==
    ASSUME NEW a \in Seq(Pairs), NEW b \in Seq(Pairs), NEW c \in Seq(Pairs)
    PROVE  /\ ~Before(a, a)
           /\ ~(Before(a, b) /\ Before(b, a))
           /\ a # b => Before(a, b) \/ Before(b, a)
           /\ Before(a, b) /\ Before(b, c) => Before(a, c)
<1>1. /\ Len(a) \in Nat /\ Len(b) \in Nat /\ Len(c) \in Nat
      /\ DOMAIN a = 1..Len(a) /\ DOMAIN b = 1..Len(b) /\ DOMAIN c = 1..Len(c)
      /\ \A i \in 1..Len(a) : a[i] \in Pairs
      /\ \A i \in 1..Len(b) : b[i] \in Pairs
      /\ \A i \in 1..Len(c) : c[i] \in Pairs
    OBVIOUS
<1>2. ~Before(a, a)  BY <1>1, BelowOrder DEF Before
<1>3. a # b => (Before(a, b) \/ Before(b, a)) /\ ~(Before(a, b) /\ Before(b, a))
    <2> SUFFICES ASSUME a # b PROVE (Before(a, b) \/ Before(b, a)) /\ ~(Before(a, b) /\ Before(b, a))
        OBVIOUS
    <2>1. CASE \E i \in 1..Len(a) : i \in 1..Len(b) /\ a[i] # b[i] /\ \A j \in 1..(i - 1) : a[j] = b[j]
        <3>1. PICK i \in 1..Len(a) : i \in 1..Len(b) /\ a[i] # b[i] /\ \A j \in 1..(i - 1) : a[j] = b[j]  BY <2>1
        <3>2. Before(a, b) <=> Below(a[i], b[i])  BY <3>1, BeforeAt
        <3>3. Before(b, a) <=> Below(b[i], a[i])
            <4>1. \A j \in 1..(i - 1) : b[j] = a[j]  BY <3>1
            <4> QED  BY <3>1, <4>1, BeforeAt
        <3> QED  BY <3>1, <3>2, <3>3, <1>1, BelowOrder
    <2>2. CASE Len(a) < Len(b) /\ \A j \in 1..Len(a) : a[j] = b[j]  BY <2>2, BeforePrefix
    <2>3. CASE Len(b) < Len(a) /\ \A j \in 1..Len(b) : a[j] = b[j]
        <3>1. \A j \in 1..Len(b) : b[j] = a[j]  BY <2>3
        <3> QED  BY <3>1, <2>3, BeforePrefix
    <2> QED  BY <2>1, <2>2, <2>3, Differing
<1>4. ASSUME Before(a, b), Before(b, c) PROVE Before(a, c)
    <2>1. PICK n \in DOMAIN b : /\ \A i \in 1..(n - 1) : i \in DOMAIN a /\ a[i] = b[i]
                                /\ n \in DOMAIN a => Below(a[n], b[n])
        BY <1>4 DEF Before
    <2>2. PICK m \in DOMAIN c : /\ \A i \in 1..(m - 1) : i \in DOMAIN b /\ b[i] = c[i]
                                /\ m \in DOMAIN b => Below(b[m], c[m])
        BY <1>4 DEF Before
    <2>3. CASE n < m
        <3>1. n \in 1..(m - 1) /\ n \in DOMAIN b /\ b[n] = c[n]  BY <2>2, <2>3, <1>1
        <3>2. n \in DOMAIN c  BY <2>3, <1>1
        <3>3. \A i \in 1..(n - 1) : i \in 1..(m - 1)  BY <2>3, <1>1
        <3>4. \A i \in 1..(n - 1) : i \in DOMAIN a /\ a[i] = c[i]  BY <3>3, <2>1, <2>2
        <3>5. n \in DOMAIN a => Below(a[n], c[n])  BY <3>1, <2>1
        <3> QED  BY <3>2, <3>4, <3>5 DEF Before
    <2>4. CASE m <= n
        <3>1. \A i \in 1..(m - 1) : i \in 1..(n - 1)  BY <2>4, <1>1
        <3>2. \A i \in 1..(m - 1) : i \in DOMAIN a /\ a[i] = c[i]  BY <3>1, <2>1, <2>2
        <3>3. m \in DOMAIN b  BY <2>4, <1>1
        <3>4. ASSUME m \in DOMAIN a PROVE Below(a[m], c[m])
            <4>1. CASE m = n
                <5>1. Below(a[m], b[m]) /\ Below(b[m], c[m])  BY <4>1, <3>3, <3>4, <2>1, <2>2
                <5> QED  BY <5>1, <3>3, <3>4, <1>1, BelowOrder
            <4>2. CASE m # n
                <5>1. m \in 1..(n - 1)  BY <4>2, <2>4, <1>1
                <5> QED  BY <5>1, <2>1, <2>2, <3>3
            <4> QED  BY <4>1, <4>2
        <3> QED  BY <3>2, <3>4 DEF Before
    <2> QED  BY <2>3, <2>4, <1>1
<1> QED  BY <1>2, <1>3, <1>4

-----------------------------------------------------------------------------
(* Versions *)

\* What an identifier counts in a version's precedence: numbers before text.
Rank(x) == IF x.num # NaN THEN <<1, x.num>> ELSE <<2, x.text>>

\* The types that ReleasesAssumption gives a version.
LEMMA VersionTypes ==
    ASSUME NEW v \in Versions
    PROVE  /\ v.core \in [1..3 -> Nat] /\ v.pre \in Seq(Identifier)
           /\ v = [core |-> v.core, pre |-> v.pre]
           /\ DOMAIN v.core = 1..3 /\ DOMAIN v.pre = 1..Len(v.pre) /\ Len(v.pre) \in Nat
           /\ \A i \in 1..3 : v.core[i] \in Nat
           /\ \A i \in 1..Len(v.pre) : v.pre[i] \in Identifier
<1>1. v \in [core : [1..3 -> Nat], pre : Seq(Identifier)]  BY ReleasesAssumption
<1>2. v.core \in [1..3 -> Nat] /\ v.pre \in Seq(Identifier) /\ v = [core |-> v.core, pre |-> v.pre]  BY <1>1
<1> QED  BY <1>2

LEMMA RankType ==
    \A x \in Identifier : Rank(x) \in Pairs /\ Rank(x)[1] \in {1, 2}
BY DEF Rank, Identifier, Pairs, NaN

\* A version's precedence: its three numbers, and then its identifiers, or a pair that is above every identifier.
LEMMA PrecedenceIs ==
    ASSUME NEW v \in Versions
    PROVE  /\ Precedence(v) \in Seq(Pairs)
           /\ Len(Precedence(v)) = IF IsPre(v) THEN 3 + Len(v.pre) ELSE 4
           /\ \A i \in 1..3 : Precedence(v)[i] = <<0, v.core[i]>>
           /\ IsPre(v) => \A i \in 1..Len(v.pre) : Precedence(v)[3 + i] = Rank(v.pre[i])
           /\ ~IsPre(v) => Precedence(v)[4] = <<3, 0>>
<1> DEFINE c == [i \in 1..3 |-> <<0, v.core[i]>>]
           p == [i \in 1..Len(v.pre) |-> Rank(v.pre[i])]
           q == << <<3, 0>> >>
<1>1. c \in Seq(Pairs) /\ Len(c) = 3
    <2>1. c \in [1..3 -> Pairs]  BY VersionTypes DEF Pairs
    <2> QED  BY <2>1, SeqDef
<1>2. p \in Seq(Pairs) /\ Len(p) = Len(v.pre)
    <2>1. p \in [1..Len(v.pre) -> Pairs]  BY VersionTypes, RankType
    <2> QED  BY <2>1, VersionTypes
<1>3. q \in Seq(Pairs) /\ Len(q) = 1 /\ q[1] = <<3, 0>>  BY DEF Pairs
<1>4. Precedence(v) = c \o IF IsPre(v) THEN p ELSE q  BY VersionTypes, Zenon DEF Precedence, Rank
<1>5. \A i \in 1..3 : c[i] = <<0, v.core[i]>>  OBVIOUS
<1>6. \A i \in 1..Len(v.pre) : p[i] = Rank(v.pre[i])  OBVIOUS
<1> HIDE DEF c, p, q
<1>7. CASE IsPre(v)
    <2>1. Precedence(v) = c \o p  BY <1>4, <1>7
    <2>2. Len(v.pre) \in Nat  BY VersionTypes
    <2>3. /\ c \o p \in Seq(Pairs) /\ Len(c \o p) = Len(c) + Len(p)
          /\ \A i \in 1..(Len(c) + Len(p)) : (c \o p)[i] = IF i <= Len(c) THEN c[i] ELSE p[i - Len(c)]
        <3>1. c \in Seq(Pairs) /\ p \in Seq(Pairs)  BY <1>1, <1>2
        <3> QED  BY <3>1, ConcatProperties
    <2>4. Precedence(v) \in Seq(Pairs) /\ Len(Precedence(v)) = 3 + Len(v.pre)  BY <2>1, <2>3, <1>1, <1>2
    <2>5. \A i \in 1..3 : (c \o p)[i] = c[i]
        <3> SUFFICES ASSUME NEW i \in 1..3 PROVE (c \o p)[i] = c[i]
            OBVIOUS
        <3>1. i \in 1..(Len(c) + Len(p)) /\ i <= Len(c)  BY <2>2, <1>1, <1>2
        <3> QED  BY <3>1, <2>3
    <2>6. \A i \in 1..Len(v.pre) : (c \o p)[3 + i] = p[i]
        <3> SUFFICES ASSUME NEW i \in 1..Len(v.pre) PROVE (c \o p)[3 + i] = p[i]
            OBVIOUS
        <3>1. 3 + i \in 1..(Len(c) + Len(p)) /\ ~(3 + i <= Len(c)) /\ (3 + i) - Len(c) = i  BY <2>2, <1>1, <1>2
        <3> QED  BY <3>1, <2>3
    <2> QED  BY <2>1, <2>4, <2>5, <2>6, <1>5, <1>6, <1>7
<1>8. CASE ~IsPre(v)
    <2>1. Precedence(v) = c \o q  BY <1>4, <1>8
    <2>2. /\ c \o q \in Seq(Pairs) /\ Len(c \o q) = Len(c) + Len(q)
          /\ \A i \in 1..(Len(c) + Len(q)) : (c \o q)[i] = IF i <= Len(c) THEN c[i] ELSE q[i - Len(c)]
        BY <1>1, <1>3, ConcatProperties
    <2>3. Precedence(v) \in Seq(Pairs) /\ Len(Precedence(v)) = 4  BY <2>1, <2>2, <1>1, <1>3
    <2>4. \A i \in 1..3 : (c \o q)[i] = c[i]
        <3> SUFFICES ASSUME NEW i \in 1..3 PROVE (c \o q)[i] = c[i]
            OBVIOUS
        <3>1. i \in 1..(Len(c) + Len(q)) /\ i <= Len(c)  BY <1>1, <1>3
        <3> QED  BY <3>1, <2>2
    <2>5. (c \o q)[4] = q[1]
        <3>1. 4 \in 1..(Len(c) + Len(q)) /\ ~(4 <= Len(c)) /\ 4 - Len(c) = 1  BY <1>1, <1>3
        <3> QED  BY <3>1, <2>2
    <2> QED  BY <2>1, <2>3, <2>4, <2>5, <1>3, <1>5, <1>8
<1> QED  BY <1>7, <1>8

LEMMA OlderIsBefore ==
    ASSUME NEW v, NEW w
    PROVE  Older(v, w) <=> Before(Precedence(v), Precedence(w))
BY DEF Older, Before, Below

\* Identifiers of the same rank are the same.
LEMMA RankApart ==
    ASSUME NEW v \in Versions, NEW w \in Versions, NEW i \in 1..Len(v.pre), NEW j \in 1..Len(w.pre),
           Rank(v.pre[i]) = Rank(w.pre[j])
    PROVE  v.pre[i] = w.pre[j]
<1> DEFINE x == v.pre[i]
           y == w.pre[j]
<1>1. x \in Identifier /\ y \in Identifier  BY VersionTypes
<1>2. x.text = y.text \/ (x.num = y.num /\ x.num # NaN) => x = y  BY VersionTypes, ReleasesAssumption
<1>3. Rank(x) = Rank(y)  OBVIOUS
<1> HIDE DEF x, y
<1>4. x = y  BY <1>1, <1>2, <1>3 DEF Rank, Identifier
<1> QED  BY <1>4 DEF x, y

\* Versions of the same precedence are the same.
LEMMA PrecedenceApart ==
    ASSUME NEW v \in Versions, NEW w \in Versions, Precedence(v) = Precedence(w)
    PROVE  v = w
<1>1. v.core = w.core
    <2>1. \A i \in 1..3 : <<0, v.core[i]>> = <<0, w.core[i]>>  BY PrecedenceIs
    <2>2. \A i \in 1..3 : v.core[i] = w.core[i]  BY <2>1
    <2> QED  BY <2>2, VersionTypes
<1>2. IsPre(v) <=> IsPre(w)
    <2>1. ASSUME NEW x \in Versions, NEW y \in Versions, Precedence(x) = Precedence(y), IsPre(x), ~IsPre(y)
          PROVE  FALSE
        <3>1. Len(x.pre) \in Nat /\ Len(x.pre) # 0  BY <2>1, VersionTypes DEF IsPre
        <3>2. 1 \in 1..Len(x.pre)  BY <3>1
        <3>3. Precedence(x)[3 + 1] = Rank(x.pre[1])  BY <2>1, <3>2, PrecedenceIs
        <3>4. Precedence(y)[4] = <<3, 0>>  BY <2>1, PrecedenceIs
        <3>5. Rank(x.pre[1])[1] \in {1, 2}  BY <3>2, VersionTypes, RankType
        <3> QED  BY <3>3, <3>4, <3>5, <2>1
    <2> QED  BY <2>1
<1>3. v.pre = w.pre
    <2>1. CASE IsPre(v)
        <3>1. Len(v.pre) = Len(w.pre)
            <4>1. 3 + Len(v.pre) = 3 + Len(w.pre)  BY <2>1, <1>2, PrecedenceIs
            <4> QED  BY <4>1, VersionTypes
        <3>2. \A i \in 1..Len(v.pre) : Rank(v.pre[i]) = Rank(w.pre[i])  BY <2>1, <1>2, <3>1, PrecedenceIs
        <3>3. \A i \in 1..Len(v.pre) : v.pre[i] = w.pre[i]  BY <3>1, <3>2, RankApart
        <3>4. v.pre \in Seq(Identifier) /\ w.pre \in Seq(Identifier)  BY VersionTypes
        <3> QED  BY <3>1, <3>3, <3>4, SeqEqual
    <2>2. CASE ~IsPre(v)  BY <2>2, <1>2 DEF IsPre
    <2> QED  BY <2>1, <2>2
<1> QED  BY <1>1, <1>3, VersionTypes

\* Older is a total order of versions.
LEMMA OlderOrder ==
    /\ \A v, w \in Versions : ~(Older(v, w) /\ Older(w, v))
    /\ \A v, w \in Versions : v # w => Older(v, w) \/ Older(w, v)
    /\ \A u, v, w \in Versions : Older(u, v) /\ Older(v, w) => Older(u, w)
<1>1. \A v \in Versions : Precedence(v) \in Seq(Pairs)  BY PrecedenceIs
<1>2. ASSUME NEW u \in Versions, NEW v \in Versions, NEW w \in Versions
      PROVE  /\ ~(Older(v, w) /\ Older(w, v))
             /\ v # w => Older(v, w) \/ Older(w, v)
             /\ Older(u, v) /\ Older(v, w) => Older(u, w)
    <2> DEFINE a == Precedence(u)
               b == Precedence(v)
               c == Precedence(w)
    <2>1. a \in Seq(Pairs) /\ b \in Seq(Pairs) /\ c \in Seq(Pairs)  BY <1>1
    <2>2. v # w => b # c  BY PrecedenceApart
    <2>3. /\ Older(v, w) <=> Before(b, c)
          /\ Older(w, v) <=> Before(c, b)
          /\ Older(u, v) <=> Before(a, b)
          /\ Older(u, w) <=> Before(a, c)
        BY OlderIsBefore
    <2> HIDE DEF a, b, c
    <2>4. ~(Before(b, c) /\ Before(c, b)) /\ (b # c => Before(b, c) \/ Before(c, b))  BY <2>1, BeforeOrder
    <2>5. Before(a, b) /\ Before(b, c) => Before(a, c)  BY <2>1, BeforeOrder
    <2> QED  BY <2>2, <2>3, <2>4, <2>5
<1> QED  BY <1>2

-----------------------------------------------------------------------------
(* Compare *)

\* The sign that Compare gives two versions that are in the order that before and after say.
Sign(before, after) == IF before THEN -1 ELSE IF after THEN 1 ELSE 0

LEMMA CompareIdentifiersIs ==
    ASSUME NEW x \in Identifier, NEW y \in Identifier
    PROVE  CompareIdentifiers(x, y) = Sign(Below(Rank(x), Rank(y)), Below(Rank(y), Rank(x)))
<1>1. x.num \in Nat \cup {NaN} /\ y.num \in Nat \cup {NaN} /\ x.text \in Nat /\ y.text \in Nat  BY DEF Identifier
<1>2. CASE x.num # NaN /\ y.num # NaN  BY <1>1, <1>2 DEF CompareIdentifiers, Rank, Below, cmp, Sign
<1>3. CASE x.num # NaN /\ y.num = NaN  BY <1>1, <1>3 DEF CompareIdentifiers, Rank, Below, cmp, Sign
<1>4. CASE x.num = NaN /\ y.num # NaN  BY <1>1, <1>4 DEF CompareIdentifiers, Rank, Below, cmp, Sign
<1>5. CASE x.num = NaN /\ y.num = NaN  BY <1>1, <1>5 DEF CompareIdentifiers, Rank, Below, cmp, Sign
<1> QED  BY <1>2, <1>3, <1>4, <1>5

\* The first place at which the precedences of two versions differ decides which of them is older.
LEMMA OlderAt ==
    ASSUME NEW v \in Versions, NEW w \in Versions, NEW i \in 1..Len(Precedence(v)), i \in 1..Len(Precedence(w)),
           \A j \in 1..(i - 1) : Precedence(v)[j] = Precedence(w)[j],
           Precedence(v)[i] # Precedence(w)[i]
    PROVE  /\ Older(v, w) <=> Below(Precedence(v)[i], Precedence(w)[i])
           /\ Older(w, v) <=> Below(Precedence(w)[i], Precedence(v)[i])
<1> DEFINE a == Precedence(v)
           b == Precedence(w)
<1>1. a \in Seq(Pairs) /\ b \in Seq(Pairs)  BY PrecedenceIs
<1>2. /\ i \in 1..Len(a) /\ i \in 1..Len(b)
      /\ \A j \in 1..(i - 1) : a[j] = b[j] /\ b[j] = a[j]
      /\ a[i] # b[i]
    OBVIOUS
<1>3. (Older(v, w) <=> Before(a, b)) /\ (Older(w, v) <=> Before(b, a))  BY OlderIsBefore
<1> HIDE DEF a, b
<1>4. (Before(a, b) <=> Below(a[i], b[i])) /\ (Before(b, a) <=> Below(b[i], a[i]))  BY <1>1, <1>2, BeforeAt
<1> QED  BY <1>3, <1>4 DEF a, b

LEMMA PrecedenceLength ==
    ASSUME NEW v \in Versions
    PROVE  Len(Precedence(v)) \in Nat /\ Len(Precedence(v)) >= 4
<1>1. Len(v.pre) \in Nat /\ (IsPre(v) => Len(v.pre) # 0)  BY VersionTypes DEF IsPre
<1>2. Len(Precedence(v)) = IF IsPre(v) THEN 3 + Len(v.pre) ELSE 4  BY PrecedenceIs
<1> QED  BY <1>1, <1>2

\* Compare on versions of different numbers.
LEMMA CompareCores ==
    ASSUME NEW v \in Versions, NEW w \in Versions, FirstDifference(v.core, w.core) # {}
    PROVE  Compare(v, w) = Sign(Older(v, w), Older(w, v))
<1> DEFINE i == CHOOSE i \in FirstDifference(v.core, w.core) : TRUE
<1>1. i \in FirstDifference(v.core, w.core)  OBVIOUS
<1>2. Compare(v, w) = cmp(v.core[i], w.core[i])  BY DEF Compare
<1> HIDE DEF i
<1>3. i \in 1..3 /\ v.core[i] # w.core[i] /\ \A j \in 1..(i - 1) : v.core[j] = w.core[j]
    BY <1>1, VersionTypes DEF FirstDifference
<1>4. v.core[i] \in Nat /\ w.core[i] \in Nat  BY <1>3, VersionTypes
<1>5. i \in 1..Len(Precedence(v)) /\ i \in 1..Len(Precedence(w))  BY <1>3, PrecedenceLength
<1>6. \A j \in 1..3 : Precedence(v)[j] = <<0, v.core[j]>> /\ Precedence(w)[j] = <<0, w.core[j]>>  BY PrecedenceIs
<1>7. \A j \in 1..(i - 1) : Precedence(v)[j] = Precedence(w)[j]  BY <1>3, <1>6
<1>8. Precedence(v)[i] # Precedence(w)[i]  BY <1>3, <1>6
<1>9. /\ Older(v, w) <=> Below(<<0, v.core[i]>>, <<0, w.core[i]>>)
      /\ Older(w, v) <=> Below(<<0, w.core[i]>>, <<0, v.core[i]>>)
    BY <1>3, <1>5, <1>6, <1>7, <1>8, OlderAt
<1>10. (Older(v, w) <=> v.core[i] < w.core[i]) /\ (Older(w, v) <=> w.core[i] < v.core[i])
    BY <1>4, <1>9 DEF Below
<1> QED  BY <1>2, <1>4, <1>10 DEF cmp, Sign

\* Versions whose numbers don't differ have the same ones.
LEMMA SameCores ==
    ASSUME NEW v \in Versions, NEW w \in Versions, FirstDifference(v.core, w.core) = {}
    PROVE  \A i \in 1..3 : v.core[i] = w.core[i]
<1>1. DOMAIN v.core = 1..3 /\ DOMAIN w.core = 1..3  BY VersionTypes
<1>2. \A i \in 1..3 : ~(v.core[i] # w.core[i] /\ \A j \in 1..(i - 1) : v.core[j] = w.core[j])
    BY <1>1 DEF FirstDifference
<1>3. v.core[1] = w.core[1]  BY <1>2
<1>4. v.core[2] = w.core[2]  BY <1>2, <1>3
<1>5. v.core[3] = w.core[3]  BY <1>2, <1>3, <1>4
<1> QED  BY <1>3, <1>4, <1>5

LEMMA SameStart ==
    ASSUME NEW v \in Versions, NEW w \in Versions, FirstDifference(v.core, w.core) = {}
    PROVE  \A i \in 1..3 : Precedence(v)[i] = Precedence(w)[i]
<1>1. \A i \in 1..3 : Precedence(v)[i] = <<0, v.core[i]>> /\ Precedence(w)[i] = <<0, w.core[i]>>  BY PrecedenceIs
<1> QED  BY <1>1, SameCores

\* Compare on versions that differ in their identifiers, at a first place i.
LEMMA CompareAtIdentifier ==
    ASSUME NEW v \in Versions, NEW w \in Versions, FirstDifference(v.core, w.core) = {}, IsPre(v), IsPre(w),
           NEW i \in FirstDifference(v.pre, w.pre)
    PROVE  CompareIdentifiers(v.pre[i], w.pre[i]) = Sign(Older(v, w), Older(w, v))
<1>1. /\ i \in 1..Len(v.pre) /\ i \in 1..Len(w.pre) /\ i \in Nat
      /\ v.pre[i] # w.pre[i] /\ \A j \in 1..(i - 1) : v.pre[j] = w.pre[j]
    BY VersionTypes DEF FirstDifference
<1>2. Len(v.pre) \in Nat /\ Len(w.pre) \in Nat  BY VersionTypes
<1>3. Len(Precedence(v)) = 3 + Len(v.pre) /\ Len(Precedence(w)) = 3 + Len(w.pre)  BY PrecedenceIs
<1>4. 3 + i \in 1..Len(Precedence(v)) /\ 3 + i \in 1..Len(Precedence(w))  BY <1>1, <1>2, <1>3
<1>5. /\ \A j \in 1..Len(v.pre) : Precedence(v)[3 + j] = Rank(v.pre[j])
      /\ \A j \in 1..Len(w.pre) : Precedence(w)[3 + j] = Rank(w.pre[j])
    BY PrecedenceIs
<1>6. \A j \in 1..((3 + i) - 1) : Precedence(v)[j] = Precedence(w)[j]
    <2> SUFFICES ASSUME NEW j \in 1..((3 + i) - 1) PROVE Precedence(v)[j] = Precedence(w)[j]
        OBVIOUS
    <2>1. CASE j \in 1..3  BY <2>1, SameStart
    <2>2. CASE j \notin 1..3
        <3> DEFINE k == j - 3
        <3>1. k \in 1..(i - 1) /\ k \in 1..Len(v.pre) /\ k \in 1..Len(w.pre) /\ j = 3 + k  BY <2>2, <1>1, <1>2
        <3> HIDE DEF k
        <3> QED  BY <3>1, <1>1, <1>5
    <2> QED  BY <2>1, <2>2
<1>7. Rank(v.pre[i]) # Rank(w.pre[i])  BY <1>1, RankApart
<1>8. /\ Older(v, w) <=> Below(Rank(v.pre[i]), Rank(w.pre[i]))
      /\ Older(w, v) <=> Below(Rank(w.pre[i]), Rank(v.pre[i]))
    <2> DEFINE n == 3 + i
    <2>1. Precedence(v)[n] = Rank(v.pre[i]) /\ Precedence(w)[n] = Rank(w.pre[i])  BY <1>1, <1>5
    <2>2. /\ n \in 1..Len(Precedence(v)) /\ n \in 1..Len(Precedence(w))
          /\ \A j \in 1..(n - 1) : Precedence(v)[j] = Precedence(w)[j]
        BY <1>4, <1>6
    <2> HIDE DEF n
    <2>3. Precedence(v)[n] # Precedence(w)[n]  BY <2>1, <1>7
    <2>4. /\ Older(v, w) <=> Below(Precedence(v)[n], Precedence(w)[n])
          /\ Older(w, v) <=> Below(Precedence(w)[n], Precedence(v)[n])
        BY <2>2, <2>3, OlderAt
    <2> QED  BY <2>1, <2>4
<1>9. v.pre[i] \in Identifier /\ w.pre[i] \in Identifier  BY <1>1, VersionTypes
<1>10. CompareIdentifiers(v.pre[i], w.pre[i])
       = IF Below(Rank(v.pre[i]), Rank(w.pre[i])) THEN -1 ELSE IF Below(Rank(w.pre[i]), Rank(v.pre[i])) THEN 1 ELSE 0
    BY <1>9, CompareIdentifiersIs DEF Sign
<1> QED  BY <1>8, <1>10 DEF Sign

\* A pre-release is older than the ones whose identifiers it begins.
LEMMA OlderPrefix ==
    ASSUME NEW v \in Versions, NEW w \in Versions, FirstDifference(v.core, w.core) = {}, IsPre(v), IsPre(w),
           Len(v.pre) < Len(w.pre), \A j \in 1..Len(v.pre) : v.pre[j] = w.pre[j]
    PROVE  Older(v, w) /\ ~Older(w, v)
<1>1. Len(v.pre) \in Nat /\ Len(w.pre) \in Nat  BY VersionTypes
<1>2. Len(Precedence(v)) = 3 + Len(v.pre) /\ Len(Precedence(w)) = 3 + Len(w.pre)  BY PrecedenceIs
<1>3. /\ \A j \in 1..Len(v.pre) : Precedence(v)[3 + j] = Rank(v.pre[j])
      /\ \A j \in 1..Len(w.pre) : Precedence(w)[3 + j] = Rank(w.pre[j])
    BY PrecedenceIs
<1>4. \A j \in 1..Len(Precedence(v)) : Precedence(v)[j] = Precedence(w)[j]
    <2> SUFFICES ASSUME NEW j \in 1..Len(Precedence(v)) PROVE Precedence(v)[j] = Precedence(w)[j]
        OBVIOUS
    <2>1. CASE j \in 1..3  BY <2>1, SameStart
    <2>2. CASE j \notin 1..3
        <3> DEFINE k == j - 3
        <3>1. k \in 1..Len(v.pre) /\ k \in 1..Len(w.pre) /\ j = 3 + k  BY <2>2, <1>1, <1>2
        <3> HIDE DEF k
        <3> QED  BY <3>1, <1>3
    <2> QED  BY <2>1, <2>2
<1>5. Len(Precedence(v)) < Len(Precedence(w))  BY <1>1, <1>2
<1>6. Precedence(v) \in Seq(Pairs) /\ Precedence(w) \in Seq(Pairs)  BY PrecedenceIs
<1>7. Before(Precedence(v), Precedence(w)) /\ ~Before(Precedence(w), Precedence(v))
    BY <1>4, <1>5, <1>6, BeforePrefix
<1> QED  BY <1>7, OlderIsBefore

\* A pre-release is older than its release.
LEMMA OlderThanRelease ==
    ASSUME NEW v \in Versions, NEW w \in Versions, FirstDifference(v.core, w.core) = {}, IsPre(v), ~IsPre(w)
    PROVE  Older(v, w) /\ ~Older(w, v)
<1>1. Len(v.pre) \in Nat /\ Len(v.pre) # 0  BY VersionTypes DEF IsPre
<1>2. 1 \in 1..Len(v.pre)  BY <1>1
<1>3. Precedence(v)[3 + 1] = Rank(v.pre[1])  BY <1>2, PrecedenceIs
<1>4. Precedence(v)[4] = Rank(v.pre[1]) /\ Precedence(w)[4] = <<3, 0>>  BY <1>3, PrecedenceIs
<1>5. Rank(v.pre[1]) \in Pairs /\ Rank(v.pre[1])[1] \in {1, 2}  BY <1>2, VersionTypes, RankType
<1>6. 4 \in 1..Len(Precedence(v)) /\ 4 \in 1..Len(Precedence(w))  BY PrecedenceLength
<1>7. \A j \in 1..(4 - 1) : Precedence(v)[j] = Precedence(w)[j]
    <2>1. \A j \in 1..(4 - 1) : j \in 1..3  OBVIOUS
    <2> QED  BY <2>1, SameStart
<1>8. Precedence(v)[4] # Precedence(w)[4]  BY <1>4, <1>5
<1>9. /\ Older(v, w) <=> Below(Rank(v.pre[1]), <<3, 0>>)
      /\ Older(w, v) <=> Below(<<3, 0>>, Rank(v.pre[1]))
    BY <1>4, <1>6, <1>7, <1>8, OlderAt
<1> QED  BY <1>5, <1>9 DEF Below, Pairs

\* Compare is semantic versioning's order: it returns -1, 0 or 1 as v is older than, the same as or newer than w.
THEOREM CompareIsPrecedence ==
    \A v, w \in Versions : Compare(v, w) = IF Older(v, w) THEN -1 ELSE IF Older(w, v) THEN 1 ELSE 0
<1> SUFFICES ASSUME NEW v \in Versions, NEW w \in Versions
             PROVE  Compare(v, w) = Sign(Older(v, w), Older(w, v))
    BY DEF Sign
<1>1. CASE FirstDifference(v.core, w.core) # {}  BY <1>1, CompareCores
<1>2. CASE FirstDifference(v.core, w.core) = {}
    <2>1. Compare(v, w) = ComparePre(v.pre, w.pre)  BY <1>2 DEF Compare
    <2>2. FirstDifference(w.core, v.core) = {}  BY <1>2 DEF FirstDifference
    <2>3. CASE v.pre = w.pre
        <3>1. v.core = w.core  BY <1>2, SameCores, VersionTypes
        <3>2. v = w  BY <3>1, <2>3, VersionTypes
        <3>3. ~Older(v, w) /\ ~Older(w, v)  BY <3>2, OlderOrder
        <3>4. ComparePre(v.pre, w.pre) = 0  BY <2>3 DEF ComparePre
        <3> QED  BY <3>3, <3>4, <2>1 DEF Sign
    <2>4. CASE v.pre # w.pre /\ v.pre = <<>>
        <3>1. ComparePre(v.pre, w.pre) = 1  BY <2>4 DEF ComparePre
        <3>2. Older(w, v) /\ ~Older(v, w)  BY <2>2, <2>4, OlderThanRelease DEF IsPre
        <3> QED  BY <3>1, <3>2, <2>1 DEF Sign
    <2>5. CASE v.pre # w.pre /\ w.pre = <<>>
        <3>1. ComparePre(v.pre, w.pre) = -1  BY <2>5 DEF ComparePre
        <3>2. Older(v, w) /\ ~Older(w, v)  BY <1>2, <2>5, OlderThanRelease DEF IsPre
        <3> QED  BY <3>1, <3>2, <2>1 DEF Sign
    <2>6. CASE v.pre # w.pre /\ v.pre # <<>> /\ w.pre # <<>>
        <3>1. IsPre(v) /\ IsPre(w)  BY <2>6 DEF IsPre
        <3>2. CASE FirstDifference(v.pre, w.pre) # {}
            <4> DEFINE i == CHOOSE i \in FirstDifference(v.pre, w.pre) : TRUE
            <4>1. i \in FirstDifference(v.pre, w.pre)  BY <3>2
            <4>2. ComparePre(v.pre, w.pre) = CompareIdentifiers(v.pre[i], w.pre[i])  BY <2>6, <3>2 DEF ComparePre
            <4> HIDE DEF i
            <4> QED  BY <4>1, <4>2, <3>1, <2>1, <1>2, CompareAtIdentifier
        <3>3. CASE FirstDifference(v.pre, w.pre) = {}
            <4>1. ComparePre(v.pre, w.pre) = cmp(Len(v.pre), Len(w.pre))  BY <2>6, <3>3 DEF ComparePre
            <4>2. Len(v.pre) \in Nat /\ Len(w.pre) \in Nat  BY VersionTypes
            <4>3. ~\E i \in 1..Len(v.pre) :
                      /\ i \in 1..Len(w.pre) /\ v.pre[i] # w.pre[i]
                      /\ \A j \in 1..(i - 1) : v.pre[j] = w.pre[j]
                BY <3>3, VersionTypes DEF FirstDifference
            <4>4. \/ Len(v.pre) < Len(w.pre) /\ \A j \in 1..Len(v.pre) : v.pre[j] = w.pre[j]
                  \/ Len(w.pre) < Len(v.pre) /\ \A j \in 1..Len(w.pre) : v.pre[j] = w.pre[j]
                <5>1. v.pre \in Seq(Identifier) /\ w.pre \in Seq(Identifier)  BY VersionTypes
                <5> QED  BY <5>1, <4>3, <2>6, Differing
            <4>5. CASE Len(v.pre) < Len(w.pre) /\ \A j \in 1..Len(v.pre) : v.pre[j] = w.pre[j]
                <5>1. Older(v, w) /\ ~Older(w, v)  BY <4>5, <3>1, <1>2, OlderPrefix
                <5> QED  BY <5>1, <4>1, <4>2, <4>5, <2>1 DEF cmp, Sign
            <4>6. CASE Len(w.pre) < Len(v.pre) /\ \A j \in 1..Len(w.pre) : v.pre[j] = w.pre[j]
                <5>1. \A j \in 1..Len(w.pre) : w.pre[j] = v.pre[j]  BY <4>6
                <5>2. Older(w, v) /\ ~Older(v, w)  BY <5>1, <4>6, <3>1, <2>2, OlderPrefix
                <5> QED  BY <5>2, <4>1, <4>2, <4>6, <2>1 DEF cmp, Sign
            <4> QED  BY <4>4, <4>5, <4>6
        <3> QED  BY <3>2, <3>3
    <2> QED  BY <2>3, <2>4, <2>5, <2>6
<1> QED  BY <1>1, <1>2

-----------------------------------------------------------------------------
(* Latest *)

\* The newest of a set of versions.
Newest(C) == {v \in C : \A w \in C : ~Older(v, w)}

LEMMA NewestIsOne ==
    ASSUME NEW C \in SUBSET Versions, NEW b \in Newest(C)
    PROVE  Newest(C) = {b} /\ b \in C /\ \A w \in C : w = b \/ Older(w, b)
BY OlderOrder DEF Newest

\* A round of Latest's loop: if it has the newest of the versions C, it then has the newest of them and v, or still
\* that of C if v is a pre-release that isn't asked for.
LEMMA BetterIsNewest ==
    ASSUME NEW C \in SUBSET Versions, NEW v \in Versions, NEW pre \in BOOLEAN, NEW D,
           D = IF IsPre(v) /\ ~pre THEN C ELSE C \cup {v},
           C # {} => Newest(C) # {}
    PROVE  Better(Newest(C), v, pre) = Newest(D) /\ (D # {} => Newest(D) # {})
<1>1. CASE IsPre(v) /\ ~pre  BY <1>1 DEF Better
<1>2. CASE ~(IsPre(v) /\ ~pre) /\ C = {}
    <2>1. D = {v}  BY <1>2
    <2>2. Newest(C) = {} /\ Newest(D) = {v}  BY <1>2, <2>1, OlderOrder DEF Newest
    <2> QED  BY <1>2, <2>2 DEF Better
<1>3. CASE ~(IsPre(v) /\ ~pre) /\ C # {}
    <2>1. D = C \cup {v} /\ D \in SUBSET Versions  BY <1>3
    <2>2. PICK b \in Newest(C) : TRUE  BY <1>3
    <2>3. Newest(C) = {b} /\ b \in C /\ \A w \in C : w = b \/ Older(w, b)  BY NewestIsOne
    <2>4. Better(Newest(C), v, pre) = IF Compare(v, b) > 0 THEN {v} ELSE {b}  BY <1>3, <2>3 DEF Better
    <2>5. Compare(v, b) > 0 <=> Older(b, v)
        <3>1. Compare(v, b) = IF Older(v, b) THEN -1 ELSE IF Older(b, v) THEN 1 ELSE 0  BY <2>3, CompareIsPrecedence
        <3>2. ~(Older(v, b) /\ Older(b, v))  BY <2>3, OlderOrder
        <3> QED  BY <3>1, <3>2
    <2>6. CASE Older(b, v)
        <3>1. \A w \in C : Older(w, v)  BY <2>3, <2>6, OlderOrder
        <3>2. Newest(D) = {v}  BY <3>1, <2>1, OlderOrder DEF Newest
        <3> QED  BY <3>2, <2>4, <2>5, <2>6
    <2>7. CASE ~Older(b, v)
        <3>1. b \in Newest(D)  BY <2>1, <2>3, <2>7 DEF Newest
        <3>2. Newest(D) = {b}  BY <3>1, <2>1, NewestIsOne
        <3> QED  BY <3>2, <2>4, <2>5, <2>7
    <2> QED  BY <2>6, <2>7
<1> QED  BY <1>1, <1>2, <1>3

\* What Latest's loop has after each of the first n rounds.
Rounds(best, listed, pre, n) ==
    best = [i \in 0..n |-> IF i = 0 THEN {} ELSE Better(best[i - 1], listed[i], pre)]

\* The rounds define what the loop has: there is a first number of rounds for which they wouldn't, and it is none.
LEMMA RoundsExist ==
    ASSUME NEW listed, NEW pre, NEW n \in Nat
    PROVE  \E best : Rounds(best, listed, pre, n)
<1> DEFINE Bad == {m \in Nat : ~\E best : Rounds(best, listed, pre, m)}
<1> SUFFICES ASSUME Bad # {} PROVE FALSE
    OBVIOUS
<1>1. PICK m \in Bad : \A k \in Bad : m <= k
    <2>1. Bad \in SUBSET Nat  OBVIOUS
    <2> HIDE DEF Bad
    <2> QED  BY <2>1, LeastNat
<1>2. m \in Nat  OBVIOUS
<1>3. CASE m = 0
    <2>1. Rounds([i \in 0..0 |-> {}], listed, pre, 0)  BY DEF Rounds
    <2> QED  BY <2>1, <1>3
<1>4. CASE m # 0
    <2>1. m - 1 \in Nat /\ ~(m <= m - 1)  BY <1>2, <1>4
    <2>2. PICK g : Rounds(g, listed, pre, m - 1)  BY <2>1, <1>1
    <2> DEFINE f == [i \in 0..m |-> IF i = m THEN Better(g[m - 1], listed[m], pre) ELSE g[i]]
    <2>3. ASSUME NEW i \in 0..m PROVE f[i] = IF i = 0 THEN {} ELSE Better(f[i - 1], listed[i], pre)
        <3>1. CASE i = m
            <4>1. m - 1 \in 0..m /\ m - 1 # m  BY <1>2, <1>4
            <4>2. f[m - 1] = g[m - 1]  BY <4>1
            <4> QED  BY <3>1, <4>2, <1>4
        <3>2. CASE i # m
            <4>1. i \in 0..(m - 1)  BY <3>2, <1>2
            <4>2. f[i] = IF i = 0 THEN {} ELSE Better(g[i - 1], listed[i], pre)  BY <4>1, <3>2, <2>2 DEF Rounds
            <4>3. i # 0 => i - 1 \in 0..m /\ i - 1 # m  BY <4>1, <1>2
            <4>4. i # 0 => f[i - 1] = g[i - 1]  BY <4>3
            <4> HIDE DEF f
            <4> QED  BY <4>2, <4>4
        <3> QED  BY <3>1, <3>2
    <2>4. f = [i \in 0..m |-> f[i]]  OBVIOUS
    <2> HIDE DEF f
    <2>5. Rounds(f, listed, pre, m)  BY <2>3, <2>4 DEF Rounds
    <2> QED  BY <2>5
<1> QED  BY <1>3, <1>4

LEMMA LatestRounds ==
    ASSUME NEW listed \in Seq(Versions), NEW pre \in BOOLEAN
    PROVE  \E best : Rounds(best, listed, pre, Len(listed)) /\ Latest(listed, pre) = best[Len(listed)]
<1> DEFINE best == CHOOSE best : Rounds(best, listed, pre, Len(listed))
<1>1. Rounds(best, listed, pre, Len(listed))
    <2>1. Len(listed) \in Nat  OBVIOUS
    <2>2. \E f : Rounds(f, listed, pre, Len(listed))  BY <2>1, RoundsExist
    <2> QED  BY <2>2
<1>2. Latest(listed, pre) = best[Len(listed)]  BY DEF Latest, Rounds
<1> QED  BY <1>1, <1>2

\* Latest finds the newest of the listed releases, in whichever order they are listed, and a pre-release only if it was
\* asked for one: by induction, after each of its rounds it has the newest of the releases it has seen.
THEOREM LatestIsNewest ==
    \A listed \in Seq(Versions), pre \in BOOLEAN :
        Latest(listed, pre) = Newest({v \in Range(listed) : pre \/ ~IsPre(v)})
<1> SUFFICES ASSUME NEW listed \in Seq(Versions), NEW pre \in BOOLEAN
             PROVE  Latest(listed, pre) = Newest({v \in Range(listed) : pre \/ ~IsPre(v)})
    OBVIOUS
<1> DEFINE n == Len(listed)
           Seen(k) == {v \in Versions : (pre \/ ~IsPre(v)) /\ \E j \in 1..k : listed[j] = v}
           Right(f, k) == f[k] = Newest(Seen(k)) /\ (Seen(k) # {} => Newest(Seen(k)) # {})
<1>1. n \in Nat /\ DOMAIN listed = 1..n /\ \A j \in 1..n : listed[j] \in Versions  OBVIOUS
<1>2. PICK f : Rounds(f, listed, pre, n) /\ Latest(listed, pre) = f[n]  BY LatestRounds
<1>3. Right(f, 0)
    <2>1. f[0] = {}  BY <1>1, <1>2 DEF Rounds
    <2>2. Seen(0) = {}  OBVIOUS
    <2> QED  BY <2>1, <2>2 DEF Newest
<1>4. ASSUME NEW k \in 1..n, Right(f, k - 1) PROVE Right(f, k)
    <2>1. f[k] = Better(f[k - 1], listed[k], pre)  BY <1>1, <1>2 DEF Rounds
    <2>2. listed[k] \in Versions  BY <1>1
    <2>3. Seen(k) = IF IsPre(listed[k]) /\ ~pre THEN Seen(k - 1) ELSE Seen(k - 1) \cup {listed[k]}
        <3>1. \A j \in 1..k : j = k \/ j \in 1..(k - 1)  BY <1>1
        <3>2. k \in 1..k /\ \A j \in 1..(k - 1) : j \in 1..k  BY <1>1
        <3>3. CASE IsPre(listed[k]) /\ ~pre  BY <3>1, <3>2, <3>3
        <3>4. CASE ~(IsPre(listed[k]) /\ ~pre)  BY <3>1, <3>2, <3>4, <2>2
        <3> QED  BY <3>3, <3>4
    <2>4. Seen(k - 1) \in SUBSET Versions  OBVIOUS
    <2>5. f[k - 1] = Newest(Seen(k - 1)) /\ (Seen(k - 1) # {} => Newest(Seen(k - 1)) # {})  BY <1>4
    <2> HIDE DEF Seen
    <2>6. /\ Better(Newest(Seen(k - 1)), listed[k], pre) = Newest(Seen(k))
          /\ Seen(k) # {} => Newest(Seen(k)) # {}
        BY <2>2, <2>3, <2>4, <2>5, BetterIsNewest
    <2> QED  BY <2>1, <2>5, <2>6
<1>5. Right(f, n)
    <2> DEFINE Bad == {k \in 0..n : ~Right(f, k)}
    <2> HIDE DEF Right
    <2>1. ASSUME Bad # {} PROVE FALSE
        <3>1. PICK m \in Bad : \A k \in Bad : m <= k
            <4>1. Bad \in SUBSET Nat  BY <1>1
            <4> HIDE DEF Bad
            <4> QED  BY <4>1, <2>1, LeastNat
        <3>2. m \in 0..n /\ ~Right(f, m)  OBVIOUS
        <3>3. m # 0  BY <3>2, <1>3
        <3>4. m \in 1..n /\ m - 1 \in 0..n /\ ~(m <= m - 1)  BY <3>2, <3>3, <1>1
        <3>5. Right(f, m - 1)  BY <3>1, <3>4
        <3> QED  BY <3>2, <3>4, <3>5, <1>4
    <2>2. n \in 0..n  BY <1>1
    <2> QED  BY <2>1, <2>2
<1>6. Seen(n) = {v \in Range(listed) : pre \/ ~IsPre(v)}  BY <1>1 DEF Range
<1> HIDE DEF Seen
<1> QED  BY <1>2, <1>5, <1>6

-----------------------------------------------------------------------------
(* The commands that go by the order *)

ReleasesSpec == ReleasesInit /\ [][ReleasesNext]_releaseVars

\* The versions that are listed, run and installed are versions.
ReleasesTypeOK == releases \in Seq(Versions) /\ self \in Versions /\ have \in Versions

LEMMA RangeOfVersions ==
    ASSUME NEW listed \in Seq(Versions)
    PROVE  Range(listed) \subseteq Versions
BY DEF Range

\* parcon update and install.sh run and install only releases that are published.
THEOREM ReleasesTyped == ReleasesSpec => []ReleasesTypeOK
<1>1. ASSUME ReleasesInit PROVE ReleasesTypeOK  BY <1>1 DEF ReleasesInit, ReleasesTypeOK
<1>2. ASSUME ReleasesTypeOK, [ReleasesNext]_releaseVars PROVE ReleasesTypeOK'
    <2> USE <1>2 DEF ReleasesTypeOK
    <2>1. CASE \E v \in Versions : Publish(v)
        <3>1. PICK v \in Versions : Publish(v)  BY <2>1
        <3>2. <<v>> \in Seq(Versions)  OBVIOUS
        <3>3. <<v>> \o releases \in Seq(Versions)  BY <3>2, ConcatProperties
        <3> QED  BY <3>1, <3>3 DEF Publish
    <2>2. CASE \E pre \in BOOLEAN : UpdateSelf(pre)
        <3>1. PICK pre \in BOOLEAN : UpdateSelf(pre)  BY <2>2
        <3>2. Latest(releases, pre) \subseteq Range(releases)  BY LatestIsNewest DEF Newest
        <3>3. self' \in Versions  BY <3>1, <3>2, RangeOfVersions DEF UpdateSelf
        <3> QED  BY <3>1, <3>3 DEF UpdateSelf
    <2>3. CASE Upgrade  BY <2>3 DEF Upgrade
    <2>4. CASE \E v \in Range(releases), finishes \in BOOLEAN : InstallScript(v, finishes)
        <3>1. PICK v \in Range(releases), finishes \in BOOLEAN : InstallScript(v, finishes)  BY <2>4
        <3>2. v \in Versions  BY RangeOfVersions
        <3> QED  BY <3>1, <3>2 DEF InstallScript
    <2>5. CASE UNCHANGED releaseVars  BY <2>5 DEF releaseVars
    <2> QED  BY <2>1, <2>2, <2>3, <2>4, <2>5 DEF ReleasesNext
<1> QED  BY <1>1, <1>2, PTL DEF ReleasesSpec

\* For every set of versions and every list of releases, Compare is semantic versioning's order and parcon update finds
\* the newest release of the list (FindsTheNewest).
THEOREM NewestIsFound == ReleasesSpec => []FindsTheNewest
<1>1. ASSUME ReleasesTypeOK PROVE FindsTheNewest
    <2>1. Range(releases) \cup {have} \subseteq Versions  BY <1>1, RangeOfVersions DEF ReleasesTypeOK
    <2>2. \A v, w \in Range(releases) \cup {have} :
              Compare(v, w) = IF Older(v, w) THEN -1 ELSE IF Older(w, v) THEN 1 ELSE 0
        BY <2>1, CompareIsPrecedence
    <2>3. \A pre \in BOOLEAN : Latest(releases, pre) = Newest({v \in Range(releases) : pre \/ ~IsPre(v)})
        BY <1>1, LatestIsNewest DEF ReleasesTypeOK
    <2> QED  BY <2>2, <2>3 DEF FindsTheNewest, Newest
<1> QED  BY <1>1, ReleasesTyped, PTL

\* parcon update and install.sh never take the node to an older release, whatever is published and wherever one of them
\* stops (NeverOlder).
THEOREM NodeNeverGoesBack == ReleasesSpec => NeverOlder
<1>1. ASSUME ReleasesTypeOK, [ReleasesNext]_releaseVars PROVE [~Older(have', have)]_releaseVars
    <2>1. \A v \in Versions : ~Older(v, v)  BY OlderOrder
    <2>2. CASE have' = have  BY <2>1, <2>2, <1>1 DEF ReleasesTypeOK
    <2>3. CASE Upgrade
        <3>1. Compare(have, self) = IF Older(have, self) THEN -1 ELSE IF Older(self, have) THEN 1 ELSE 0
            BY <1>1, CompareIsPrecedence DEF ReleasesTypeOK
        <3>2. ~(Older(have, self) /\ Older(self, have))  BY <1>1, OlderOrder DEF ReleasesTypeOK
        <3> QED  BY <3>1, <3>2, <2>3 DEF Upgrade
    <2>4. CASE \E v \in Range(releases), finishes \in BOOLEAN : InstallScript(v, finishes)
        <3>1. PICK v \in Range(releases), finishes \in BOOLEAN : InstallScript(v, finishes)  BY <2>4
        <3>2. v \in Versions /\ have \in Versions  BY <1>1, RangeOfVersions DEF ReleasesTypeOK
        <3>3. Compare(have, v) = IF Older(have, v) THEN -1 ELSE IF Older(v, have) THEN 1 ELSE 0
            BY <3>2, CompareIsPrecedence
        <3>4. Older(have, v)  BY <3>1, <3>3 DEF InstallScript
        <3>5. ~Older(v, have)  BY <3>2, <3>4, OlderOrder
        <3> QED  BY <3>1, <3>5, <2>2 DEF InstallScript
    <2>5. CASE \E v \in Versions : Publish(v)  BY <2>2, <2>5 DEF Publish
    <2>6. CASE \E pre \in BOOLEAN : UpdateSelf(pre)  BY <2>2, <2>6 DEF UpdateSelf
    <2>7. CASE UNCHANGED releaseVars  BY <2>7
    <2> QED  BY <2>3, <2>4, <2>5, <2>6, <2>7, <1>1 DEF ReleasesNext
<1>2. ReleasesSpec => [][ReleasesNext]_releaseVars  BY PTL DEF ReleasesSpec
<1>3. ReleasesTypeOK /\ [ReleasesNext]_releaseVars => [~Older(have', have)]_releaseVars  BY <1>1
<1> QED  BY <1>2, <1>3, ReleasesTyped, PTL DEF NeverOlder

-----------------------------------------------------------------------------
(* Written values *)

\* What fits an int doesn't wrap around.
LEMMA NoWrap ==
    ASSUME NEW n \in 0..MaxInt
    PROVE  Wrap(n) = n
<1> DEFINE half == MaxInt + 1
<1>1. MaxInt \in Nat /\ half \in Nat /\ 0 <= n + half /\ n + half < 2 * half /\ n + half \in Nat  BY SettingsAssumption
<1>2. Wrap(n) = ((n + half) % (2 * half)) - half  BY <1>1 DEF Wrap
<1> HIDE DEF half
<1>3. (n + half) % (2 * half) = n + half  BY <1>1
<1> QED  BY <1>1, <1>2, <1>3

\* What parcon makes of a written value, if it makes anything of it, is what the value says.
LEMMA ParseNumberIs ==
    ASSUME NEW v, IsValue(v)
    PROVE  /\ v.kind # "number" => ParseNumber(v) = {}
           /\ v.kind = "number" => v.n \in Int /\ Meaning(v) = v.n
           /\ ParseNumber(v) \subseteq {Meaning(v)}
           /\ ParseNumber(v) # {} => Meaning(v) \in Int /\ Meaning(v) <= MaxInt
<1>1. CASE v.kind # "number"  BY <1>1 DEF ParseNumber
<1>2. CASE v.kind = "number"
    <2>1. v.n \in Int  BY <1>2 DEF IsValue
    <2>2. Meaning(v) = v.n  BY <1>2 DEF Meaning
    <2>3. ParseNumber(v) = {n \in {v.n} : n >= -MaxInt - 1 /\ n <= MaxInt}  BY <1>2 DEF ParseNumber, Atoi
    <2> QED  BY <1>2, <2>1, <2>2, <2>3
<1> QED  BY <1>1, <1>2

LEMMA ParseSizeIs ==
    ASSUME NEW v, IsValue(v)
    PROVE  /\ v.kind # "size" => ParseSize(v) = {}
           /\ ParseSize(v) \subseteq {Meaning(v)}
           /\ ParseSize(v) # {} => Meaning(v) \in 0..MaxSize
<1>1. CASE ~(v.kind = "size" /\ v.unit \in DOMAIN PerUnit)  BY <1>1 DEF ParseSize
<1>2. CASE v.kind = "size" /\ v.unit \in DOMAIN PerUnit
    <2>1. v.n \in Nat  BY <1>2 DEF IsValue
    <2>2. Meaning(v) = v.n * PerUnit[v.unit]  BY <1>2 DEF Meaning
    <2>3. PerUnit[v.unit] \in {1, 1024}
        <3>1. v.unit \in {"GiB", "MiB"}  BY <1>2 DEF PerUnit
        <3> QED  BY <3>1 DEF PerUnit
    <2>4. ParseSize(v) = {Wrap(n * PerUnit[v.unit]) : n \in {i \in Atoi(v) : i <= MaxSize \div PerUnit[v.unit]}}
        BY <1>2 DEF ParseSize
    <2>5. Atoi(v) \subseteq {v.n}  BY DEF Atoi
    <2>6. ASSUME v.n <= MaxSize \div PerUnit[v.unit]
          PROVE  v.n * PerUnit[v.unit] \in 0..MaxSize /\ Wrap(v.n * PerUnit[v.unit]) = v.n * PerUnit[v.unit]
        <3>1. v.n * PerUnit[v.unit] \in 0..MaxSize  BY <2>1, <2>3, <2>6, SettingsAssumption
        <3>2. v.n * PerUnit[v.unit] \in 0..MaxInt  BY <3>1, SettingsAssumption
        <3> QED  BY <3>1, <3>2, NoWrap
    <2>7. ASSUME NEW x \in ParseSize(v) PROVE x = Meaning(v) /\ Meaning(v) \in 0..MaxSize
        <3>1. PICK n \in {i \in Atoi(v) : i <= MaxSize \div PerUnit[v.unit]} : x = Wrap(n * PerUnit[v.unit])
            BY <2>4, <2>7
        <3>2. n = v.n /\ v.n <= MaxSize \div PerUnit[v.unit]  BY <3>1, <2>5
        <3> QED  BY <3>1, <3>2, <2>2, <2>6
    <2> QED  BY <1>2, <2>7
<1> QED  BY <1>1, <1>2

LEMMA ParseLifetimeIs ==
    ASSUME NEW v, IsValue(v)
    PROVE  /\ v.kind # "lifetime" => ParseLifetime(v) = {}
           /\ ParseLifetime(v) \subseteq {Meaning(v)}
           /\ ParseLifetime(v) # {} => Meaning(v) \in Nat
<1>1. CASE v.kind # "lifetime"  BY <1>1 DEF ParseLifetime
<1>2. CASE v.kind = "lifetime"
    <2>1. v.days \in Nat /\ v.minutes \in Int  BY <1>2 DEF IsValue
    <2>2. Meaning(v) = v.days * 1440 + v.minutes  BY <1>2 DEF Meaning
    <2> QED  BY <1>2, <2>1, <2>2 DEF ParseLifetime
<1> QED  BY <1>1, <1>2

\* A size is printed as a value that says that size, and that is read again.
LEMMA FormatMiBIs ==
    ASSUME NEW n \in Nat
    PROVE  /\ IsValue(FormatMiB(n)) /\ FormatMiB(n).kind = "size" /\ Meaning(FormatMiB(n)) = n
           /\ n <= MaxSize => ParseSize(FormatMiB(n)) = {n}
<1>1. CASE n # 0 /\ n % 1024 = 0
    <2> DEFINE v == Size(n \div 1024, "GiB")
    <2>1. FormatMiB(n) = v  BY <1>1 DEF FormatMiB
    <2>2. n \div 1024 \in Nat /\ (n \div 1024) * 1024 = n  BY <1>1
    <2>3. v.kind = "size" /\ v.n = n \div 1024 /\ v.unit = "GiB" /\ IsValue(v)  BY <2>2 DEF Size, IsValue
    <2>4. v.unit \in DOMAIN PerUnit /\ PerUnit[v.unit] = 1024  BY <2>3 DEF PerUnit
    <2> HIDE DEF v
    <2>5. Meaning(v) = n  BY <2>2, <2>3, <2>4 DEF Meaning
    <2>6. ASSUME n <= MaxSize PROVE ParseSize(v) = {n}
        <3>1. v.n <= MaxSize \div PerUnit[v.unit] /\ v.n <= MaxInt /\ v.n >= -MaxInt - 1
            BY <2>2, <2>3, <2>4, <2>6, SettingsAssumption
        <3>2. Wrap(v.n * PerUnit[v.unit]) \in ParseSize(v)  BY <3>1, <2>3, <2>4 DEF ParseSize, Atoi
        <3> QED  BY <3>2, <2>3, <2>5, ParseSizeIs
    <2> QED  BY <2>1, <2>3, <2>5, <2>6
<1>2. CASE ~(n # 0 /\ n % 1024 = 0)
    <2> DEFINE v == Size(n, "MiB")
    <2>1. FormatMiB(n) = v  BY <1>2 DEF FormatMiB
    <2>3. v.kind = "size" /\ v.n = n /\ v.unit = "MiB" /\ IsValue(v)  BY DEF Size, IsValue
    <2>4. v.unit \in DOMAIN PerUnit /\ PerUnit[v.unit] = 1  BY <2>3 DEF PerUnit
    <2> HIDE DEF v
    <2>5. Meaning(v) = n  BY <2>3, <2>4 DEF Meaning
    <2>6. ASSUME n <= MaxSize PROVE ParseSize(v) = {n}
        <3>1. v.n <= MaxSize \div PerUnit[v.unit] /\ v.n <= MaxInt /\ v.n >= -MaxInt - 1
            BY <2>3, <2>4, <2>6, SettingsAssumption
        <3>2. Wrap(v.n * PerUnit[v.unit]) \in ParseSize(v)  BY <3>1, <2>3, <2>4 DEF ParseSize, Atoi
        <3> QED  BY <3>2, <2>3, <2>5, ParseSizeIs
    <2> QED  BY <2>1, <2>3, <2>5, <2>6
<1> QED  BY <1>1, <1>2

\* The same of a lifetime.
LEMMA FormatLifetimeIs ==
    ASSUME NEW n \in Int
    PROVE  /\ IsValue(FormatLifetime(n)) /\ FormatLifetime(n).kind = "lifetime" /\ Meaning(FormatLifetime(n)) = n
           /\ n \in MinMaxLifetime..MaxMaxLifetime => ParseLifetime(FormatLifetime(n)) = {n}
<1> DEFINE v == FormatLifetime(n)
<1>1. /\ v.kind = "lifetime" /\ v.seconds = 0 /\ v.days \in Nat /\ v.minutes \in Int
      /\ v.days * 1440 + v.minutes = n
      /\ n \in MinMaxLifetime..MaxMaxLifetime => v.days <= 1000 /\ v.minutes >= 0
    <2>1. CASE n > 0 /\ n % 1440 = 0
        <3>1. v = [kind |-> "lifetime", days |-> n \div 1440, minutes |-> 0, seconds |-> 0]
            BY <2>1 DEF FormatLifetime, Lifetime
        <3>2. n \div 1440 \in Nat /\ (n \div 1440) * 1440 + 0 = n  BY <2>1
        <3>3. n <= MaxMaxLifetime => n \div 1440 <= 1000  BY <2>1, <3>2, SMT DEF MaxMaxLifetime
        <3>4. v.kind = "lifetime" /\ v.seconds = 0 /\ v.days = n \div 1440 /\ v.minutes = 0  BY <3>1
        <3> HIDE DEF v
        <3>5. n \in MinMaxLifetime..MaxMaxLifetime => v.days <= 1000 /\ v.minutes >= 0
            BY <3>3, <3>4, SMT DEF MaxMaxLifetime, MinMaxLifetime
        <3> QED  BY <3>2, <3>4, <3>5
    <2>2. CASE ~(n > 0 /\ n % 1440 = 0)
        <3>1. v = [kind |-> "lifetime", days |-> 0, minutes |-> n, seconds |-> 0]
            BY <2>2 DEF FormatLifetime, Lifetime
        <3>2. v.kind = "lifetime" /\ v.seconds = 0 /\ v.days = 0 /\ v.minutes = n  BY <3>1
        <3> HIDE DEF v
        <3>3. n \in MinMaxLifetime..MaxMaxLifetime => v.days <= 1000 /\ v.minutes >= 0
            BY <3>2, SMT DEF MaxMaxLifetime, MinMaxLifetime
        <3> QED  BY <3>2, <3>3
    <2> QED  BY <2>1, <2>2
<1> HIDE DEF v
<1>2. Meaning(v) = n  BY <1>1 DEF Meaning
<1>3. n \in MinMaxLifetime..MaxMaxLifetime => n <= MaxDuration  BY SMT DEF MinMaxLifetime, MaxMaxLifetime, MaxDuration
<1>4. n \in MinMaxLifetime..MaxMaxLifetime => ParseLifetime(v) = {n}  BY <1>1, <1>3 DEF ParseLifetime
<1>5. IsValue(v)  BY <1>1 DEF IsValue
<1> QED  BY <1>1, <1>2, <1>4, <1>5 DEF v

\* The defaults are filled in alike on the host and in the controller.
LEMMA WithDefaultsIs ==
    ASSUME NEW w \in [cores : Nat, memory : Nat], NEW base
    PROVE  /\ WithDefaults(w, base).cores = IF w.cores = 0 THEN base.cores ELSE w.cores
           /\ WithDefaults(w, base).memory = IF w.memory = 0 THEN base.memory ELSE w.memory
<1>1. DOMAIN w = {"cores", "memory"}  OBVIOUS
<1>2. "cores" \in DOMAIN w /\ "memory" \in DOMAIN w  BY <1>1
<1>3. WithDefaults(w, base) = [f \in DOMAIN w |-> IF w[f] = 0 THEN base[f] ELSE w[f]]  BY DEF WithDefaults
<1> QED  BY <1>2, <1>3

LEMMA EffectiveWorkerIs ==
    ASSUME NEW t \in SettingsRecord
    PROVE  /\ t.worker \in [cores : Nat, memory : Nat]
           /\ WithDefaults(t.worker, DefaultWorker) = EffectiveWorker(t)
           /\ EffectiveWorker(t).cores = IF t.worker.cores = 0 THEN 2 ELSE t.worker.cores
           /\ EffectiveWorker(t).memory = IF t.worker.memory = 0 THEN 8192 ELSE t.worker.memory
           /\ EffectiveWorker(t).cores \in 1..MaxInt /\ EffectiveWorker(t).memory \in 1..MaxSize
<1>1. t.worker \in [cores : 0..MaxInt, memory : 0..MaxSize]  BY DEF SettingsRecord
<1>2. MaxInt \in Nat /\ MaxInt >= 8192 /\ MaxSize \in Nat /\ MaxSize >= 8192  BY SettingsAssumption
<1>3. t.worker.cores \in 0..MaxInt /\ t.worker.memory \in 0..MaxSize  BY <1>1
<1>4. t.worker \in [cores : Nat, memory : Nat]  BY <1>1, <1>2
<1>5. WithDefaults(t.worker, DefaultWorker) = EffectiveWorker(t)  BY DEF WithDefaults, EffectiveWorker
<1>6. DefaultWorker.cores = 2 /\ DefaultWorker.memory = 8192  BY DEF DefaultWorker
<1>7. /\ EffectiveWorker(t).cores = IF t.worker.cores = 0 THEN 2 ELSE t.worker.cores
      /\ EffectiveWorker(t).memory = IF t.worker.memory = 0 THEN 8192 ELSE t.worker.memory
    BY <1>4, <1>5, <1>6, WithDefaultsIs
<1> QED  BY <1>2, <1>3, <1>4, <1>5, <1>7

-----------------------------------------------------------------------------
(* What config get shows *)

\* The keys' values.
LEMMA GetIs ==
    ASSUME NEW t
    PROVE  /\ Get(t, "runners.max") = Number(t.max)
           /\ Get(t, "worker.cores") = Number(EffectiveWorker(t).cores)
           /\ Get(t, "worker.memory") = FormatMiB(EffectiveWorker(t).memory)
           /\ Get(t, "worker.maxLifetime") = FormatLifetime(EffectiveMaxLifetime(t))
BY DEF Get

LEMMA NumberIs == \A n : Number(n).kind = "number" /\ Number(n).n = n /\ Meaning(Number(n)) = n
BY DEF Number, Meaning

LEMMA LifetimeIs ==
    ASSUME NEW t \in SettingsRecord
    PROVE  /\ t.lifetime \in Int /\ EffectiveMaxLifetime(t) \in Int
           /\ EffectiveMaxLifetime(t) = IF t.lifetime = 0 THEN 360 ELSE t.lifetime
<1>1. t.lifetime \in Int  BY DEF SettingsRecord
<1>2. EffectiveMaxLifetime(t) = IF t.lifetime = 0 THEN 360 ELSE t.lifetime
    BY DEF EffectiveMaxLifetime, DefaultMaxLifetime
<1> QED  BY <1>1, <1>2

\* What config get shows says what is in effect.
LEMMA GetMeans ==
    ASSUME NEW t \in SettingsRecord
    PROVE  /\ Meaning(Get(t, "runners.max")) = t.max
           /\ Meaning(Get(t, "worker.cores")) = EffectiveWorker(t).cores
           /\ Meaning(Get(t, "worker.memory")) = EffectiveWorker(t).memory
           /\ Meaning(Get(t, "worker.maxLifetime")) = EffectiveMaxLifetime(t)
<1>1. EffectiveWorker(t).memory \in Nat  BY EffectiveWorkerIs
<1>2. EffectiveMaxLifetime(t) \in Int  BY LifetimeIs
<1> QED  BY <1>1, <1>2, GetIs, NumberIs, FormatMiBIs, FormatLifetimeIs

-----------------------------------------------------------------------------
(* The controller's config *)

\* Validate's parts, of settings of their types: each bound of ValidConfig's.
LEMMA ValidateIs ==
    ASSUME NEW t \in SettingsRecord, Validate(t)
    PROVE  /\ t.range.start >= MinVMID /\ t.range.start <= t.range.end
           /\ IDs(t.range) >= t.max + ReservedVMIDs
           /\ t.target = "repository" => t.group = DefaultRunnerGroup
           /\ t.min >= 0 /\ t.max >= 1 /\ t.min <= t.max
           /\ EffectiveMaxLifetime(t) \in MinMaxLifetime..MaxMaxLifetime
           /\ EffectiveWorker(t).cores >= MinCores /\ EffectiveWorker(t).memory >= MinMemoryMiB
<1>1. /\ t.range.start >= MinVMID /\ t.range.start <= t.range.end
      /\ IDs(t.range) >= t.max + ReservedVMIDs
      /\ t.target = "repository" => t.group = DefaultRunnerGroup
      /\ t.min >= 0 /\ t.max >= 1 /\ t.min <= t.max
    BY DEF Validate
<1>2. t.lifetime # 0 => t.lifetime \in MinMaxLifetime..MaxMaxLifetime  BY DEF Validate
<1>3. EffectiveMaxLifetime(t) \in MinMaxLifetime..MaxMaxLifetime
    BY <1>2, LifetimeIs, SMT DEF MinMaxLifetime, MaxMaxLifetime
<1>4. (t.worker.cores # 0 => t.worker.cores >= MinCores) /\ (t.worker.memory # 0 => t.worker.memory >= MinMemoryMiB)
    BY DEF Validate
<1>5. EffectiveWorker(t).cores >= MinCores  BY <1>4, EffectiveWorkerIs DEF MinCores
<1>6. EffectiveWorker(t).memory >= MinMemoryMiB  BY <1>4, EffectiveWorkerIs, SMT DEF MinMemoryMiB
<1> QED  BY <1>1, <1>3, <1>5, <1>6

\* The fields of the config that is rendered from the settings.
LEMMA RenderedIs ==
    ASSUME NEW t \in SettingsRecord
    PROVE  /\ Rendered(t).range = t.range /\ Rendered(t).target = t.target
           /\ Rendered(t).worker = EffectiveWorker(t)
           /\ Rendered(t).set.labels = (IF t.labels = <<>> THEN <<t.name>> ELSE t.labels)
           /\ Rendered(t).set.group = t.group /\ Rendered(t).set.min = t.min /\ Rendered(t).set.max = t.max
           /\ Rendered(t).set.lifetime = EffectiveMaxLifetime(t)
           /\ Rendered(t).set.worker.cores = EffectiveWorker(t).cores
           /\ Rendered(t).set.worker.memory = EffectiveWorker(t).memory
<1> DEFINE none == [cores |-> 0, memory |-> 0]
           worker == WithDefaults(t.worker, DefaultWorker)
<1>1. /\ Rendered(t).range = t.range /\ Rendered(t).target = t.target
      /\ Rendered(t).worker = worker
      /\ Rendered(t).set.labels = (IF t.labels = <<>> THEN <<t.name>> ELSE t.labels)
      /\ Rendered(t).set.group = t.group /\ Rendered(t).set.min = t.min /\ Rendered(t).set.max = t.max
      /\ Rendered(t).set.worker = WithDefaults(none, worker)
    BY DEF Rendered
<1>2. Rendered(t).set.lifetime = EffectiveMaxLifetime(t)  BY DEF Rendered, EffectiveMaxLifetime
<1>3. worker = EffectiveWorker(t)  BY EffectiveWorkerIs
<1>4. none \in [cores : Nat, memory : Nat] /\ none.cores = 0 /\ none.memory = 0  OBVIOUS
<1> HIDE DEF none, worker
<1>5. WithDefaults(none, worker).cores = worker.cores /\ WithDefaults(none, worker).memory = worker.memory
    BY <1>4, WithDefaultsIs
<1> QED  BY <1>1, <1>2, <1>3, <1>5

\* The controller accepts what is rendered from valid settings, unless a label is repeated.
LEMMA ValidIsAccepted ==
    ASSUME NEW t \in SettingsRecord, Validate(t)
    PROVE  ControllerConfig(t) # {} <=> ~Repeated(t.labels)
<1> DEFINE c == Rendered(t)
<1>1. ControllerConfig(t) # {} <=> ValidConfig(c)  BY DEF ControllerConfig
<1>2. Repeated(c.set.labels) <=> Repeated(t.labels)
    <2>1. CASE t.labels = <<>>
        <3>1. c.set.labels = <<t.name>>  BY <2>1, RenderedIs
        <3>2. ~Repeated(<<t.name>>) /\ ~Repeated(<<>>)  BY DEF Repeated
        <3> QED  BY <3>1, <3>2, <2>1
    <2>2. CASE t.labels # <<>>  BY <2>2, RenderedIs
    <2> QED  BY <2>1, <2>2
<1>3. ValidConfig(c) <=> ~Repeated(c.set.labels)
    <2> HIDE DEF c
    <2>1. /\ c.range = t.range /\ c.target = t.target /\ c.worker = EffectiveWorker(t)
          /\ c.set.group = t.group /\ c.set.min = t.min /\ c.set.max = t.max
          /\ c.set.lifetime = EffectiveMaxLifetime(t)
          /\ c.set.worker.cores = EffectiveWorker(t).cores /\ c.set.worker.memory = EffectiveWorker(t).memory
        BY RenderedIs DEF c
    <2>2. \A w \in {c.worker, c.set.worker} : w.cores >= MinCores /\ w.memory >= MinMemoryMiB
        BY <2>1, ValidateIs
    <2> QED  BY <2>1, <2>2, ValidateIs DEF ValidConfig
<1> QED  BY <1>1, <1>2, <1>3

-----------------------------------------------------------------------------
(* config set *)

\* u is t but for what a key is about.
SameButMax(t, u) ==
    /\ u.range = t.range /\ u.min = t.min /\ u.labels = t.labels /\ u.group = t.group /\ u.target = t.target
    /\ u.lifetime = t.lifetime /\ u.worker.cores = t.worker.cores /\ u.worker.memory = t.worker.memory
SameButCores(t, u) ==
    /\ u.range = t.range /\ u.min = t.min /\ u.labels = t.labels /\ u.group = t.group /\ u.target = t.target
    /\ u.max = t.max /\ u.lifetime = t.lifetime /\ u.worker.memory = t.worker.memory
SameButMemory(t, u) ==
    /\ u.range = t.range /\ u.min = t.min /\ u.labels = t.labels /\ u.group = t.group /\ u.target = t.target
    /\ u.max = t.max /\ u.lifetime = t.lifetime /\ u.worker.cores = t.worker.cores
SameButLifetime(t, u) ==
    /\ u.range = t.range /\ u.min = t.min /\ u.labels = t.labels /\ u.group = t.group /\ u.target = t.target
    /\ u.max = t.max /\ u.worker.cores = t.worker.cores /\ u.worker.memory = t.worker.memory

LEMMA StoreMax ==
    ASSUME NEW t \in SettingsRecord, NEW n \in 1..MaxInt, NEW u, u = [t EXCEPT !.max = n]
    PROVE  u \in SettingsRecord /\ u.max = n /\ SameButMax(t, u)
BY DEF SettingsRecord, SameButMax

LEMMA StoreLifetime ==
    ASSUME NEW t \in SettingsRecord, NEW n \in Int, NEW u, u = [t EXCEPT !.lifetime = n]
    PROVE  u \in SettingsRecord /\ u.lifetime = n /\ SameButLifetime(t, u)
BY DEF SettingsRecord, SameButLifetime

LEMMA StoreCores ==
    ASSUME NEW t \in SettingsRecord, NEW n \in 0..MaxInt, NEW u, u = [t EXCEPT !.worker.cores = n]
    PROVE  u \in SettingsRecord /\ u.worker.cores = n /\ SameButCores(t, u)
BY DEF SettingsRecord, SameButCores

LEMMA StoreMemory ==
    ASSUME NEW t \in SettingsRecord, NEW n \in 0..MaxSize, NEW u, u = [t EXCEPT !.worker.memory = n]
    PROVE  u \in SettingsRecord /\ u.worker.memory = n /\ SameButMemory(t, u)
BY DEF SettingsRecord, SameButMemory

Limits == [cpus : Nat, memory : Nat]

\* What Set accepts for each key, and stores.
LEMMA SetIs ==
    ASSUME NEW t, NEW v, NEW l
    PROVE  /\ Set(t, "runners.max", v, l)
              = {[t EXCEPT !.max = n] : n \in {i \in ParseNumber(v) : i >= Larger(1, t.min) /\ i <= WorkerIDs(t)}}
           /\ Set(t, "worker.cores", v, l)
              = {[t EXCEPT !.worker.cores = n] :
                    n \in {i \in ParseNumber(v) : i >= MinCores /\ (l.cpus > 0 => i <= l.cpus)}}
           /\ Set(t, "worker.memory", v, l)
              = {[t EXCEPT !.worker.memory = n] :
                    n \in {i \in ParseSize(v) : i >= MinMemoryMiB /\ (l.memory > 0 => i <= l.memory)}}
           /\ Set(t, "worker.maxLifetime", v, l)
              = {[t EXCEPT !.lifetime = n] :
                    n \in {i \in ParseLifetime(v) : i >= MinMaxLifetime /\ i <= MaxMaxLifetime}}
           /\ Set(t, "unknown", v, l) = {}
BY DEF Set

LEMMA SetMaxIs ==
    ASSUME NEW t \in SettingsRecord, NEW v, IsValue(v), NEW l \in Limits, NEW u \in Set(t, "runners.max", v, l)
    PROVE  /\ u \in SettingsRecord /\ SameButMax(t, u)
           /\ Meaning(v) \in Int /\ u.max = Meaning(v)
<1>1. PICK n \in ParseNumber(v) : n >= Larger(1, t.min) /\ u = [t EXCEPT !.max = n]  BY SetIs
<1>2. n = Meaning(v) /\ n \in Int /\ n <= MaxInt  BY ParseNumberIs
<1>3. t.min \in Int  BY DEF SettingsRecord
<1>4. n \in 1..MaxInt  BY <1>1, <1>2, <1>3, SettingsAssumption DEF Larger
<1> QED  BY <1>1, <1>2, <1>4, StoreMax

LEMMA SetCoresIs ==
    ASSUME NEW t \in SettingsRecord, NEW v, IsValue(v), NEW l \in Limits, NEW u \in Set(t, "worker.cores", v, l)
    PROVE  /\ u \in SettingsRecord /\ SameButCores(t, u)
           /\ u.worker.cores = Meaning(v) /\ EffectiveWorker(u).cores = Meaning(v)
<1>1. PICK n \in ParseNumber(v) : n >= MinCores /\ u = [t EXCEPT !.worker.cores = n]  BY SetIs
<1>2. n = Meaning(v) /\ n \in Int /\ n <= MaxInt  BY ParseNumberIs
<1>3. n \in 0..MaxInt /\ n # 0  BY <1>1, <1>2, SettingsAssumption DEF MinCores
<1>4. u \in SettingsRecord /\ u.worker.cores = n /\ SameButCores(t, u)  BY <1>1, <1>3, StoreCores
<1> QED  BY <1>2, <1>3, <1>4, EffectiveWorkerIs

LEMMA SetMemoryIs ==
    ASSUME NEW t \in SettingsRecord, NEW v, IsValue(v), NEW l \in Limits, NEW u \in Set(t, "worker.memory", v, l)
    PROVE  /\ u \in SettingsRecord /\ SameButMemory(t, u)
           /\ u.worker.memory = Meaning(v) /\ EffectiveWorker(u).memory = Meaning(v)
<1>1. PICK n \in ParseSize(v) : n >= MinMemoryMiB /\ u = [t EXCEPT !.worker.memory = n]  BY SetIs
<1>2. n = Meaning(v) /\ n \in 0..MaxSize  BY ParseSizeIs
<1>3. n # 0  BY <1>1, <1>2, SMT DEF MinMemoryMiB
<1>4. u \in SettingsRecord /\ u.worker.memory = n /\ SameButMemory(t, u)  BY <1>1, <1>2, StoreMemory
<1> QED  BY <1>2, <1>3, <1>4, EffectiveWorkerIs

LEMMA SetLifetimeIs ==
    ASSUME NEW t \in SettingsRecord, NEW v, IsValue(v), NEW l \in Limits,
           NEW u \in Set(t, "worker.maxLifetime", v, l)
    PROVE  /\ u \in SettingsRecord /\ SameButLifetime(t, u)
           /\ u.lifetime = Meaning(v) /\ EffectiveMaxLifetime(u) = Meaning(v)
<1>1. PICK n \in ParseLifetime(v) : n >= MinMaxLifetime /\ u = [t EXCEPT !.lifetime = n]  BY SetIs
<1>2. n = Meaning(v) /\ n \in Int  BY ParseLifetimeIs
<1>3. n # 0  BY <1>1, <1>2 DEF MinMaxLifetime
<1>4. u \in SettingsRecord /\ u.lifetime = n /\ SameButLifetime(t, u)  BY <1>1, <1>2, StoreLifetime
<1> QED  BY <1>2, <1>3, <1>4, LifetimeIs

\* What is shown of a key depends on nothing but what the key is about.
LEMMA GetSame ==
    ASSUME NEW t \in SettingsRecord, NEW u \in SettingsRecord
    PROVE  /\ u.max = t.max => Get(u, "runners.max") = Get(t, "runners.max")
           /\ u.worker.cores = t.worker.cores => Get(u, "worker.cores") = Get(t, "worker.cores")
           /\ u.worker.memory = t.worker.memory => Get(u, "worker.memory") = Get(t, "worker.memory")
           /\ u.lifetime = t.lifetime => Get(u, "worker.maxLifetime") = Get(t, "worker.maxLifetime")
<1>1. u.max = t.max => Get(u, "runners.max") = Get(t, "runners.max")  BY GetIs
<1>2. u.worker.cores = t.worker.cores => EffectiveWorker(u).cores = EffectiveWorker(t).cores  BY EffectiveWorkerIs
<1>3. u.worker.memory = t.worker.memory => EffectiveWorker(u).memory = EffectiveWorker(t).memory  BY EffectiveWorkerIs
<1>4. u.lifetime = t.lifetime => EffectiveMaxLifetime(u) = EffectiveMaxLifetime(t)  BY LifetimeIs
<1> QED  BY <1>1, <1>2, <1>3, <1>4, GetIs

\* A value that Set accepts is stored as what it says, and no other key changes.
LEMMA SetStores ==
    ASSUME NEW t \in SettingsRecord, NEW v, IsValue(v), NEW l \in Limits, NEW key \in Keys, NEW u \in Set(t, key, v, l)
    PROVE  /\ u \in SettingsRecord
           /\ Meaning(Get(u, key)) = Meaning(v)
           /\ \A other \in Keys \ {key} : Get(u, other) = Get(t, other)
<1>1. CASE key = "runners.max"
    <2>1. u \in SettingsRecord /\ SameButMax(t, u) /\ u.max = Meaning(v)  BY <1>1, SetMaxIs
    <2>2. \A other \in Keys \ {key} : Get(u, other) = Get(t, other)  BY <1>1, <2>1, GetSame DEF SameButMax, Keys
    <2> QED  BY <1>1, <2>1, <2>2, GetMeans
<1>2. CASE key = "worker.cores"
    <2>1. u \in SettingsRecord /\ SameButCores(t, u) /\ EffectiveWorker(u).cores = Meaning(v)  BY <1>2, SetCoresIs
    <2>2. \A other \in Keys \ {key} : Get(u, other) = Get(t, other)  BY <1>2, <2>1, GetSame DEF SameButCores, Keys
    <2> QED  BY <1>2, <2>1, <2>2, GetMeans
<1>3. CASE key = "worker.memory"
    <2>1. u \in SettingsRecord /\ SameButMemory(t, u) /\ EffectiveWorker(u).memory = Meaning(v)  BY <1>3, SetMemoryIs
    <2>2. \A other \in Keys \ {key} : Get(u, other) = Get(t, other)  BY <1>3, <2>1, GetSame DEF SameButMemory, Keys
    <2> QED  BY <1>3, <2>1, <2>2, GetMeans
<1>4. CASE key = "worker.maxLifetime"
    <2>1. u \in SettingsRecord /\ SameButLifetime(t, u) /\ EffectiveMaxLifetime(u) = Meaning(v)
        BY <1>4, SetLifetimeIs
    <2>2. \A other \in Keys \ {key} : Get(u, other) = Get(t, other)  BY <1>4, <2>1, GetSame DEF SameButLifetime, Keys
    <2> QED  BY <1>4, <2>1, <2>2, GetMeans
<1> QED  BY <1>1, <1>2, <1>3, <1>4 DEF Keys

\* Valid settings stay valid when a key's value is in its range.
LEMMA ValidAfter ==
    ASSUME NEW t \in SettingsRecord, Validate(t), NEW u \in SettingsRecord
    PROVE  /\ SameButMax(t, u) /\ u.max >= Larger(1, t.min) /\ u.max <= WorkerIDs(t) => Validate(u)
           /\ SameButCores(t, u) /\ u.worker.cores >= MinCores => Validate(u)
           /\ SameButMemory(t, u) /\ u.worker.memory >= MinMemoryMiB => Validate(u)
           /\ SameButLifetime(t, u) /\ u.lifetime \in MinMaxLifetime..MaxMaxLifetime => Validate(u)
<1>1. ASSUME SameButMax(t, u), u.max >= Larger(1, t.min), u.max <= WorkerIDs(t) PROVE Validate(u)
    <2>1. t.min \in Int /\ u.max \in Int
        <3>1. t.min \in Int /\ u.max \in 1..MaxInt  BY DEF SettingsRecord
        <3> QED  BY <3>1, SettingsAssumption
    <2>2. t.range \in [start : Int, end : Int]  BY DEF SettingsRecord
    <2>3. IDs(t.range) \in Int  BY <2>2 DEF IDs
    <2>4. u.max >= 1 /\ t.min <= u.max  BY <1>1, <2>1 DEF Larger
    <2>5. IDs(t.range) >= u.max + ReservedVMIDs  BY <1>1, <2>1, <2>3, <2>4 DEF WorkerIDs, Larger, ReservedVMIDs
    <2> QED  BY <1>1, <2>4, <2>5 DEF Validate, SameButMax
<1>2. ASSUME SameButCores(t, u), u.worker.cores >= MinCores PROVE Validate(u)  BY <1>2 DEF Validate, SameButCores
<1>3. ASSUME SameButMemory(t, u), u.worker.memory >= MinMemoryMiB PROVE Validate(u)
    BY <1>3 DEF Validate, SameButMemory
<1>4. ASSUME SameButLifetime(t, u), u.lifetime \in MinMaxLifetime..MaxMaxLifetime PROVE Validate(u)
    BY <1>4 DEF Validate, SameButLifetime
<1> QED  BY <1>1, <1>2, <1>3, <1>4

\* What SetKey accepts for each key.
LEMMA AcceptMax ==
    ASSUME NEW t \in SettingsRecord, Validate(t), NEW v, IsValue(v), NEW l \in Limits
    PROVE  SetKey(t, "runners.max", v, l) # {}
           <=> ParseNumber(v) # {} /\ Meaning(v) >= Larger(1, t.min) /\ Meaning(v) <= WorkerIDs(t)
<1> DEFINE key == "runners.max"
<1>1. ASSUME NEW u \in SetKey(t, key, v, l)
      PROVE  ParseNumber(v) # {} /\ Meaning(v) >= Larger(1, t.min) /\ Meaning(v) <= WorkerIDs(t)
    <2>1. u \in Set(t, key, v, l)  BY DEF SetKey
    <2>2. PICK n \in ParseNumber(v) : n >= Larger(1, t.min) /\ n <= WorkerIDs(t)  BY <2>1, SetIs
    <2> QED  BY <2>2, ParseNumberIs
<1>2. ASSUME ParseNumber(v) # {}, Meaning(v) >= Larger(1, t.min), Meaning(v) <= WorkerIDs(t)
      PROVE  SetKey(t, key, v, l) # {}
    <2>1. Meaning(v) \in ParseNumber(v)  BY <1>2, ParseNumberIs
    <2> DEFINE u == [t EXCEPT !.max = Meaning(v)]
    <2>2. u \in Set(t, key, v, l)  BY <1>2, <2>1, SetIs
    <2> HIDE DEF u
    <2>3. u \in SettingsRecord /\ SameButMax(t, u) /\ u.max = Meaning(v)  BY <2>2, SetMaxIs
    <2>4. Validate(u)  BY <1>2, <2>3, ValidAfter
    <2> QED  BY <2>2, <2>4 DEF SetKey
<1> QED  BY <1>1, <1>2

LEMMA AcceptCores ==
    ASSUME NEW t \in SettingsRecord, Validate(t), NEW v, IsValue(v), NEW l \in Limits
    PROVE  SetKey(t, "worker.cores", v, l) # {}
           <=> ParseNumber(v) # {} /\ Meaning(v) >= MinCores /\ (l.cpus > 0 => Meaning(v) <= l.cpus)
<1> DEFINE key == "worker.cores"
<1>1. ASSUME NEW u \in SetKey(t, key, v, l)
      PROVE  ParseNumber(v) # {} /\ Meaning(v) >= MinCores /\ (l.cpus > 0 => Meaning(v) <= l.cpus)
    <2>1. u \in Set(t, key, v, l)  BY DEF SetKey
    <2>2. PICK n \in ParseNumber(v) : n >= MinCores /\ (l.cpus > 0 => n <= l.cpus)  BY <2>1, SetIs
    <2> QED  BY <2>2, ParseNumberIs
<1>2. ASSUME ParseNumber(v) # {}, Meaning(v) >= MinCores, l.cpus > 0 => Meaning(v) <= l.cpus
      PROVE  SetKey(t, key, v, l) # {}
    <2>1. Meaning(v) \in ParseNumber(v)  BY <1>2, ParseNumberIs
    <2> DEFINE u == [t EXCEPT !.worker.cores = Meaning(v)]
    <2>2. u \in Set(t, key, v, l)  BY <1>2, <2>1, SetIs
    <2> HIDE DEF u
    <2>3. u \in SettingsRecord /\ SameButCores(t, u) /\ u.worker.cores = Meaning(v)  BY <2>2, SetCoresIs
    <2>4. Validate(u)  BY <1>2, <2>3, ValidAfter
    <2> QED  BY <2>2, <2>4 DEF SetKey
<1> QED  BY <1>1, <1>2

LEMMA AcceptMemory ==
    ASSUME NEW t \in SettingsRecord, Validate(t), NEW v, IsValue(v), NEW l \in Limits
    PROVE  SetKey(t, "worker.memory", v, l) # {}
           <=> ParseSize(v) # {} /\ Meaning(v) >= MinMemoryMiB /\ (l.memory > 0 => Meaning(v) <= l.memory)
<1> DEFINE key == "worker.memory"
<1>1. ASSUME NEW u \in SetKey(t, key, v, l)
      PROVE  ParseSize(v) # {} /\ Meaning(v) >= MinMemoryMiB /\ (l.memory > 0 => Meaning(v) <= l.memory)
    <2>1. u \in Set(t, key, v, l)  BY DEF SetKey
    <2>2. PICK n \in ParseSize(v) : n >= MinMemoryMiB /\ (l.memory > 0 => n <= l.memory)  BY <2>1, SetIs
    <2> QED  BY <2>2, ParseSizeIs
<1>2. ASSUME ParseSize(v) # {}, Meaning(v) >= MinMemoryMiB, l.memory > 0 => Meaning(v) <= l.memory
      PROVE  SetKey(t, key, v, l) # {}
    <2>1. Meaning(v) \in ParseSize(v)  BY <1>2, ParseSizeIs
    <2> DEFINE u == [t EXCEPT !.worker.memory = Meaning(v)]
    <2>2. u \in Set(t, key, v, l)  BY <1>2, <2>1, SetIs
    <2> HIDE DEF u
    <2>3. u \in SettingsRecord /\ SameButMemory(t, u) /\ u.worker.memory = Meaning(v)  BY <2>2, SetMemoryIs
    <2>4. Validate(u)  BY <1>2, <2>3, ValidAfter
    <2> QED  BY <2>2, <2>4 DEF SetKey
<1> QED  BY <1>1, <1>2

LEMMA AcceptLifetime ==
    ASSUME NEW t \in SettingsRecord, Validate(t), NEW v, IsValue(v), NEW l \in Limits
    PROVE  SetKey(t, "worker.maxLifetime", v, l) # {}
           <=> ParseLifetime(v) # {} /\ Meaning(v) >= MinMaxLifetime /\ Meaning(v) <= MaxMaxLifetime
<1> DEFINE key == "worker.maxLifetime"
<1>1. ASSUME NEW u \in SetKey(t, key, v, l)
      PROVE  ParseLifetime(v) # {} /\ Meaning(v) >= MinMaxLifetime /\ Meaning(v) <= MaxMaxLifetime
    <2>1. u \in Set(t, key, v, l)  BY DEF SetKey
    <2>2. PICK n \in ParseLifetime(v) : n >= MinMaxLifetime /\ n <= MaxMaxLifetime  BY <2>1, SetIs
    <2> QED  BY <2>2, ParseLifetimeIs
<1>2. ASSUME ParseLifetime(v) # {}, Meaning(v) >= MinMaxLifetime, Meaning(v) <= MaxMaxLifetime
      PROVE  SetKey(t, key, v, l) # {}
    <2>1. Meaning(v) \in ParseLifetime(v) /\ Meaning(v) \in Nat  BY <1>2, ParseLifetimeIs
    <2> DEFINE u == [t EXCEPT !.lifetime = Meaning(v)]
    <2>2. u \in Set(t, key, v, l)  BY <1>2, <2>1, SetIs
    <2> HIDE DEF u
    <2>3. u \in SettingsRecord /\ SameButLifetime(t, u) /\ u.lifetime = Meaning(v)  BY <2>2, SetLifetimeIs
    <2>4. Meaning(v) \in MinMaxLifetime..MaxMaxLifetime
        <3>1. MinMaxLifetime \in Int /\ MaxMaxLifetime \in Int  BY SMT DEF MinMaxLifetime, MaxMaxLifetime
        <3> QED  BY <1>2, <2>1, <3>1
    <2>5. Validate(u)  BY <2>3, <2>4, ValidAfter
    <2> QED  BY <2>2, <2>5 DEF SetKey
<1> QED  BY <1>1, <1>2

-----------------------------------------------------------------------------
(* The settings file *)

SettingsSpec == SettingsInit /\ [][SettingsNext]_settingsVars

\* The settings have their types, and those in the settings file have passed Validate.
SettingsInv ==
    /\ s \in SettingsRecord /\ limits \in Limits /\ at \in {"flags", "saved", "refused"}
    /\ at = "saved" => Validate(s)

\* What SetKey makes of settings of their types has its type, and is valid.
LEMMA SetKeyTyped ==
    ASSUME NEW t \in SettingsRecord, NEW v \in Written, NEW l \in Limits, NEW key \in Keys \cup {"unknown"},
           NEW u \in SetKey(t, key, v, l)
    PROVE  u \in SettingsRecord /\ Validate(u)
<1>1. u \in Set(t, key, v, l) /\ Validate(u)  BY DEF SetKey
<1>2. IsValue(v)  BY SettingsAssumption
<1>3. key \in Keys
    <2>1. key # "unknown"  BY <1>1, SetIs
    <2> QED  BY <2>1
<1> QED  BY <1>1, <1>2, <1>3, SetStores

\* The settings file holds valid settings, whatever flags and config set ask for and in which order.
THEOREM SettingsInvHolds == SettingsSpec => []SettingsInv
<1>1. ASSUME SettingsInit PROVE SettingsInv  BY <1>1, SettingsAssumption DEF SettingsInit, SettingsInv, Limits
<1>2. ASSUME SettingsInv, [SettingsNext]_settingsVars PROVE SettingsInv'
    <2>1. ASSUME NEW key \in Keys \cup {"unknown"}, NEW v \in Written, SetFlag(key, v) PROVE SettingsInv'
        <3>1. at = "flags" /\ limits' = limits  BY <2>1 DEF SetFlag
        <3>2. CASE SetKey(s, key, v, limits) = {}  BY <1>2, <2>1, <3>1, <3>2 DEF SetFlag, SettingsInv
        <3>3. CASE SetKey(s, key, v, limits) # {}
            <4>1. s' \in SetKey(s, key, v, limits) /\ at' = at  BY <2>1, <3>3 DEF SetFlag
            <4>2. s' \in SettingsRecord  BY <1>2, <4>1, SetKeyTyped DEF SettingsInv
            <4> QED  BY <1>2, <3>1, <4>1, <4>2 DEF SettingsInv
        <3> QED  BY <3>2, <3>3
    <2>2. ASSUME NEW key \in Keys \cup {"unknown"}, NEW v \in Written, NEW running \in BOOLEAN,
                 SetConfig(key, v, running)
          PROVE  SettingsInv'
        <3>1. s' \in SetKey(s, key, v, limits) /\ limits' = limits /\ at' = at  BY <2>2 DEF SetConfig
        <3>2. s' \in SettingsRecord /\ Validate(s')  BY <1>2, <3>1, SetKeyTyped DEF SettingsInv
        <3>3. Validate(s)'  BY <3>2 DEF Validate, IDs
        <3> QED  BY <1>2, <3>1, <3>2, <3>3 DEF SettingsInv
    <2>3. CASE Save
        <3>1. s' = s /\ limits' = limits /\ at' = IF Validate(s) THEN "saved" ELSE "refused"  BY <2>3 DEF Save
        <3>2. Validate(s)' <=> Validate(s)  BY <3>1 DEF Validate, IDs
        <3> QED  BY <1>2, <3>1, <3>2 DEF SettingsInv
    <2>4. ASSUME NEW target \in {"organization", "repository"}, LearnTarget(target) PROVE SettingsInv'
        <3>1. s' = [s EXCEPT !.target = target] /\ Validate(s') /\ limits' = limits /\ at' = at
            BY <2>4 DEF LearnTarget
        <3>2. s' \in SettingsRecord  BY <1>2, <3>1 DEF SettingsInv, SettingsRecord
        <3>3. Validate(s)'  BY <3>1 DEF Validate, IDs
        <3> QED  BY <1>2, <3>1, <3>2, <3>3 DEF SettingsInv
    <2>5. CASE UNCHANGED settingsVars
        <3>1. s' = s /\ limits' = limits /\ at' = at  BY <2>5 DEF settingsVars
        <3>2. Validate(s)' <=> Validate(s)  BY <3>1 DEF Validate, IDs
        <3> QED  BY <1>2, <3>1, <3>2 DEF SettingsInv
    <2> QED  BY <1>2, <2>1, <2>2, <2>3, <2>4, <2>5 DEF SettingsNext
<1> QED  BY <1>1, <1>2, PTL DEF SettingsSpec

\* The controller accepts what is rendered from the settings file, unless labels differ in case alone
\* (SavedIsAccepted).
THEOREM ControllerAcceptsSaved == SettingsSpec => []SavedIsAccepted
<1>1. SettingsInv => SavedIsAccepted  BY ValidIsAccepted DEF SettingsInv, SavedIsAccepted
<1> QED  BY <1>1, SettingsInvHolds, PTL

\* The controller runs with what config get shows (ShownIsRun).
THEOREM ControllerRunsShown == SettingsSpec => []ShownIsRun
<1>1. ASSUME SettingsInv PROVE ShownIsRun
    <2> SUFFICES ASSUME NEW c \in ControllerConfig(s)
                 PROVE  /\ c.set.max = Meaning(Get(s, "runners.max"))
                        /\ c.set.worker.cores = Meaning(Get(s, "worker.cores"))
                        /\ c.set.worker.memory = Meaning(Get(s, "worker.memory"))
                        /\ c.set.lifetime = Meaning(Get(s, "worker.maxLifetime"))
        BY DEF ShownIsRun
    <2>1. c = Rendered(s) /\ s \in SettingsRecord  BY <1>1 DEF ControllerConfig, SettingsInv
    <2> QED  BY <2>1, RenderedIs, GetMeans
<1>2. SettingsInv => ShownIsRun  BY <1>1
<1> QED  BY <1>2, SettingsInvHolds, PTL

\* Whatever number, size or lifetime is written, config set and --set store exactly that and change no other key
\* (StoredAsMeant).
THEOREM SetStoresMeaning == SettingsSpec => []StoredAsMeant
<1>1. ASSUME SettingsInv PROVE StoredAsMeant
    <2> SUFFICES ASSUME NEW key \in Keys, NEW v \in Written, NEW t \in SetKey(s, key, v, limits)
                 PROVE  /\ Meaning(Get(t, key)) = Meaning(v)
                        /\ \A other \in Keys \ {key} : Get(t, other) = Get(s, other)
        BY DEF StoredAsMeant
    <2>1. t \in Set(s, key, v, limits) /\ IsValue(v)  BY SettingsAssumption DEF SetKey
    <2> QED  BY <1>1, <2>1, SetStores DEF SettingsInv
<1>2. SettingsInv => StoredAsMeant  BY <1>1
<1> QED  BY <1>2, SettingsInvHolds, PTL

\* A value that can be read as what a key takes, and one in the range that config describe offers for it.
Fits(t, key, v) == ParseNumber(v) \cup ParseSize(v) \cup ParseLifetime(v) # {} /\ v.kind = Get(t, key).kind
Offered(t, key, v, l) == Meaning(v) >= Allowed(t, key, l).lo /\ Meaning(v) <= Allowed(t, key, l).hi

LEMMA AllowedIs ==
    ASSUME NEW t, NEW l
    PROVE  /\ Allowed(t, "runners.max", l).lo = Larger(1, t.min) /\ Allowed(t, "runners.max", l).hi = WorkerIDs(t)
           /\ Allowed(t, "worker.cores", l).lo = MinCores
           /\ Allowed(t, "worker.cores", l).hi = (IF l.cpus > 0 THEN l.cpus ELSE MaxInt)
           /\ Allowed(t, "worker.memory", l).lo = MinMemoryMiB
           /\ Allowed(t, "worker.memory", l).hi = (IF l.memory > 0 THEN l.memory ELSE MaxSize)
           /\ Allowed(t, "worker.maxLifetime", l).lo = MinMaxLifetime
           /\ Allowed(t, "worker.maxLifetime", l).hi = MaxMaxLifetime
BY DEF Allowed

LEMMA KindIs ==
    ASSUME NEW t \in SettingsRecord
    PROVE  /\ Get(t, "runners.max").kind = "number" /\ Get(t, "worker.cores").kind = "number"
           /\ Get(t, "worker.memory").kind = "size" /\ Get(t, "worker.maxLifetime").kind = "lifetime"
<1>1. EffectiveWorker(t).memory \in Nat /\ EffectiveMaxLifetime(t) \in Int  BY EffectiveWorkerIs, LifetimeIs
<1>2. Get(t, "runners.max").kind = "number" /\ Get(t, "worker.cores").kind = "number"  BY DEF Get, Number
<1>3. Get(t, "worker.memory").kind = "size"  BY <1>1, GetIs, FormatMiBIs
<1>4. Get(t, "worker.maxLifetime").kind = "lifetime"  BY <1>1, GetIs, FormatLifetimeIs
<1> QED  BY <1>2, <1>3, <1>4

\* SetKey accepts the values that are offered.
LEMMA OfferedIsAccepted ==
    ASSUME NEW t \in SettingsRecord, Validate(t), NEW key \in Keys, NEW v, IsValue(v), NEW l \in Limits
    PROVE  SetKey(t, key, v, l) # {} <=> Fits(t, key, v) /\ Offered(t, key, v, l)
<1>1. l.cpus \in Nat /\ l.memory \in Nat  BY DEF Limits
<1>2. CASE key = "runners.max"
    <2>1. Fits(t, key, v) <=> ParseNumber(v) # {}
        BY <1>2, KindIs, ParseNumberIs, ParseSizeIs, ParseLifetimeIs DEF Fits
    <2> QED  BY <1>2, <2>1, AcceptMax, AllowedIs DEF Offered
<1>3. CASE key = "worker.cores"
    <2>1. Fits(t, key, v) <=> ParseNumber(v) # {}
        BY <1>3, KindIs, ParseNumberIs, ParseSizeIs, ParseLifetimeIs DEF Fits
    <2>2. ParseNumber(v) # {} => Meaning(v) <= MaxInt  BY ParseNumberIs
    <2>3. /\ Allowed(t, key, l).lo = MinCores
          /\ Allowed(t, key, l).hi = IF l.cpus > 0 THEN l.cpus ELSE MaxInt
        BY <1>3, AllowedIs
    <2>4. SetKey(t, key, v, l) # {}
          <=> ParseNumber(v) # {} /\ Meaning(v) >= MinCores /\ (l.cpus > 0 => Meaning(v) <= l.cpus)
        BY <1>3, AcceptCores
    <2>5. Offered(t, key, v, l)
          <=> Meaning(v) >= MinCores /\ Meaning(v) <= IF l.cpus > 0 THEN l.cpus ELSE MaxInt
        BY <2>3 DEF Offered
    <2> QED  BY <2>1, <2>2, <2>4, <2>5
<1>4. CASE key = "worker.memory"
    <2>1. Fits(t, key, v) <=> ParseSize(v) # {}
        BY <1>4, KindIs, ParseNumberIs, ParseSizeIs, ParseLifetimeIs DEF Fits
    <2>2. ParseSize(v) # {} => Meaning(v) <= MaxSize  BY ParseSizeIs, SettingsAssumption
    <2>3. /\ Allowed(t, key, l).lo = MinMemoryMiB
          /\ Allowed(t, key, l).hi = IF l.memory > 0 THEN l.memory ELSE MaxSize
        BY <1>4, AllowedIs
    <2>4. SetKey(t, key, v, l) # {}
          <=> ParseSize(v) # {} /\ Meaning(v) >= MinMemoryMiB /\ (l.memory > 0 => Meaning(v) <= l.memory)
        BY <1>4, AcceptMemory
    <2>5. Offered(t, key, v, l)
          <=> Meaning(v) >= MinMemoryMiB /\ Meaning(v) <= IF l.memory > 0 THEN l.memory ELSE MaxSize
        BY <2>3 DEF Offered
    <2> QED  BY <2>1, <2>2, <2>4, <2>5
<1>5. CASE key = "worker.maxLifetime"
    <2>1. Fits(t, key, v) <=> ParseLifetime(v) # {}
        BY <1>5, KindIs, ParseNumberIs, ParseSizeIs, ParseLifetimeIs DEF Fits
    <2> QED  BY <1>5, <2>1, AcceptLifetime, AllowedIs DEF Offered
<1> QED  BY <1>2, <1>3, <1>4, <1>5 DEF Keys

\* What config get prints can be given to config set again, if it is in the range that is offered.
LEMMA ShownFits ==
    ASSUME NEW t \in SettingsRecord, NEW key \in Keys, NEW l \in Limits, Offered(t, key, Get(t, key), l)
    PROVE  IsValue(Get(t, key)) /\ Fits(t, key, Get(t, key))
<1>1. ASSUME NEW n \in 1..MaxInt PROVE IsValue(Number(n)) /\ ParseNumber(Number(n)) # {}
    <2>1. n \in Int /\ n >= -MaxInt - 1 /\ n <= MaxInt  BY SettingsAssumption
    <2>2. Number(n).kind = "number" /\ Number(n).n = n  BY NumberIs
    <2>3. n \in ParseNumber(Number(n))  BY <2>1, <2>2 DEF ParseNumber, Atoi
    <2> QED  BY <2>1, <2>2, <2>3 DEF IsValue
<1>2. CASE key = "runners.max"
    <2>1. t.max \in 1..MaxInt /\ Get(t, key) = Number(t.max)  BY <1>2, GetIs DEF SettingsRecord
    <2> QED  BY <1>1, <2>1 DEF Fits
<1>3. CASE key = "worker.cores"
    <2>1. EffectiveWorker(t).cores \in 1..MaxInt /\ Get(t, key) = Number(EffectiveWorker(t).cores)
        BY <1>3, EffectiveWorkerIs, GetIs
    <2> QED  BY <1>1, <2>1 DEF Fits
<1>4. CASE key = "worker.memory"
    <2> DEFINE n == EffectiveWorker(t).memory
    <2>1. n \in Nat /\ n <= MaxSize /\ Get(t, key) = FormatMiB(n)  BY <1>4, EffectiveWorkerIs, GetIs, SettingsAssumption
    <2> HIDE DEF n
    <2>2. IsValue(FormatMiB(n)) /\ ParseSize(FormatMiB(n)) = {n}  BY <2>1, FormatMiBIs
    <2> QED  BY <2>1, <2>2 DEF Fits
<1>5. CASE key = "worker.maxLifetime"
    <2> DEFINE n == EffectiveMaxLifetime(t)
    <2>1. n \in Int /\ Get(t, key) = FormatLifetime(n) /\ Meaning(Get(t, key)) = n  BY <1>5, LifetimeIs, GetIs, GetMeans
    <2>2. n >= MinMaxLifetime /\ n <= MaxMaxLifetime  BY <1>5, <2>1, AllowedIs DEF Offered
    <2> HIDE DEF n
    <2>3. MinMaxLifetime \in Int /\ MaxMaxLifetime \in Int  BY SMT DEF MinMaxLifetime, MaxMaxLifetime
    <2>4. n \in MinMaxLifetime..MaxMaxLifetime  BY <2>1, <2>2, <2>3
    <2>5. IsValue(FormatLifetime(n)) /\ ParseLifetime(FormatLifetime(n)) = {n}  BY <2>1, <2>4, FormatLifetimeIs
    <2> QED  BY <2>1, <2>5 DEF Fits
<1> QED  BY <1>2, <1>3, <1>4, <1>5 DEF Keys

\* Settings that are shown with the same meaning are shown alike.
LEMMA ShownAlike ==
    ASSUME NEW t \in SettingsRecord, NEW u \in SettingsRecord, NEW key \in Keys,
           Meaning(Get(u, key)) = Meaning(Get(t, key))
    PROVE  Get(u, key) = Get(t, key)
<1>1. CASE key = "runners.max"  BY <1>1, GetIs, GetMeans
<1>2. CASE key = "worker.cores"  BY <1>2, GetIs, GetMeans
<1>3. CASE key = "worker.memory"  BY <1>3, GetIs, GetMeans
<1>4. CASE key = "worker.maxLifetime"  BY <1>4, GetIs, GetMeans
<1> QED  BY <1>1, <1>2, <1>3, <1>4 DEF Keys

\* config describe offers exactly what config set accepts, and what config get prints is accepted and changes nothing
\* (AllowedIsAccepted).
THEOREM DescribeIsSet == SettingsSpec => []AllowedIsAccepted
<1>1. ASSUME SettingsInv, at = "saved", NEW key \in Keys
      PROVE  /\ \A v \in Written : SetKey(s, key, v, limits) # {} <=> Fits(s, key, v) /\ Offered(s, key, v, limits)
             /\ Offered(s, key, Get(s, key), limits) =>
                   \E t \in SetKey(s, key, Get(s, key), limits) : \A k \in Keys : Get(t, k) = Get(s, k)
    <2>1. s \in SettingsRecord /\ limits \in Limits /\ Validate(s)  BY <1>1 DEF SettingsInv
    <2>2. \A v \in Written : SetKey(s, key, v, limits) # {} <=> Fits(s, key, v) /\ Offered(s, key, v, limits)
        BY <2>1, OfferedIsAccepted, SettingsAssumption
    <2>3. ASSUME Offered(s, key, Get(s, key), limits)
          PROVE  \E t \in SetKey(s, key, Get(s, key), limits) : \A k \in Keys : Get(t, k) = Get(s, k)
        <3> DEFINE v == Get(s, key)
        <3>1. IsValue(v) /\ Fits(s, key, v) /\ Offered(s, key, v, limits)  BY <2>1, <2>3, ShownFits
        <3> HIDE DEF v
        <3>2. PICK t \in SetKey(s, key, v, limits) : TRUE  BY <2>1, <3>1, OfferedIsAccepted
        <3>3. t \in Set(s, key, v, limits)  BY <3>2 DEF SetKey
        <3>4. /\ t \in SettingsRecord /\ Meaning(Get(t, key)) = Meaning(v)
              /\ \A other \in Keys \ {key} : Get(t, other) = Get(s, other)
            BY <2>1, <3>1, <3>3, SetStores
        <3>5. Get(t, key) = Get(s, key)  BY <2>1, <3>4, ShownAlike DEF v
        <3>6. \A k \in Keys : Get(t, k) = Get(s, k)  BY <3>4, <3>5
        <3> QED  BY <3>2, <3>6 DEF v
    <2> QED  BY <2>2, <2>3
<1>2. SettingsInv => AllowedIsAccepted  BY <1>1 DEF AllowedIsAccepted, Fits, Offered
<1> QED  BY <1>2, SettingsInvHolds, PTL

=============================================================================
