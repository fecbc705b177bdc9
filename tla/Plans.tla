------------------------------- MODULE Plans -------------------------------
(***************************************************************************)
(* Lemmas about plans: finite sequences of steps that a command works      *)
(* through from the front. The proofs of the commands see a plan as the    *)
(* set of the steps that are left, of which the next is the one with the   *)
(* least rank.                                                             *)
(***************************************************************************)
EXTENDS Integers, Sequences, TLAPS

\* The steps that are left of a plan.
Left(p) == {p[i] : i \in 1..Len(p)}

\* The steps of a plan come in the order of their rank.
Ordered(p, rank) == \A i, j \in 1..Len(p) : i < j => rank[p[i]] < rank[p[j]]

\* A plan is at its end when nothing is left of it.
LEMMA LeftEmpty ==
    ASSUME NEW S, NEW p \in Seq(S)
    PROVE  /\ Left(p) \subseteq S
           /\ p = <<>> <=> Left(p) = {}
<1>1. Left(p) \subseteq S  BY DEF Left
<1>2. ASSUME p = <<>> PROVE Left(p) = {}  BY <1>2 DEF Left
<1>3. ASSUME p # <<>> PROVE Left(p) # {}
    <2>1. Len(p) \in Nat /\ Len(p) > 0  BY <1>3
    <2>2. 1 \in 1..Len(p)  BY <2>1
    <2> QED  BY <2>2 DEF Left
<1> QED  BY <1>1, <1>2, <1>3

\* Doing the next step of an ordered plan takes exactly that step out of what is left, and it was the first in rank.
LEMMA LeftTail ==
    ASSUME NEW S, NEW rank \in [S -> Int], NEW p \in Seq(S), p # <<>>, Ordered(p, rank)
    PROVE  /\ Tail(p) \in Seq(S) /\ Ordered(Tail(p), rank)
           /\ Head(p) \in Left(p)
           /\ Left(Tail(p)) = Left(p) \ {Head(p)}
           /\ \A x \in Left(p) : x = Head(p) \/ rank[Head(p)] < rank[x]
<1>1. Len(p) \in Nat /\ Len(p) > 0 /\ Head(p) = p[1] /\ 1 \in 1..Len(p)  OBVIOUS
<1>2. Tail(p) \in Seq(S) /\ Len(Tail(p)) = Len(p) - 1  OBVIOUS
<1>3. \A i \in 1..(Len(p) - 1) : Tail(p)[i] = p[i + 1] /\ i + 1 \in 1..Len(p)  BY <1>1
<1>4. Ordered(Tail(p), rank)
    <2> SUFFICES ASSUME NEW i \in 1..(Len(p) - 1), NEW j \in 1..(Len(p) - 1), i < j
                 PROVE  rank[Tail(p)[i]] < rank[Tail(p)[j]]
        BY <1>2 DEF Ordered
    <2>1. i + 1 \in 1..Len(p) /\ j + 1 \in 1..Len(p) /\ i + 1 < j + 1  BY <1>1
    <2>2. rank[p[i + 1]] < rank[p[j + 1]]  BY <2>1 DEF Ordered
    <2> QED  BY <2>2, <1>3
<1>5. \A i \in 1..Len(p) : i # 1 => rank[p[1]] < rank[p[i]]
    <2> SUFFICES ASSUME NEW i \in 1..Len(p), i # 1 PROVE rank[p[1]] < rank[p[i]]
        OBVIOUS
    <2>1. 1 < i  BY <1>1
    <2> QED  BY <2>1, <1>1 DEF Ordered
<1>6. Head(p) \in Left(p)  BY <1>1 DEF Left
<1>7. \A x \in Left(p) : x = Head(p) \/ rank[Head(p)] < rank[x]  BY <1>1, <1>5 DEF Left
<1>8. ASSUME NEW x \in Left(Tail(p)) PROVE x \in Left(p) \ {Head(p)}
    <2>1. PICK i \in 1..(Len(p) - 1) : x = Tail(p)[i]  BY <1>2 DEF Left
    <2>2. x = p[i + 1] /\ i + 1 \in 1..Len(p)  BY <2>1, <1>3
    <2>3. i + 1 # 1  BY <1>1
    <2>4. rank[p[1]] < rank[p[i + 1]]  BY <2>2, <2>3, <1>5
    <2>5. p[1] \in S /\ p[i + 1] \in S  BY <1>1, <2>2
    <2>6. p[1] # p[i + 1]  BY <2>4, <2>5
    <2> QED  BY <2>2, <2>6, <1>1 DEF Left
<1>9. ASSUME NEW x \in Left(p) \ {Head(p)} PROVE x \in Left(Tail(p))
    <2>1. PICK i \in 1..Len(p) : x = p[i]  BY DEF Left
    <2>2. i # 1  BY <2>1, <1>1
    <2>3. i - 1 \in 1..(Len(p) - 1) /\ (i - 1) + 1 = i  BY <2>2, <1>1
    <2>4. Tail(p)[i - 1] = x  BY <2>1, <2>3, <1>3
    <2> QED  BY <2>3, <2>4, <1>2 DEF Left
<1> QED  BY <1>2, <1>4, <1>6, <1>7, <1>8, <1>9

\* One plan after another.
LEMMA LeftConcat ==
    ASSUME NEW S, NEW rank \in [S -> Int], NEW p \in Seq(S), NEW q \in Seq(S)
    PROVE  /\ p \o q \in Seq(S)
           /\ Left(p \o q) = Left(p) \cup Left(q)
           /\ Ordered(p, rank) /\ Ordered(q, rank) /\ (\A x \in Left(p), y \in Left(q) : rank[x] < rank[y])
              => Ordered(p \o q, rank)
<1> DEFINE m == Len(p)
           n == Len(q)
           r == p \o q
<1>1. r \in Seq(S) /\ Len(r) = m + n /\ m \in Nat /\ n \in Nat  OBVIOUS
<1>2. \A i \in 1..m : r[i] = p[i] /\ i \in 1..(m + n)  BY <1>1
<1>3. \A i \in 1..n : r[i + m] = q[i] /\ i + m \in 1..(m + n)  BY <1>1
<1>4. \A i \in 1..(m + n) : i \in 1..m \/ (i - m \in 1..n /\ (i - m) + m = i)  BY <1>1
<1> HIDE DEF m, n, r
<1>5. Left(r) = Left(p) \cup Left(q)
    <2>1. ASSUME NEW x \in Left(r) PROVE x \in Left(p) \cup Left(q)
        <3>1. PICK i \in 1..(m + n) : x = r[i]  BY <1>1 DEF Left
        <3>2. CASE i \in 1..m  BY <3>1, <3>2, <1>2 DEF Left, m
        <3>3. CASE i - m \in 1..n /\ (i - m) + m = i
            <4>1. r[(i - m) + m] = q[i - m]  BY <3>3, <1>3
            <4>2. x = q[i - m]  BY <4>1, <3>1, <3>3
            <4> QED  BY <4>2, <3>3 DEF Left, n
        <3> QED  BY <3>2, <3>3, <1>4
    <2>2. ASSUME NEW x \in Left(p) PROVE x \in Left(r)
        <3>1. PICK i \in 1..m : x = p[i]  BY DEF Left, m
        <3> QED  BY <3>1, <1>1, <1>2 DEF Left
    <2>3. ASSUME NEW x \in Left(q) PROVE x \in Left(r)
        <3>1. PICK i \in 1..n : x = q[i]  BY DEF Left, n
        <3> QED  BY <3>1, <1>1, <1>3 DEF Left
    <2> QED  BY <2>1, <2>2, <2>3
<1>6. ASSUME Ordered(p, rank), Ordered(q, rank), \A x \in Left(p), y \in Left(q) : rank[x] < rank[y]
      PROVE  Ordered(r, rank)
    <2> SUFFICES ASSUME NEW i \in 1..(m + n), NEW j \in 1..(m + n), i < j PROVE rank[r[i]] < rank[r[j]]
        BY <1>1 DEF Ordered
    <2>1. CASE i \in 1..m /\ j \in 1..m  BY <2>1, <1>2, <1>6 DEF Ordered, m
    <2>2. CASE i \in 1..m /\ j - m \in 1..n /\ (j - m) + m = j
        <3>1. r[i] = p[i] /\ r[j] = q[j - m]  BY <2>2, <1>2, <1>3
        <3>2. p[i] \in Left(p) /\ q[j - m] \in Left(q)  BY <2>2 DEF Left, m, n
        <3> QED  BY <3>1, <3>2, <1>6
    <2>3. CASE j \in 1..m /\ i - m \in 1..n  BY <2>3, <1>1
    <2>4. CASE i - m \in 1..n /\ j - m \in 1..n /\ (i - m) + m = i /\ (j - m) + m = j
        <3>1. r[i] = q[i - m] /\ r[j] = q[j - m]  BY <2>4, <1>3
        <3>2. i - m < j - m  BY <1>1
        <3>3. rank[q[i - m]] < rank[q[j - m]]  BY <2>4, <3>2, <1>6 DEF Ordered, n
        <3> QED  BY <3>1, <3>3
    <2> QED  BY <2>1, <2>2, <2>3, <2>4, <1>4
<1> QED  BY <1>1, <1>5, <1>6 DEF r

\* A plan of one step.
LEMMA LeftOne ==
    ASSUME NEW S, NEW rank \in [S -> Int], NEW x \in S
    PROVE  <<x>> \in Seq(S) /\ Left(<<x>>) = {x} /\ Ordered(<<x>>, rank)
<1>1. <<x>> \in Seq(S) /\ Len(<<x>>) = 1 /\ <<x>>[1] = x  OBVIOUS
<1>2. \A i \in 1..1 : i = 1  OBVIOUS
<1>3. Left(<<x>>) = {x}  BY <1>1, <1>2 DEF Left
<1>4. Ordered(<<x>>, rank)  BY <1>1, <1>2 DEF Ordered
<1> QED  BY <1>1, <1>3, <1>4

\* The empty plan.
LEMMA LeftNone ==
    ASSUME NEW S, NEW rank
    PROVE  <<>> \in Seq(S) /\ Left(<<>>) = {} /\ Ordered(<<>>, rank)
BY DEF Left, Ordered

\* A plan of two steps.
LEMMA LeftTwo ==
    ASSUME NEW S, NEW rank \in [S -> Int], NEW x \in S, NEW y \in S, rank[x] < rank[y]
    PROVE  <<x, y>> \in Seq(S) /\ Left(<<x, y>>) = {x, y} /\ Ordered(<<x, y>>, rank)
<1>1. <<x, y>> \in Seq(S) /\ Len(<<x, y>>) = 2 /\ <<x, y>>[1] = x /\ <<x, y>>[2] = y  OBVIOUS
<1>2. 1 \in 1..2 /\ 2 \in 1..2 /\ \A i \in 1..2 : i = 1 \/ i = 2  OBVIOUS
<1>3. Left(<<x, y>>) = {x, y}  BY <1>1, <1>2 DEF Left
<1>4. Ordered(<<x, y>>, rank)
    <2>1. \A i, j \in 1..2 : i < j => i = 1 /\ j = 2  BY <1>2
    <2> QED  BY <1>1, <2>1 DEF Ordered
<1> QED  BY <1>1, <1>3, <1>4

\* A function on 1..n is a plan of n steps.
LEMMA PlanOf ==
    ASSUME NEW S, NEW n \in Nat, NEW f \in [1..n -> S]
    PROVE  f \in Seq(S) /\ Len(f) = n
<1>1. f \in Seq(S)  OBVIOUS
<1>2. DOMAIN f = 1..n /\ DOMAIN f = 1..Len(f) /\ Len(f) \in Nat  BY <1>1
<1> QED  BY <1>1, <1>2
=============================================================================
