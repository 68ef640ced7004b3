-------------------------- MODULE DocumentPlanProofs --------------------------
(***************************************************************************)
(* What DocumentPlan does with any document: loops and lists, cutting and  *)
(* packing, requests and their budget, sections, groups and segments.      *)
(***************************************************************************)
EXTENDS DocumentPlan, SequenceTheorems, FiniteSetTheorems, WellFoundedInduction, TLAPS

-----------------------------------------------------------------------------
(* Numbers and loops.                                                      *)

LEMMA LeastNumber ==
  ASSUME NEW T \in SUBSET Nat, T # {}
  PROVE  \E x \in T : \A y \in T : x <= y
<1>1. IsWellFoundedOn(OpToRel(<, Nat), Nat)
  BY NatLessThanWellFounded
<1>2. PICK x \in T : \A y \in T : ~(<<y, x>> \in OpToRel(<, Nat))
  BY <1>1, WFMin
<1>3. ASSUME NEW y \in T PROVE x <= y
  <2>1. ~(y < x) /\ x \in Nat /\ y \in Nat
    BY <1>2 DEF OpToRel
  <2> QED BY <2>1
<1> QED BY <1>3

\* What holds at 0 and goes on from each pass to the next holds throughout.
LEMMA Onward ==
  ASSUME NEW n \in Nat, NEW I, 0 \in I, \A k \in 0 .. n - 1 : k \in I => k + 1 \in I
  PROVE  \A k \in 0 .. n : k \in I
<1> SUFFICES ASSUME NEW j \in 0 .. n, j \notin I PROVE FALSE
  OBVIOUS
<1> DEFINE T == {k \in 0 .. n : k \notin I}
<1>1. T \in SUBSET Nat /\ T # {}
  OBVIOUS
<1> HIDE DEF T
<1>2. PICK k \in T : \A m \in T : k <= m
  BY <1>1, LeastNumber
<1>3. k \in 0 .. n /\ k \notin I
  BY DEF T
<1>4. k - 1 \in 0 .. n - 1 /\ k - 1 \notin T
  BY <1>2, <1>3
<1>5. k - 1 \in I /\ k - 1 + 1 = k
  BY <1>4 DEF T
<1> QED BY <1>3, <1>4, <1>5

\* A loop that stays within S reaches a value of S, by its passes.
LEMMA LoopExists ==
  ASSUME NEW S, NEW x \in S, NEW n \in Nat, NEW F \in [1 .. n -> [S -> S]]
  PROVE  \E f : /\ \A k \in 0 .. n : f[k] \in S
                /\ f[0] = x /\ \A k \in 1 .. n : f[k] = F[k][f[k - 1]]
<1> DEFINE Goes(m, f) == f \in [0 .. m -> S] /\ f[0] = x /\ \A k \in 1 .. m : f[k] = F[k][f[k - 1]]
           I == {m \in 0 .. n : \E f : Goes(m, f)}
<1>1. 0 \in I
  <2> DEFINE f == [k \in 0 .. 0 |-> x]
  <2>1. Goes(0, f)
    OBVIOUS
  <2> HIDE DEF Goes
  <2>2. \E g : Goes(0, g)
    BY <2>1
  <2> QED BY <2>2
<1>2. ASSUME NEW m \in 0 .. n - 1, m \in I PROVE m + 1 \in I
  <2>1. PICK f : Goes(m, f)
    BY <1>2
  <2>2. m \in Nat /\ m + 1 \in 1 .. n /\ f[m] \in S /\ F[m + 1][f[m]] \in S
    BY <2>1
  <2> DEFINE g == [k \in 0 .. m + 1 |-> IF k = m + 1 THEN F[m + 1][f[m]] ELSE f[k]]
  <2>3. g \in [0 .. m + 1 -> S] /\ g[0] = x
    BY <2>1, <2>2
  <2>4. ASSUME NEW k \in 1 .. m + 1 PROVE g[k] = F[k][g[k - 1]]
    <3>1. k - 1 \in 0 .. m /\ k - 1 # m + 1 /\ g[k - 1] = f[k - 1]
      BY <2>2
    <3>2. CASE k = m + 1
      <4>1. k - 1 = m /\ g[k] = F[m + 1][f[m]]
        BY <2>2, <3>2
      <4> HIDE DEF g
      <4> QED BY <3>1, <3>2, <4>1
    <3>3. CASE k # m + 1
      <4>1. k \in 1 .. m /\ g[k] = f[k]
        BY <2>2, <3>3
      <4>2. f[k] = F[k][f[k - 1]]
        BY <2>1, <4>1
      <4> HIDE DEF g
      <4> QED BY <3>1, <4>1, <4>2
    <3> QED BY <3>2, <3>3
  <2>5. Goes(m + 1, g)
    <3> HIDE DEF g
    <3> QED BY <2>3, <2>4
  <2> HIDE DEF Goes
  <2> QED BY <2>2, <2>5
<1>3. \A m \in 0 .. n : m \in I
  <2> HIDE DEF I
  <2> QED BY <1>1, <1>2, Onward
<1>4. n \in I
  BY <1>3
<1>5. PICK f : Goes(n, f)
  BY <1>4
<1>6. \A k \in 0 .. n : f[k] \in S
  BY <1>5
<1> QED BY <1>5, <1>6

LEMMA LoopUnique ==
  ASSUME NEW n \in Nat, NEW f, NEW g, f[0] = g[0],
         \A k \in 1 .. n : f[k - 1] = g[k - 1] => f[k] = g[k]
  PROVE  \A k \in 0 .. n : f[k] = g[k]
<1> DEFINE I == {k \in 0 .. n : f[k] = g[k]}
<1>1. 0 \in I
  OBVIOUS
<1>2. ASSUME NEW k \in 0 .. n - 1, k \in I PROVE k + 1 \in I
  <2>1. k + 1 \in 1 .. n /\ k + 1 - 1 = k /\ f[k] = g[k] /\ k + 1 \in 0 .. n
    BY <1>2
  <2>2. f[k + 1] = g[k + 1]
    BY <2>1
  <2> QED BY <2>1, <2>2
<1>3. \A k \in 0 .. n : k \in I
  <2> HIDE DEF I
  <2> QED BY <1>1, <1>2, Onward
<1> QED BY <1>3

-----------------------------------------------------------------------------
(* Sequences.                                                              *)

\* Seq under a name of its own, so that a step opens it only where it computes.
Lists(S) == Seq(S)

LEMMA ListIs ==
  ASSUME NEW S, NEW l \in Lists(S)
  PROVE  /\ Len(l) \in Nat /\ DOMAIN l = 1 .. Len(l)
         /\ \A i \in 1 .. Len(l) : l[i] \in S
         /\ l = [i \in 1 .. Len(l) |-> l[i]]
         /\ l = <<>> <=> Len(l) = 0
  BY DEF Lists

LEMMA ListOf ==
  ASSUME NEW S, NEW n \in Nat, NEW f, f = [i \in 1 .. n |-> f[i]], \A i \in 1 .. n : f[i] \in S
  PROVE  f \in Lists(S) /\ Len(f) = n
<1>1. f \in [1 .. n -> S]
  OBVIOUS
<1> QED BY <1>1 DEF Lists

LEMMA ListEqual ==
  ASSUME NEW S, NEW a \in Lists(S), NEW b \in Lists(S), Len(a) = Len(b),
         \A i \in 1 .. Len(a) : a[i] = b[i]
  PROVE  a = b
  BY DEF Lists

LEMMA ListWider ==
  ASSUME NEW S, NEW T, S \subseteq T, NEW l \in Lists(S)
  PROVE  l \in Lists(T)
<1>1. Len(l) \in Nat /\ l = [i \in 1 .. Len(l) |-> l[i]] /\ \A i \in 1 .. Len(l) : l[i] \in T
  BY ListIs
<1> QED BY <1>1, ListOf

LEMMA NoneIs ==
  ASSUME NEW S
  PROVE  <<>> \in Lists(S) /\ Len(<<>>) = 0
  BY DEF Lists

LEMMA OneIs ==
  ASSUME NEW S, NEW x \in S
  PROVE  <<x>> \in Lists(S) /\ Len(<<x>>) = 1 /\ <<x>>[1] = x
  BY DEF Lists

LEMMA ConcatIs ==
  ASSUME NEW S, NEW a \in Lists(S), NEW b \in Lists(S)
  PROVE  /\ a \o b \in Lists(S) /\ Len(a \o b) = Len(a) + Len(b)
         /\ \A i \in 1 .. Len(a) : (a \o b)[i] = a[i]
         /\ \A i \in 1 .. Len(b) : (a \o b)[Len(a) + i] = b[i]
         /\ \A i \in Len(a) + 1 .. Len(a) + Len(b) : (a \o b)[i] = b[i - Len(a)]
  BY DEF Lists

LEMMA ConcatNone ==
  ASSUME NEW S, NEW a \in Lists(S)
  PROVE  a \o <<>> = a /\ <<>> \o a = a
  BY DEF Lists

LEMMA ConcatAssoc ==
  ASSUME NEW S, NEW a \in Lists(S), NEW b \in Lists(S), NEW c \in Lists(S)
  PROVE  (a \o b) \o c = a \o (b \o c)
  BY ConcatAssociative DEF Lists

LEMMA AppendIs ==
  ASSUME NEW S, NEW a \in Lists(S), NEW x \in S
  PROVE  /\ Append(a, x) \in Lists(S) /\ Len(Append(a, x)) = Len(a) + 1
         /\ \A i \in 1 .. Len(a) : Append(a, x)[i] = a[i]
         /\ Append(a, x)[Len(a) + 1] = x
<1>1. Append(a, x) \in Lists(S) /\ Len(Append(a, x)) = Len(a) + 1
  BY DEF Lists
<1>2. \A i \in 1 .. Len(a) : Append(a, x)[i] = a[i]
  BY DEF Lists
<1>3. Append(a, x)[Len(a) + 1] = x
  BY DEF Lists
<1> QED BY <1>1, <1>2, <1>3

LEMMA AppendJoins ==
  ASSUME NEW S, NEW a \in Lists(S), NEW x \in S
  PROVE  Append(a, x) = a \o <<x>>
  BY AppendIsConcat DEF Lists

LEMMA SubIs ==
  ASSUME NEW S, NEW a \in Lists(S), NEW m \in Nat, NEW n \in Nat,
         1 <= m, m <= n + 1, n <= Len(a)
  PROVE  /\ SubSeq(a, m, n) \in Lists(S) /\ Len(SubSeq(a, m, n)) = n - m + 1
         /\ \A i \in 1 .. n - m + 1 : SubSeq(a, m, n)[i] = a[m + i - 1]
<1>1. SubSeq(a, m, n) \in Lists(S)
  BY DEF Lists
<1>2. Len(SubSeq(a, m, n)) = n - m + 1
  BY DEF Lists
<1> QED BY <1>1, <1>2 DEF Lists

LEMMA PrefixIs ==
  ASSUME NEW S, NEW a \in Lists(S), NEW n \in 0 .. Len(a)
  PROVE  /\ SubSeq(a, 1, n) \in Lists(S) /\ Len(SubSeq(a, 1, n)) = n /\ n \in Nat
         /\ \A i \in 1 .. n : SubSeq(a, 1, n)[i] = a[i]
<1>1. n \in Nat /\ n <= Len(a) /\ 1 \in Nat /\ 1 <= n + 1
  BY ListIs
<1>2. /\ SubSeq(a, 1, n) \in Lists(S) /\ Len(SubSeq(a, 1, n)) = n - 1 + 1
      /\ \A i \in 1 .. n - 1 + 1 : SubSeq(a, 1, n)[i] = a[1 + i - 1]
  BY <1>1, SubIs
<1> QED BY <1>1, <1>2

LEMMA PrefixGrows ==
  ASSUME NEW S, NEW a \in Lists(S), NEW n \in 1 .. Len(a)
  PROVE  SubSeq(a, 1, n) = Append(SubSeq(a, 1, n - 1), a[n])
<1>1. n \in Nat /\ n - 1 \in 0 .. Len(a) /\ n \in 0 .. Len(a) /\ a[n] \in S
  BY ListIs
<1> DEFINE p == SubSeq(a, 1, n - 1)
           q == SubSeq(a, 1, n)
           r == Append(p, a[n])
<1>2. p \in Lists(S) /\ Len(p) = n - 1 /\ \A i \in 1 .. n - 1 : p[i] = a[i]
  BY <1>1, PrefixIs
<1>3. q \in Lists(S) /\ Len(q) = n /\ \A i \in 1 .. n : q[i] = a[i]
  BY <1>1, PrefixIs
<1> HIDE DEF p, q
<1>4. /\ r \in Lists(S) /\ Len(r) = Len(p) + 1
      /\ (\A i \in 1 .. Len(p) : r[i] = p[i]) /\ r[Len(p) + 1] = a[n]
  <2>1. p \in Lists(S) /\ a[n] \in S
    BY <1>1, <1>2
  <2>2. PICK x \in S : x = a[n]
    BY <2>1
  <2>3. /\ Append(p, x) \in Lists(S) /\ Len(Append(p, x)) = Len(p) + 1
        /\ (\A i \in 1 .. Len(p) : Append(p, x)[i] = p[i]) /\ Append(p, x)[Len(p) + 1] = x
    BY <2>1, AppendIs
  <2> QED BY <2>2, <2>3
<1> HIDE DEF r
<1>5. Len(r) = n /\ \A i \in 1 .. n : r[i] = a[i]
  BY <1>1, <1>2, <1>4
<1>6. q = r
  BY <1>3, <1>4, <1>5, ListEqual
<1> QED BY <1>6 DEF p, q, r

LEMMA PrefixEnds ==
  ASSUME NEW S, NEW a \in Lists(S)
  PROVE  /\ SubSeq(a, 1, 0) = <<>> /\ SubSeq(a, 1, Len(a)) = a
         /\ 0 \in 0 .. Len(a) /\ Len(a) \in 0 .. Len(a)
<1>1. Len(a) \in Nat
  BY ListIs
<1>2. SubSeq(a, 1, 0) = <<>>
  BY DEF Lists
<1>3. SubSeq(a, 1, Len(a)) = a
  BY DEF Lists
<1> QED BY <1>1, <1>2, <1>3

\* A sequence is the concatenation of what is before and after a point.
LEMMA CutInTwo ==
  ASSUME NEW S, NEW a \in Lists(S), NEW m \in Nat, NEW n \in Nat, NEW k \in Nat,
         1 <= m, m <= n + 1, n <= k, k <= Len(a)
  PROVE  SubSeq(a, m, k) = SubSeq(a, m, n) \o SubSeq(a, n + 1, k)
<1> DEFINE p == SubSeq(a, m, n)
           q == SubSeq(a, n + 1, k)
           r == SubSeq(a, m, k)
<1>1. p \in Lists(S) /\ Len(p) = n - m + 1 /\ \A i \in 1 .. n - m + 1 : p[i] = a[m + i - 1]
  <2>1. n <= Len(a)
    BY ListIs
  <2> QED BY <2>1, SubIs
<1>2. q \in Lists(S) /\ Len(q) = k - n /\ \A i \in 1 .. k - n : q[i] = a[n + i]
  <2>1. n + 1 \in Nat /\ 1 <= n + 1 /\ n + 1 <= k + 1
    OBVIOUS
  <2>2. /\ q \in Lists(S) /\ Len(q) = k - (n + 1) + 1
        /\ \A i \in 1 .. k - (n + 1) + 1 : q[i] = a[(n + 1) + i - 1]
    BY <2>1, SubIs
  <2> HIDE DEF q
  <2> QED BY <2>2
<1>3. r \in Lists(S) /\ Len(r) = k - m + 1 /\ \A i \in 1 .. k - m + 1 : r[i] = a[m + i - 1]
  <2>1. m <= k + 1
    OBVIOUS
  <2> QED BY <2>1, SubIs
<1> HIDE DEF p, q, r
<1>4. /\ p \o q \in Lists(S) /\ Len(p \o q) = Len(p) + Len(q)
      /\ \A i \in 1 .. Len(p) : (p \o q)[i] = p[i]
      /\ \A i \in Len(p) + 1 .. Len(p) + Len(q) : (p \o q)[i] = q[i - Len(p)]
  <2>1. p \in Lists(S) /\ q \in Lists(S)
    BY <1>1, <1>2
  <2> QED BY <2>1, ConcatIs
<1>5. Len(p \o q) = Len(r)
  BY <1>1, <1>2, <1>3, <1>4
<1>6. ASSUME NEW i \in 1 .. Len(r) PROVE r[i] = (p \o q)[i]
  <2>1. i \in 1 .. k - m + 1 /\ r[i] = a[m + i - 1]
    BY <1>3
  <2>2. CASE i \in 1 .. n - m + 1
    BY <1>1, <1>4, <2>1, <2>2
  <2>3. CASE i \in n - m + 2 .. k - m + 1
    <3>1. i \in Len(p) + 1 .. Len(p) + Len(q) /\ i - Len(p) \in 1 .. k - n
          /\ n + (i - Len(p)) = m + i - 1
      BY <1>1, <1>2, <2>3
    <3>2. (p \o q)[i] = q[i - Len(p)] /\ q[i - Len(p)] = a[n + (i - Len(p))]
      BY <1>2, <1>4, <3>1
    <3> QED BY <2>1, <3>1, <3>2
  <2>4. i \in 1 .. n - m + 1 \/ i \in n - m + 2 .. k - m + 1
    BY <2>1
  <2> QED BY <2>2, <2>3, <2>4
<1>7. r = p \o q
  BY <1>3, <1>4, <1>5, <1>6, ListEqual
<1> QED BY <1>7 DEF p, q, r

-----------------------------------------------------------------------------
(* Concatenations.                                                         *)

\* Join by the loop that adds one sequence at a time.
LEMMA JoinIs ==
  ASSUME NEW S, NEW ts \in Lists(Lists(S))
  PROVE  \E f : /\ \A k \in 0 .. Len(ts) : f[k] \in Lists(S)
                /\ f[0] = <<>> /\ Join(ts) = f[Len(ts)]
                /\ \A k \in 1 .. Len(ts) : f[k] = f[k - 1] \o ts[k]
<1> DEFINE n == Len(ts)
           T == Lists(S)
           none == <<>>
           F == [k \in 1 .. n |-> [a \in T |-> a \o ts[k]]]
           Flat(g) == g = [i \in 1 .. n |-> IF i = 1 THEN ts[i] ELSE g[i-1] \o ts[i]]
<1>1. n \in Nat /\ none \in T
  BY ListIs, NoneIs
<1>2. ASSUME NEW k \in 1 .. n PROVE ts[k] \in T
  BY ListIs
<1>3. F \in [1 .. n -> [T -> T]]
  <2>1. ASSUME NEW k \in 1 .. n, NEW a \in T PROVE a \o ts[k] \in T
    BY <1>2, ConcatIs
  <2> HIDE DEF T, n
  <2> QED BY <2>1
<1> HIDE DEF T, n, none
<1>4. PICK f : /\ \A k \in 0 .. n : f[k] \in T
               /\ f[0] = none /\ \A k \in 1 .. n : f[k] = F[k][f[k - 1]]
  <2> HIDE DEF F
  <2> QED BY <1>1, <1>3, LoopExists
<1>5. ASSUME NEW k \in 1 .. n PROVE f[k] = f[k - 1] \o ts[k] /\ f[k - 1] \in T /\ k - 1 \in 0 .. n
  <2>1. k - 1 \in 0 .. n
    BY <1>1
  <2>2. f[k - 1] \in T
    BY <1>4, <2>1
  <2>3. F[k][f[k - 1]] = f[k - 1] \o ts[k]
    BY <2>2
  <2> QED BY <1>4, <2>1, <2>2, <2>3
<1> HIDE DEF F
<1>6. Join(ts) = f[n]
  <2>1. CASE n = 0
    <3>1. ts = <<>>
      BY <2>1, ListIs DEF n
    <3>2. Join(ts) = ts
      BY <2>1 DEF Join, FlattenSeq, n
    <3> QED BY <1>4, <2>1, <3>1, <3>2 DEF none
  <2>2. CASE n # 0
    <3> DEFINE h == [i \in 1 .. n |-> f[i]]
    <3>1. ASSUME NEW i \in 1 .. n PROVE h[i] = IF i = 1 THEN ts[i] ELSE h[i-1] \o ts[i]
      <4>1. CASE i = 1
        <5>1. f[i] = none \o ts[i]
          <6>1. f[i] = f[i - 1] \o ts[i]
            BY <1>5
          <6>2. f[i - 1] = none
            BY <1>4, <4>1
          <6> QED BY <6>1, <6>2
        <5>2. f[i] = ts[i]
          BY <1>2, <5>1, ConcatNone DEF none, T
        <5> QED BY <4>1, <5>2
      <4>2. CASE i # 1
        <5>1. i - 1 \in 1 .. n /\ h[i] = f[i] /\ h[i - 1] = f[i - 1]
          BY <1>1, <4>2
        <5> HIDE DEF h
        <5> QED BY <1>5, <4>2, <5>1
      <4> QED BY <4>1, <4>2
    <3>2. Flat(h)
      BY <3>1
    <3> DEFINE g == CHOOSE g : Flat(g)
    <3>3. Flat(g)
      <4> HIDE DEF Flat, h
      <4> QED BY <3>2
    <3>4. Join(ts) = g[n]
      BY <2>2 DEF Join, FlattenSeq, n
    <3> HIDE DEF g
    <3>5. ASSUME NEW i \in 1 .. n PROVE g[i] = IF i = 1 THEN ts[i] ELSE g[i-1] \o ts[i]
      BY <3>3
    <3> HIDE DEF Flat
    <3> DEFINE gg == [k \in 0 .. n |-> IF k = 0 THEN none ELSE g[k]]
    <3>6. ASSUME NEW k \in 1 .. n, gg[k - 1] = f[k - 1] PROVE gg[k] = f[k]
      <4>0. gg[k] = g[k]
        BY <1>1
      <4>1. f[k] = f[k - 1] \o ts[k] /\ gg[k] = g[k] /\ k - 1 \in 0 .. n
        <5> HIDE DEF gg
        <5> QED BY <1>5, <4>0
      <4>2. CASE k = 1
        <5>1. f[k] = none \o ts[k]
          <6>1. f[k - 1] = none
            BY <1>4, <4>2
          <6> QED BY <4>1, <6>1
        <5>2. none \o ts[k] = ts[k]
          BY <1>2, ConcatNone DEF none, T
        <5>3. g[k] = ts[k]
          BY <3>5, <4>2
        <5> HIDE DEF gg
        <5> QED BY <4>1, <5>1, <5>2, <5>3
      <4>3. CASE k # 1
        <5>1. g[k - 1] = f[k - 1]
          BY <1>1, <3>6, <4>1, <4>3
        <5>2. g[k] = g[k - 1] \o ts[k]
          BY <3>5, <4>3
        <5> HIDE DEF gg
        <5> QED BY <4>1, <5>1, <5>2
      <4> QED BY <4>2, <4>3
    <3>7. gg[0] = f[0]
      BY <1>1, <1>4
    <3>8. \A k \in 0 .. n : gg[k] = f[k]
      <4> HIDE DEF gg
      <4> QED BY <1>1, <3>6, <3>7, LoopUnique
    <3>9. gg[n] = g[n] /\ gg[n] = f[n]
      BY <1>1, <2>2, <3>8
    <3> QED BY <3>4, <3>9
  <2> QED BY <2>1, <2>2
<1>7. \A k \in 1 .. n : f[k] = f[k - 1] \o ts[k]
  BY <1>5
<1> QED BY <1>4, <1>6, <1>7 DEF n, T, none

LEMMA JoinEmpty == Join(<<>>) = <<>>
  BY DEF Join, FlattenSeq

LEMMA JoinType ==
  ASSUME NEW S, NEW ts \in Lists(Lists(S))
  PROVE  Join(ts) \in Lists(S)
<1>1. PICK f : (\A k \in 0 .. Len(ts) : f[k] \in Lists(S)) /\ Join(ts) = f[Len(ts)]
  BY JoinIs
<1>2. Len(ts) \in 0 .. Len(ts)
  BY PrefixEnds
<1> QED BY <1>1, <1>2

LEMMA JoinPrefix ==
  ASSUME NEW S, NEW ts \in Lists(Lists(S)), NEW k \in 1 .. Len(ts)
  PROVE  /\ Join(SubSeq(ts, 1, k)) = Join(SubSeq(ts, 1, k - 1)) \o ts[k]
         /\ Join(SubSeq(ts, 1, k - 1)) \in Lists(S) /\ Join(SubSeq(ts, 1, k)) \in Lists(S)
         /\ ts[k] \in Lists(S)
<1> DEFINE a == SubSeq(ts, 1, k - 1)
           b == SubSeq(ts, 1, k)
           m == k - 1
<1>1. m \in 0 .. Len(ts) /\ k \in 0 .. Len(ts) /\ m \in Nat /\ k \in Nat /\ k = m + 1 /\ ts[k] \in Lists(S)
  BY ListIs
<1>2. a \in Lists(Lists(S)) /\ Len(a) = m /\ \A i \in 1 .. m : a[i] = ts[i]
  BY <1>1, PrefixIs
<1>3. b \in Lists(Lists(S)) /\ Len(b) = k /\ \A i \in 1 .. k : b[i] = ts[i]
  BY <1>1, PrefixIs
<1> HIDE DEF a, b, m
<1>4. PICK f : /\ f[0] = <<>> /\ Join(a) = f[m] /\ \A i \in 1 .. m : f[i] = f[i - 1] \o a[i]
  <2>1. a \in Lists(Lists(S)) /\ Len(a) = m
    BY <1>2
  <2> QED BY <2>1, JoinIs
<1>5. PICK g : /\ g[0] = <<>> /\ Join(b) = g[k] /\ \A i \in 1 .. k : g[i] = g[i - 1] \o b[i]
  <2>1. b \in Lists(Lists(S)) /\ Len(b) = k
    BY <1>3
  <2> QED BY <2>1, JoinIs
<1>6. ASSUME NEW i \in 1 .. m, f[i - 1] = g[i - 1] PROVE f[i] = g[i]
  <2>1. i \in 1 .. k
    BY <1>1
  <2>2. f[i] = f[i - 1] \o a[i] /\ a[i] = ts[i]
    BY <1>2, <1>4
  <2>3. g[i] = g[i - 1] \o b[i] /\ b[i] = ts[i]
    BY <1>3, <1>5, <2>1
  <2> QED BY <1>6, <2>2, <2>3
<1>7. f[m] = g[m]
  <2>1. f[0] = g[0]
    BY <1>4, <1>5
  <2>2. \A i \in 0 .. m : f[i] = g[i]
    BY <1>1, <1>6, <2>1, LoopUnique
  <2> QED BY <1>1, <2>2
<1>8. g[k] = g[k - 1] \o ts[k] /\ k - 1 = m
  <2>1. k \in 1 .. k /\ k - 1 = m
    BY <1>1
  <2>2. g[k] = g[k - 1] \o b[k] /\ b[k] = ts[k]
    BY <1>3, <1>5, <2>1
  <2> QED BY <2>1, <2>2
<1>9. Join(b) = Join(a) \o ts[k]
  BY <1>4, <1>5, <1>7, <1>8
<1>10. Join(a) \in Lists(S) /\ Join(b) \in Lists(S)
  BY <1>2, <1>3, JoinType
<1> QED BY <1>1, <1>9, <1>10 DEF a, b

LEMMA JoinAppend ==
  ASSUME NEW S, NEW ts \in Lists(Lists(S)), NEW x \in Lists(S)
  PROVE  Join(Append(ts, x)) = Join(ts) \o x
<1> DEFINE a == Append(ts, x)
           n == Len(ts) + 1
<1>1. a \in Lists(Lists(S)) /\ Len(a) = n /\ a[n] = x
  BY AppendIs
<1>2. n \in 1 .. Len(a) /\ n - 1 = Len(ts) /\ n \in Nat
  BY <1>1, ListIs
<1>3. SubSeq(a, 1, n) = a
  BY <1>1, PrefixEnds
<1>4. SubSeq(a, 1, n - 1) = ts
  <2>1. a = ts \o <<x>>
    BY AppendJoins
  <2>2. SubSeq(a, 1, Len(ts)) = ts
    BY DEF Lists
  <2> QED BY <1>2, <2>2
<1> HIDE DEF a, n
<1>5. Join(SubSeq(a, 1, n)) = Join(SubSeq(a, 1, n - 1)) \o a[n]
  <2>1. a \in Lists(Lists(S))
    BY <1>1
  <2> QED BY <1>2, <2>1, JoinPrefix
<1>6. Join(a) = Join(ts) \o x
  BY <1>1, <1>3, <1>4, <1>5
<1> QED BY <1>6 DEF a

LEMMA JoinOne ==
  ASSUME NEW S, NEW x \in Lists(S)
  PROVE  Join(<<x>>) = x
<1>1. <<>> \in Lists(Lists(S))
  BY NoneIs
<1>2. Append(<<>>, x) = <<x>>
  OBVIOUS
<1>3. <<>> \o x = x
  BY ConcatNone
<1>4. Join(Append(<<>>, x)) = Join(<<>>) \o x
  BY <1>1, JoinAppend
<1> QED BY <1>2, <1>3, <1>4, JoinEmpty

LEMMA JoinConcat ==
  ASSUME NEW S, NEW a \in Lists(Lists(S)), NEW b \in Lists(Lists(S))
  PROVE  Join(a \o b) = Join(a) \o Join(b)
<1> DEFINE J(k) == Join(a \o SubSeq(b, 1, k)) = Join(a) \o Join(SubSeq(b, 1, k))
           I == {k \in 0 .. Len(b) : J(k)}
<1>1. Join(a) \in Lists(S) /\ Len(b) \in Nat
  BY JoinType, ListIs
<1>2. J(0)
  <2>1. SubSeq(b, 1, 0) = <<>> /\ a \o <<>> = a
    BY PrefixEnds, ConcatNone
  <2>2. Join(a) \o <<>> = Join(a)
    BY <1>1, ConcatNone
  <2> QED BY <2>1, <2>2, JoinEmpty
<1>3. ASSUME NEW m \in 1 .. Len(b), J(m - 1) PROVE J(m)
  <2> DEFINE c == SubSeq(b, 1, m - 1)
             x == b[m]
  <2>1. m - 1 \in 0 .. Len(b) /\ x \in Lists(S)
    BY ListIs
  <2>2. c \in Lists(Lists(S)) /\ SubSeq(b, 1, m) = Append(c, x)
    BY <2>1, PrefixIs, PrefixGrows
  <2>3. Join(a \o c) = Join(a) \o Join(c)
    BY <1>3
  <2> HIDE DEF c, x
  <2>4. a \o Append(c, x) = Append(a \o c, x)
    BY SMTT(30), <2>1, <2>2 DEF Lists
  <2>5. a \o c \in Lists(Lists(S))
    BY <2>2, ConcatIs
  <2>6. Join(Append(a \o c, x)) = Join(a \o c) \o x
    BY <2>1, <2>5, JoinAppend
  <2>7. Join(Append(c, x)) = Join(c) \o x
    BY <2>1, <2>2, JoinAppend
  <2>8. Join(c) \in Lists(S)
    BY <2>2, JoinType
  <2>9. (Join(a) \o Join(c)) \o x = Join(a) \o (Join(c) \o x)
    BY SMTT(30), <1>1, <2>1, <2>8, ConcatAssoc
  <2> QED BY <2>2, <2>3, <2>4, <2>6, <2>7, <2>9
<1> HIDE DEF J
<1>4. ASSUME NEW k \in 0 .. Len(b) - 1, k \in I PROVE k + 1 \in I
  <2>1. k + 1 \in 1 .. Len(b) /\ k + 1 - 1 = k /\ J(k)
    BY <1>1, <1>4
  <2>2. J(k + 1)
    BY <1>3, <2>1
  <2> QED BY <1>1, <2>1, <2>2
<1>5. 0 \in I
  BY <1>1, <1>2
<1>6. \A k \in 0 .. Len(b) : k \in I
  <2> HIDE DEF I
  <2> QED BY <1>1, <1>4, <1>5, Onward
<1>7. J(Len(b))
  BY <1>1, <1>6
<1> QED BY <1>7, PrefixEnds DEF J

\* Joining what is joined in parts.
LEMMA JoinJoin ==
  ASSUME NEW S, NEW tss \in Lists(Lists(Lists(S))), NEW js, js = [i \in DOMAIN tss |-> Join(tss[i])]
  PROVE  js \in Lists(Lists(S)) /\ Len(js) = Len(tss) /\ Join(Join(tss)) = Join(js)
<1> DEFINE n == Len(tss)
           J(k) == Join(Join(SubSeq(tss, 1, k))) = Join(SubSeq(js, 1, k))
           I == {k \in 0 .. n : J(k)}
<1>1. n \in Nat /\ DOMAIN tss = 1 .. n
  BY ListIs
<1>2. ASSUME NEW i \in 1 .. n PROVE tss[i] \in Lists(Lists(S)) /\ js[i] = Join(tss[i])
  BY <1>1, ListIs
<1>3. ASSUME NEW i \in 1 .. n PROVE js[i] \in Lists(S)
  BY <1>2, JoinType
<1>4. js = [i \in 1 .. n |-> js[i]]
  BY <1>1
<1>5. js \in Lists(Lists(S)) /\ Len(js) = n
  <2> HIDE DEF n
  <2> QED BY <1>1, <1>3, <1>4, ListOf
<1>6. J(0)
  BY <1>5, PrefixEnds, JoinEmpty
<1>7. ASSUME NEW m \in 1 .. n, J(m - 1) PROVE J(m)
  <2> DEFINE a == SubSeq(tss, 1, m - 1)
             b == SubSeq(js, 1, m - 1)
             x == tss[m]
             T == Lists(S)
  <2>1. Join(Join(a)) = Join(b)
    BY <1>7
  <2>2. tss \in Lists(Lists(T)) /\ x \in Lists(T) /\ js[m] = Join(x)
    BY <1>2
  <2> HIDE DEF T
  <2>3. Join(SubSeq(tss, 1, m)) = Join(a) \o x /\ Join(a) \in Lists(T)
    BY <2>2, JoinPrefix
  <2> HIDE DEF a, x
  <2>4. Join(SubSeq(js, 1, m)) = Join(b) \o js[m]
    BY <1>5, JoinPrefix
  <2>5. Join(Join(a) \o x) = Join(Join(a)) \o Join(x)
    <3>1. Join(a) \in Lists(Lists(S)) /\ x \in Lists(Lists(S))
      BY <2>2, <2>3 DEF T
    <3> QED BY <3>1, JoinConcat
  <2> QED BY <2>1, <2>2, <2>3, <2>4, <2>5
<1> HIDE DEF J
<1>8. ASSUME NEW k \in 0 .. n - 1, k \in I PROVE k + 1 \in I
  <2>1. k + 1 \in 1 .. n /\ k + 1 - 1 = k /\ J(k)
    BY <1>1, <1>8
  <2>2. J(k + 1)
    BY <1>7, <2>1
  <2> QED BY <1>1, <2>1, <2>2
<1>9. \A k \in 0 .. n : k \in I
  <2>1. 0 \in I
    BY <1>1, <1>6
  <2> HIDE DEF I
  <2> QED BY <1>1, <1>8, <2>1, Onward
<1>10. J(n)
  BY <1>1, <1>9
<1> QED BY <1>5, <1>10, PrefixEnds DEF J

-----------------------------------------------------------------------------
(* Cutting a text.                                                         *)

LEMMA TextIs == Text = Lists(Atom)
  BY DEF Text, Lists

Longer(pieces, a) == Append(Front(pieces), Append(Last(pieces), a))

\* Adding an atom to the last piece.
LEMMA LongerIs ==
  ASSUME NEW S, NEW pieces \in Lists(Lists(S)), pieces # <<>>, NEW a \in S
  PROVE  /\ Longer(pieces, a) \in Lists(Lists(S)) /\ Longer(pieces, a) # <<>>
         /\ Join(Longer(pieces, a)) = Append(Join(pieces), a)
<1> DEFINE n == Len(pieces)
           p == Front(pieces)
           x == Last(pieces)
<1>1. n \in Nat /\ n # 0 /\ n \in 1 .. Len(pieces) /\ n - 1 \in 0 .. Len(pieces)
  BY ListIs
<1>2. p = SubSeq(pieces, 1, n - 1) /\ x = pieces[n]
  BY DEF Front, Last
<1>3. p \in Lists(Lists(S)) /\ x \in Lists(S)
  <2>1. SubSeq(pieces, 1, n - 1) \in Lists(Lists(S))
    <3> HIDE DEF n, p, x
    <3>1. PICK m \in 0 .. Len(pieces) : m = n - 1
      BY <1>1
    <3>2. SubSeq(pieces, 1, m) \in Lists(Lists(S))
      BY PrefixIs
    <3> QED BY <3>1, <3>2
  <2>2. pieces[n] \in Lists(S)
    <3> HIDE DEF n, p, x
    <3> QED BY <1>1, ListIs
  <2> HIDE DEF n, p, x
  <2> QED BY <1>2, <2>1, <2>2
<1>4. Join(pieces) = Join(p) \o x
  BY <1>1, <1>2, JoinPrefix, PrefixEnds
<1> HIDE DEF p, x
<1>5. Append(x, a) \in Lists(S)
  BY <1>3, AppendIs
<1>6. /\ Append(p, Append(x, a)) \in Lists(Lists(S))
      /\ Len(Append(p, Append(x, a))) = Len(p) + 1
  BY <1>3, <1>5, AppendIs
<1>7. Append(p, Append(x, a)) # <<>>
  <2>1. Len(p) \in Nat
    BY <1>3, ListIs
  <2> QED BY <1>6, <2>1, NoneIs
<1>8. Join(Append(p, Append(x, a))) = Join(p) \o Append(x, a)
  BY <1>3, <1>5, JoinAppend
<1>9. Join(p) \in Lists(S)
  BY <1>3, JoinType
<1>10. Join(p) \o Append(x, a) = Append(Join(p) \o x, a)
  BY <1>3, <1>9 DEF Lists
<1> QED BY <1>4, <1>6, <1>7, <1>8, <1>10 DEF Longer, p, x

Cut(pieces, ends, i, a) ==
  IF pieces = <<>> \/ i - 1 \in ends THEN Append(pieces, <<a>>) ELSE Longer(pieces, a)

LEMMA CutStep ==
  ASSUME NEW S, NEW pieces \in Lists(Lists(S)), NEW ends, NEW i \in Nat, NEW a \in S
  PROVE  /\ Cut(pieces, ends, i, a) \in Lists(Lists(S))
         /\ Join(Cut(pieces, ends, i, a)) = Append(Join(pieces), a)
<1>1. <<a>> \in Lists(S)
  BY OneIs
<1>2. Append(pieces, <<a>>) \in Lists(Lists(S))
  BY <1>1, AppendIs
<1>3. Join(pieces) \in Lists(S)
  BY JoinType
<1>4. Join(Append(pieces, <<a>>)) = Join(pieces) \o <<a>>
  BY <1>1, JoinAppend
<1>5. Append(Join(pieces), a) = Join(pieces) \o <<a>>
  BY <1>3, AppendJoins
<1>6. CASE pieces = <<>> \/ i - 1 \in ends
  BY <1>2, <1>4, <1>5, <1>6 DEF Cut
<1>7. CASE ~(pieces = <<>> \/ i - 1 \in ends)
  <2>1. Cut(pieces, ends, i, a) = Longer(pieces, a) /\ pieces # <<>>
    BY <1>7 DEF Cut
  <2> QED BY <2>1, LongerIs
<1> QED BY <1>6, <1>7

\* CutAfter by the loop that adds an atom at a time.
LEMMA CutAfterIs ==
  ASSUME NEW S, NEW t \in Lists(S), NEW ends
  PROVE  \E f : /\ \A k \in 0 .. Len(t) : f[k] \in Lists(Lists(S))
                /\ f[0] = <<>> /\ CutAfter(t, ends) = f[Len(t)]
                /\ \A k \in 1 .. Len(t) : f[k] = Cut(f[k - 1], ends, k, t[k])
<1> DEFINE n == Len(t)
           T == Lists(Lists(S))
           none == <<>>
           F == [k \in 1 .. n |-> [a \in T |-> Cut(a, ends, k, t[k])]]
           Loops(g) == g = [k \in 0 .. n |-> IF k = 0 THEN <<>> ELSE
                              IF g[k-1] = <<>> \/ k - 1 \in ends THEN Append(g[k-1], <<t[k]>>)
                              ELSE Append(Front(g[k-1]), Append(Last(g[k-1]), t[k]))]
<1>1. n \in Nat /\ none \in T
  BY ListIs, NoneIs
<1>2. F \in [1 .. n -> [T -> T]]
  <2>1. ASSUME NEW k \in 1 .. n, NEW a \in T PROVE Cut(a, ends, k, t[k]) \in T
    <3>1. t[k] \in S /\ k \in Nat
      BY <1>1, ListIs
    <3> QED BY <3>1, CutStep
  <2> HIDE DEF T, n
  <2> QED BY <2>1
<1> HIDE DEF T, n, none
<1>3. PICK f : /\ \A k \in 0 .. n : f[k] \in T
               /\ f[0] = none /\ \A k \in 1 .. n : f[k] = F[k][f[k - 1]]
  <2> HIDE DEF F
  <2> QED BY <1>1, <1>2, LoopExists
<1>4. ASSUME NEW k \in 1 .. n PROVE f[k] = Cut(f[k - 1], ends, k, t[k])
  <2>1. k - 1 \in 0 .. n
    BY <1>1
  <2>2. f[k - 1] \in T
    BY <1>3, <2>1
  <2>3. F[k][f[k - 1]] = Cut(f[k - 1], ends, k, t[k])
    BY <2>2
  <2> QED BY <1>3, <2>3
<1> HIDE DEF F
<1> DEFINE h == [k \in 0 .. n |-> f[k]]
           g == CHOOSE g : Loops(g)
<1>5. Loops(h)
  <2>1. ASSUME NEW k \in 0 .. n
        PROVE  h[k] = IF k = 0 THEN <<>> ELSE
                        IF h[k-1] = <<>> \/ k - 1 \in ends THEN Append(h[k-1], <<t[k]>>)
                        ELSE Append(Front(h[k-1]), Append(Last(h[k-1]), t[k]))
    <3>1. CASE k = 0
      BY <1>3, <3>1 DEF none
    <3>2. CASE k # 0
      <4>1. k \in 1 .. n /\ h[k] = f[k] /\ h[k-1] = f[k-1]
        BY <1>1, <3>2
      <4>2. h[k] = Cut(h[k - 1], ends, k, t[k])
        BY <1>4, <4>1
      <4> HIDE DEF h
      <4> QED BY <3>2, <4>2 DEF Cut, Longer
    <3> QED BY <3>1, <3>2
  <2> QED BY <2>1
<1>6. Loops(g)
  <2> HIDE DEF Loops, h
  <2> QED BY <1>5
<1>7. CutAfter(t, ends) = g[n]
  BY DEF CutAfter, Loop, n
<1> HIDE DEF g
<1>8. ASSUME NEW k \in 0 .. n
      PROVE  g[k] = IF k = 0 THEN <<>> ELSE Cut(g[k - 1], ends, k, t[k])
  <2>1. g[k] = IF k = 0 THEN <<>> ELSE
                 IF g[k-1] = <<>> \/ k - 1 \in ends THEN Append(g[k-1], <<t[k]>>)
                 ELSE Append(Front(g[k-1]), Append(Last(g[k-1]), t[k]))
    BY <1>6
  <2> QED BY <2>1 DEF Cut, Longer
<1> HIDE DEF Loops
<1>9. ASSUME NEW k \in 1 .. n, g[k - 1] = f[k - 1] PROVE g[k] = f[k]
  <2>1. k \in 0 .. n /\ k # 0
    BY <1>1
  <2> QED BY <1>4, <1>8, <1>9, <2>1
<1>10. g[0] = f[0]
  BY <1>1, <1>3, <1>8 DEF none
<1>11. \A k \in 0 .. n : g[k] = f[k]
  BY <1>1, <1>9, <1>10, LoopUnique
<1>12. CutAfter(t, ends) = f[n]
  BY <1>1, <1>7, <1>11
<1>13. \A k \in 1 .. n : f[k] = Cut(f[k - 1], ends, k, t[k])
  BY <1>4
<1> QED BY <1>3, <1>12, <1>13 DEF n, T, none

-----------------------------------------------------------------------------
\* The pieces of a text, joined, are the text.
LEMMA CutAfterJoins ==
  ASSUME NEW S, NEW t \in Lists(S), NEW ends
  PROVE  CutAfter(t, ends) \in Lists(Lists(S)) /\ Join(CutAfter(t, ends)) = t
<1>1. PICK f : /\ \A k \in 0 .. Len(t) : f[k] \in Lists(Lists(S))
               /\ f[0] = <<>> /\ CutAfter(t, ends) = f[Len(t)]
               /\ \A k \in 1 .. Len(t) : f[k] = Cut(f[k - 1], ends, k, t[k])
  BY CutAfterIs
<1> DEFINE n == Len(t)
           I == {k \in 0 .. n : Join(f[k]) = SubSeq(t, 1, k)}
<1>2. n \in Nat
  BY ListIs
<1>3. 0 \in I
  BY <1>1, <1>2, JoinEmpty, PrefixEnds
<1>4. ASSUME NEW k \in 0 .. n - 1, k \in I PROVE k + 1 \in I
  <2>1. k + 1 \in 1 .. Len(t) /\ k + 1 - 1 = k /\ k \in 0 .. Len(t) /\ k + 1 \in Nat
    BY <1>2
  <2>2. PICK m \in 1 .. Len(t) : m = k + 1 /\ m \in Nat
    BY <2>1
  <2>3. t[m] \in S
    BY ListIs
  <2>4. f[k] \in Lists(Lists(S))
    BY <1>1, <2>1
  <2>5. PICK a \in S : a = t[m]
    BY <2>3
  <2>6. Join(Cut(f[k], ends, m, a)) = Append(Join(f[k]), a)
    <3>1. PICK p \in Lists(Lists(S)) : p = f[k]
      BY <2>4
    <3>2. Join(Cut(p, ends, m, a)) = Append(Join(p), a)
      BY <2>2, CutStep
    <3> QED BY <3>1, <3>2
  <2>7. SubSeq(t, 1, m) = Append(SubSeq(t, 1, m - 1), t[m])
    BY PrefixGrows
  <2>8. f[m] = Cut(f[m - 1], ends, m, t[m])
    BY <1>1
  <2>9. m - 1 = k
    BY <2>1, <2>2
  <2>10. Join(f[k]) = SubSeq(t, 1, k)
    BY <1>4
  <2>11. Join(f[m]) = SubSeq(t, 1, m)
    BY <2>5, <2>6, <2>7, <2>8, <2>9, <2>10
  <2> QED BY <1>2, <2>2, <2>11
<1>5. \A k \in 0 .. n : k \in I
  <2> HIDE DEF I
  <2> QED BY <1>2, <1>3, <1>4, Onward
<1>6. n \in 0 .. n /\ Len(t) \in 0 .. Len(t)
  BY <1>2
<1>7. n \in I
  BY <1>5, <1>6
<1>8. f[Len(t)] \in Lists(Lists(S)) /\ Join(f[Len(t)]) = SubSeq(t, 1, Len(t))
  BY <1>1, <1>6, <1>7
<1>9. SubSeq(t, 1, Len(t)) = t
  BY PrefixEnds
<1> QED BY <1>1, <1>8, <1>9

\* Texts of at most max atoms.
Short(S, max) == {t \in Lists(S) : Len(t) <= max}

\* Cut everywhere, a text is in pieces of one atom.
LEMMA CutEverywhere ==
  ASSUME NEW S, NEW t \in Lists(S)
  PROVE  CutAfter(t, DOMAIN t) \in Lists(Short(S, 1))
<1> DEFINE n == Len(t)
           ends == DOMAIN t
           T == Lists(Short(S, 1))
<1>1. PICK f : /\ \A k \in 0 .. Len(t) : f[k] \in Lists(Lists(S))
               /\ f[0] = <<>> /\ CutAfter(t, ends) = f[Len(t)]
               /\ \A k \in 1 .. Len(t) : f[k] = Cut(f[k - 1], ends, k, t[k])
  BY SMTT(30), CutAfterIs
<1>2. n \in Nat /\ ends = 1 .. n
  BY ListIs
<1> DEFINE I == {k \in 0 .. n : f[k] \in T}
<1> HIDE DEF T, ends
<1>3. 0 \in I
  BY <1>1, <1>2, NoneIs DEF T
<1>4. ASSUME NEW k \in 0 .. n - 1, k \in I PROVE k + 1 \in I
  <2>1. k + 1 \in 1 .. Len(t) /\ k + 1 - 1 = k
    BY <1>2
  <2>2. PICK m \in 1 .. Len(t) : m = k + 1 /\ m - 1 = k
    BY <2>1
  <2>3. t[m] \in S
    BY ListIs
  <2>4. PICK a \in S : a = t[m]
    BY <2>3
  <2>5. f[k] = <<>> \/ m - 1 \in ends
    BY <1>1, <1>2, <2>2
  <2>6. f[m] = Cut(f[m - 1], ends, m, t[m])
    BY <1>1
  <2>7. f[m] = Append(f[k], <<a>>)
    BY <2>2, <2>4, <2>5, <2>6 DEF Cut
  <2>8. <<a>> \in Short(S, 1)
    BY OneIs DEF Short
  <2>9. PICK p \in T, o \in Short(S, 1) : p = f[k] /\ o = <<a>>
    BY <1>4, <2>8
  <2>10. Append(p, o) \in T
    BY AppendIs DEF T
  <2>11. f[m] \in T
    BY <2>7, <2>9, <2>10
  <2>12. m \in 0 .. n
    BY <1>2, <2>2
  <2> QED BY <2>2, <2>11, <2>12
<1>5. \A k \in 0 .. n : k \in I
  <2> HIDE DEF I
  <2> QED BY <1>2, <1>3, <1>4, Onward
<1> QED BY <1>1, <1>2, <1>5 DEF T, ends

-----------------------------------------------------------------------------
(* Packing.                                                                *)

Packed(packed, unit, max) ==
  IF packed # <<>> /\ Len(Last(packed)) + Len(unit) <= max
  THEN Append(Front(packed), Last(packed) \o unit) ELSE Append(packed, unit)

\* Packing one more unit keeps every piece short, and what they hold.
LEMMA PackStep ==
  ASSUME NEW S, NEW max \in Nat, NEW packed \in Lists(Short(S, max)), NEW unit \in Short(S, max)
  PROVE  /\ Packed(packed, unit, max) \in Lists(Short(S, max))
         /\ Packed(packed, unit, max) # <<>>
         /\ Join(Packed(packed, unit, max)) = Join(packed) \o unit
<1> DEFINE T == Short(S, max)
<1>1. T \subseteq Lists(S)
  BY DEF Short
<1>2. packed \in Lists(Lists(S)) /\ unit \in Lists(S)
  <2> HIDE DEF T
  <2>1. packed \in Lists(T) /\ unit \in T
    BY DEF T
  <2> QED BY <1>1, <2>1, ListWider
<1>3. CASE ~(packed # <<>> /\ Len(Last(packed)) + Len(unit) <= max)
  <2>1. Packed(packed, unit, max) = Append(packed, unit)
    BY <1>3 DEF Packed
  <2>2. Append(packed, unit) \in Lists(T) /\ Len(Append(packed, unit)) = Len(packed) + 1
    <3>1. packed \in Lists(T) /\ unit \in T
      OBVIOUS
    <3> HIDE DEF T
    <3> QED BY <3>1, AppendIs
  <2>3. Join(Append(packed, unit)) = Join(packed) \o unit
    BY <1>2, JoinAppend
  <2>4. Append(packed, unit) # <<>>
    <3>1. Len(packed) \in Nat
      BY ListIs
    <3> QED BY <2>2, <3>1, NoneIs
  <2> QED BY <2>1, <2>2, <2>3, <2>4
<1>4. CASE packed # <<>> /\ Len(Last(packed)) + Len(unit) <= max
  <2> DEFINE n == Len(packed)
             p == SubSeq(packed, 1, n - 1)
             y == packed[n]
             x == y \o unit
  <2>1. n \in Nat /\ n # 0 /\ n \in 1 .. Len(packed) /\ n - 1 \in 0 .. Len(packed)
    BY <1>4, ListIs
  <2>2. Packed(packed, unit, max) = Append(p, x) /\ Len(y) + Len(unit) <= max
    BY <1>4 DEF Packed, Front, Last
  <2>3. p \in Lists(T)
    <3> HIDE DEF T, n, p
    <3>1. packed \in Lists(T)
      BY DEF T
    <3>2. PICK m \in 0 .. Len(packed) : m = n - 1
      BY <2>1
    <3>3. SubSeq(packed, 1, m) \in Lists(T)
      BY <3>1, PrefixIs
    <3> QED BY <3>2, <3>3 DEF p
  <2>4. y \in T
    <3> HIDE DEF n, T
    <3>1. packed \in Lists(T)
      BY DEF T
    <3> QED BY <2>1, <3>1, ListIs
  <2>5. y \in Lists(S) /\ Join(packed) = Join(p) \o y /\ Join(p) \in Lists(S)
    <3>1. SubSeq(packed, 1, n) = packed
      BY PrefixEnds
    <3>2. Join(SubSeq(packed, 1, n)) = Join(SubSeq(packed, 1, n - 1)) \o packed[n]
          /\ Join(SubSeq(packed, 1, n - 1)) \in Lists(S) /\ packed[n] \in Lists(S)
      <4> HIDE DEF n
      <4> QED BY <1>2, <2>1, JoinPrefix
    <3> QED BY <3>1, <3>2
  <2> HIDE DEF p, y
  <2>6. x \in Lists(S) /\ Len(x) = Len(y) + Len(unit)
    BY <1>2, <2>5, ConcatIs
  <2>7. x \in T
    <3> HIDE DEF x
    <3> QED BY <2>2, <2>6 DEF T, Short
  <2>8. Append(p, x) \in Lists(T) /\ Len(Append(p, x)) = Len(p) + 1 /\ p \in Lists(Lists(S))
    <3> HIDE DEF x, T
    <3> QED BY <1>1, <2>3, <2>7, AppendIs, ListWider
  <2>9. Append(p, x) # <<>>
    <3> HIDE DEF x, T
    <3>1. Len(p) \in Nat
      BY <2>3, ListIs
    <3> QED BY <2>8, <3>1, NoneIs
  <2>10. Join(Append(p, x)) = Join(p) \o x
    <3> HIDE DEF x
    <3> QED BY <2>6, <2>8, JoinAppend
  <2>11. Join(p) \o (y \o unit) = (Join(p) \o y) \o unit
    BY <1>2, <2>5, ConcatAssoc
  <2> QED BY <2>2, <2>5, <2>8, <2>9, <2>10, <2>11
<1> QED BY <1>3, <1>4

\* Pack by the loop that adds one unit at a time.
LEMMA PackIs ==
  ASSUME NEW S, NEW max \in Nat, NEW units \in Lists(Short(S, max))
  PROVE  \E f : /\ \A k \in 0 .. Len(units) : f[k] \in Lists(Short(S, max))
                /\ f[0] = <<>> /\ Pack(units, max) = f[Len(units)]
                /\ \A k \in 1 .. Len(units) : f[k] = Packed(f[k - 1], units[k], max)
<1> DEFINE n == Len(units)
           T == Lists(Short(S, max))
           x == <<>>
           F == [k \in 1 .. n |-> [a \in T |-> Packed(a, units[k], max)]]
           Loops(g) == g = [k \in 0 .. n |-> IF k = 0 THEN <<>> ELSE
                              IF g[k-1] # <<>> /\ Len(Last(g[k-1])) + Len(units[k]) <= max
                              THEN Append(Front(g[k-1]), Last(g[k-1]) \o units[k])
                              ELSE Append(g[k-1], units[k])]
<1>1. n \in Nat /\ x \in T
  BY ListIs, NoneIs
<1>2. F \in [1 .. n -> [T -> T]]
  <2>1. ASSUME NEW k \in 1 .. n, NEW a \in T PROVE Packed(a, units[k], max) \in T
    <3>1. units[k] \in Short(S, max)
      BY <1>1, ListIs
    <3> QED BY <3>1, PackStep
  <2> HIDE DEF T, n
  <2> QED BY <2>1
<1> HIDE DEF T, n, x
<1>3. PICK f : /\ \A k \in 0 .. n : f[k] \in T
               /\ f[0] = x /\ \A k \in 1 .. n : f[k] = F[k][f[k - 1]]
  <2> HIDE DEF F, Loops
  <2> QED BY <1>1, <1>2, LoopExists
<1>4. ASSUME NEW k \in 1 .. n PROVE f[k] = Packed(f[k - 1], units[k], max)
  <2>1. k - 1 \in 0 .. n
    BY <1>1
  <2>2. f[k - 1] \in T
    BY <1>3, <2>1
  <2>3. F[k][f[k - 1]] = Packed(f[k - 1], units[k], max)
    BY <2>2
  <2> QED BY <1>3, <2>3
<1> HIDE DEF F
<1> DEFINE h == [k \in 0 .. n |-> f[k]]
           g == CHOOSE g : Loops(g)
<1>5. Loops(h)
  <2>1. ASSUME NEW k \in 0 .. n
        PROVE  h[k] = IF k = 0 THEN <<>> ELSE
                        IF h[k-1] # <<>> /\ Len(Last(h[k-1])) + Len(units[k]) <= max
                              THEN Append(Front(h[k-1]), Last(h[k-1]) \o units[k])
                              ELSE Append(h[k-1], units[k])
    <3>1. CASE k = 0
      BY <1>3, <3>1 DEF x
    <3>2. CASE k # 0
      <4>1. k \in 1 .. n /\ h[k] = f[k] /\ h[k-1] = f[k-1]
        BY <1>1, <3>2
      <4>2. h[k] = Packed(h[k - 1], units[k], max)
        BY <1>4, <4>1
      <4> HIDE DEF h
      <4> QED BY <3>2, <4>2 DEF Packed
    <3> QED BY <3>1, <3>2
  <2> QED BY <2>1
<1>6. Loops(g)
  <2> HIDE DEF Loops, h
  <2> QED BY <1>5
<1>7. Pack(units, max) = g[n]
  BY DEF Pack, Loop, n
<1> HIDE DEF g
<1>8. ASSUME NEW k \in 0 .. n
      PROVE  g[k] = IF k = 0 THEN <<>> ELSE Packed(g[k - 1], units[k], max)
  <2>1. g[k] = IF k = 0 THEN <<>> ELSE
                 IF g[k-1] # <<>> /\ Len(Last(g[k-1])) + Len(units[k]) <= max
                              THEN Append(Front(g[k-1]), Last(g[k-1]) \o units[k])
                              ELSE Append(g[k-1], units[k])
    BY <1>6
  <2> QED BY <2>1 DEF Packed
<1> HIDE DEF Loops
<1>9. ASSUME NEW k \in 1 .. n, g[k - 1] = f[k - 1] PROVE g[k] = f[k]
  <2>1. k \in 0 .. n /\ k # 0
    BY <1>1
  <2> QED BY <1>4, <1>8, <1>9, <2>1
<1>10. g[0] = f[0]
  BY <1>1, <1>3, <1>8 DEF x
<1>11. \A k \in 0 .. n : g[k] = f[k]
  BY <1>1, <1>9, <1>10, LoopUnique
<1>12. Pack(units, max) = f[n]
  BY <1>1, <1>7, <1>11
<1>13. \A k \in 1 .. n : f[k] = Packed(f[k - 1], units[k], max)
  BY <1>4
<1> QED BY <1>3, <1>12, <1>13 DEF n, T, x

LEMMA PackJoins ==
  ASSUME NEW S, NEW max \in Nat, NEW units \in Lists(Short(S, max))
  PROVE  /\ Pack(units, max) \in Lists(Short(S, max)) /\ Join(Pack(units, max)) = Join(units)
         /\ units # <<>> => Pack(units, max) # <<>>
<1> DEFINE n == Len(units)
           T == Lists(Short(S, max))
<1>1. PICK f : /\ \A k \in 0 .. Len(units) : f[k] \in T
               /\ f[0] = <<>> /\ Pack(units, max) = f[Len(units)]
               /\ \A k \in 1 .. Len(units) : f[k] = Packed(f[k - 1], units[k], max)
  BY PackIs
<1> DEFINE I == {k \in 0 .. n : /\ Join(f[k]) = Join(SubSeq(units, 1, k))
                                /\ k # 0 => f[k] # <<>>}
<1>2. n \in Nat
  BY ListIs
<1>0. units \in Lists(Lists(S))
  <2>1. Short(S, max) \subseteq Lists(S)
    BY DEF Short
  <2> QED BY <2>1, ListWider
<1>3. 0 \in I
  <2>1. SubSeq(units, 1, 0) = <<>>
    BY <1>2, PrefixEnds
  <2>2. 0 \in 0 .. n
    BY <1>2
  <2>3. f[0] = SubSeq(units, 1, 0)
    BY <1>1, <2>1
  <2>4. Join(f[0]) = Join(SubSeq(units, 1, 0))
    BY <2>3
  <2> QED BY <2>2, <2>4
<1>4. ASSUME NEW k \in 0 .. n - 1, k \in I PROVE k + 1 \in I
  <2>1. k + 1 \in 1 .. Len(units) /\ k + 1 - 1 = k /\ k \in 0 .. Len(units) /\ k + 1 # 0
    BY <1>2
  <2>2. PICK m \in 1 .. Len(units) : m = k + 1 /\ m - 1 = k /\ m # 0
    BY <2>1
  <2>3. PICK u \in Short(S, max) : u = units[m]
    BY ListIs
  <2>4. PICK p \in T : p = f[k]
    BY <1>1, <2>1
  <2>5. Packed(p, u, max) # <<>> /\ Join(Packed(p, u, max)) = Join(p) \o u
    BY PackStep
  <2>6. f[m] = Packed(f[m - 1], units[m], max)
    BY <1>1
  <2>7. Join(SubSeq(units, 1, m)) = Join(SubSeq(units, 1, m - 1)) \o units[m]
    BY <1>0, JoinPrefix
  <2>8. Join(f[k]) = Join(SubSeq(units, 1, k))
    BY <1>4
  <2>9. Join(f[m]) = Join(SubSeq(units, 1, m)) /\ f[m] # <<>>
    BY <2>2, <2>3, <2>4, <2>5, <2>6, <2>7, <2>8
  <2> QED BY <1>2, <2>2, <2>9
<1>5. \A k \in 0 .. n : k \in I
  <2> HIDE DEF I
  <2> QED BY <1>2, <1>3, <1>4, Onward
<1>6. Len(units) \in 0 .. Len(units) /\ n \in I
  BY <1>2, <1>5
<1>7. f[Len(units)] \in T /\ Join(f[Len(units)]) = Join(SubSeq(units, 1, Len(units)))
      /\ (Len(units) # 0 => f[Len(units)] # <<>>)
  BY <1>1, <1>6
<1>8. SubSeq(units, 1, Len(units)) = units /\ (units = <<>> <=> Len(units) = 0)
  BY PrefixEnds, ListIs
<1> QED BY <1>1, <1>7, <1>8

-----------------------------------------------------------------------------
(* Segmentation.                                                           *)

\* What finer pieces do not lose, a refinement keeps.
LEMMA RefineJoins ==
  ASSUME NEW S, NEW max \in Nat, NEW units \in Lists(Lists(S)), NEW finer,
         \A i \in 1 .. Len(units) :
            Len(units[i]) > max => finer[i] \in Lists(Short(S, max)) /\ Join(finer[i]) = units[i]
  PROVE  /\ Refine(units, max, finer) \in Lists(Short(S, max))
         /\ Join(Refine(units, max, finer)) = Join(units)
<1> DEFINE n == Len(units)
           T == Short(S, max)
           tss == [i \in 1 .. n |-> IF Len(units[i]) <= max THEN <<units[i]>> ELSE finer[i]]
           js == [i \in DOMAIN tss |-> Join(tss[i])]
<1>1. n \in Nat /\ DOMAIN units = 1 .. n /\ units = [i \in 1 .. n |-> units[i]]
  BY ListIs
<1>2. T \subseteq Lists(S)
  BY DEF Short
<1>3. Refine(units, max, finer) = Join(tss)
  BY <1>1 DEF Refine
<1>4. ASSUME NEW i \in 1 .. n PROVE tss[i] \in Lists(T) /\ Join(tss[i]) = units[i]
  <2>1. units[i] \in Lists(S)
    BY ListIs
  <2>2. PICK u \in Lists(S) : u = units[i]
    BY <2>1
  <2>3. Len(u) \in Nat
    BY ListIs
  <2>4. CASE Len(units[i]) <= max
    <3>1. tss[i] = <<u>>
      BY <2>2, <2>4
    <3>2. u \in T
      BY <2>2, <2>4 DEF Short
    <3>3. <<u>> \in Lists(T)
      <4> HIDE DEF T
      <4> QED BY <3>2, OneIs
    <3>4. Join(<<u>>) = u
      BY JoinOne
    <3> HIDE DEF tss
    <3> QED BY <2>2, <3>1, <3>3, <3>4
  <2>5. CASE ~(Len(units[i]) <= max)
    <3>1. tss[i] = finer[i]
      BY <2>5
    <3>2. Len(units[i]) > max
      BY <2>2, <2>3, <2>5
    <3> HIDE DEF tss
    <3> QED BY <3>1, <3>2
  <2> QED BY <2>4, <2>5
<1>5. tss = [i \in 1 .. n |-> tss[i]] /\ DOMAIN tss = 1 .. n
  OBVIOUS
<1> HIDE DEF tss, T
<1>6. tss \in Lists(Lists(T)) /\ Len(tss) = n
  BY <1>1, <1>4, <1>5, ListOf
<1>7. Lists(T) \subseteq Lists(Lists(S))
  BY <1>2, ListWider
<1>8. tss \in Lists(Lists(Lists(S)))
  BY <1>6, <1>7, ListWider
<1>9. Join(Join(tss)) = Join(js)
  BY <1>8, JoinJoin
<1>10. js = units
  BY <1>1, <1>4, <1>5
<1>11. Join(tss) \in Lists(T)
  BY <1>6, JoinType
<1> QED BY <1>3, <1>9, <1>10, <1>11 DEF T

LEMMA CharsJoins ==
  ASSUME NEW S, NEW t \in Lists(S), NEW max \in Nat \ {0}
  PROVE  Chars(t, max) \in Lists(Short(S, max)) /\ Join(Chars(t, max)) = t
<1>1. PICK units : units = CutAfter(t, DOMAIN t)
  OBVIOUS
<1>2. units \in Lists(Short(S, 1)) /\ Join(units) = t
  BY <1>1, CutEverywhere, CutAfterJoins
<1>3. Short(S, 1) \subseteq Short(S, max)
  <2>1. ASSUME NEW u \in Short(S, 1) PROVE u \in Short(S, max)
    <3>1. u \in Lists(S) /\ Len(u) <= 1
      BY DEF Short
    <3>2. Len(u) \in Nat
      BY <3>1, ListIs
    <3> QED BY <3>1, <3>2 DEF Short
  <2> QED BY <2>1
<1>4. units \in Lists(Short(S, max))
  BY <1>2, <1>3, ListWider
<1>5. Pack(units, max) \in Lists(Short(S, max)) /\ Join(Pack(units, max)) = Join(units)
  BY <1>4, PackJoins
<1> QED BY <1>1, <1>2, <1>5 DEF Chars

LEMMA WordsJoins ==
  ASSUME NEW S, NEW t \in Lists(S), NEW max \in Nat \ {0}
  PROVE  WordsOrChars(t, max) \in Lists(Short(S, max)) /\ Join(WordsOrChars(t, max)) = t
<1>1. PICK units : units = Words(t)
  OBVIOUS
<1>2. units \in Lists(Lists(S)) /\ Join(units) = t
  BY <1>1, CutAfterJoins DEF Words
<1> DEFINE finer == [i \in DOMAIN units |-> Chars(units[i], max)]
           r == Refine(units, max, finer)
<1>3. ASSUME NEW i \in 1 .. Len(units)
      PROVE  finer[i] \in Lists(Short(S, max)) /\ Join(finer[i]) = units[i]
  <2>1. units[i] \in Lists(S) /\ DOMAIN units = 1 .. Len(units)
    BY <1>2, ListIs
  <2>2. finer[i] = Chars(units[i], max)
    BY <2>1
  <2> HIDE DEF finer
  <2> QED BY <2>1, <2>2, CharsJoins
<1>4. WordsOrChars(t, max) = Pack(r, max)
  BY <1>1 DEF WordsOrChars, Each
<1> HIDE DEF finer
<1>5. r \in Lists(Short(S, max)) /\ Join(r) = Join(units)
  BY <1>2, <1>3, RefineJoins
<1> HIDE DEF r
<1>6. Pack(r, max) \in Lists(Short(S, max)) /\ Join(Pack(r, max)) = Join(r)
  BY <1>5, PackJoins
<1> QED BY <1>2, <1>4, <1>5, <1>6

LEMMA ClausesJoin ==
  ASSUME NEW S, NEW t \in Lists(S), NEW max \in Nat \ {0}
  PROVE  ClauseUnits(t, max) \in Lists(Short(S, max)) /\ Join(ClauseUnits(t, max)) = t
<1>1. PICK units : units = Clauses(t)
  OBVIOUS
<1>2. units \in Lists(Lists(S)) /\ Join(units) = t
  BY <1>1, CutAfterJoins DEF Clauses
<1> DEFINE finer == [i \in DOMAIN units |-> WordsOrChars(units[i], max)]
           r == Refine(units, max, finer)
<1>3. ASSUME NEW i \in 1 .. Len(units)
      PROVE  finer[i] \in Lists(Short(S, max)) /\ Join(finer[i]) = units[i]
  <2>1. units[i] \in Lists(S) /\ DOMAIN units = 1 .. Len(units)
    BY <1>2, ListIs
  <2>2. finer[i] = WordsOrChars(units[i], max)
    BY <2>1
  <2> HIDE DEF finer
  <2> QED BY <2>1, <2>2, WordsJoins
<1>4. ClauseUnits(t, max) = r
  BY <1>1 DEF ClauseUnits, Each
<1> HIDE DEF finer
<1>5. r \in Lists(Short(S, max)) /\ Join(r) = Join(units)
  BY <1>2, <1>3, RefineJoins
<1> QED BY <1>2, <1>4, <1>5

\* Segmentation loses nothing, and every segment is within the limit.
LEMMA SegmentJoins ==
  ASSUME NEW S, NEW t \in Lists(S), NEW max \in Nat \ {0}
  PROVE  /\ Segment(t, max) \in Lists(Short(S, max)) /\ Join(Segment(t, max)) = t
         /\ Segment(t, max) # <<>>
<1>1. Len(t) \in Nat
  BY ListIs
<1>2. CASE Len(t) <= max
  <2>1. Segment(t, max) = <<t>> /\ t \in Short(S, max)
    BY <1>2 DEF Segment, Short
  <2>2. <<t>> \in Lists(Short(S, max)) /\ Len(<<t>>) = 1
    BY <2>1, OneIs
  <2>3. Join(<<t>>) = t
    BY JoinOne
  <2> QED BY <2>1, <2>2, <2>3
<1>3. CASE ~(Len(t) <= max)
  <2>1. PICK units : units = Sentences(t)
    OBVIOUS
  <2>2. units \in Lists(Lists(S)) /\ Join(units) = t
    BY <2>1, CutAfterJoins DEF Sentences
  <2> DEFINE finer == [i \in DOMAIN units |-> ClauseUnits(units[i], max)]
             r == Refine(units, max, finer)
  <2>3. ASSUME NEW i \in 1 .. Len(units)
        PROVE  finer[i] \in Lists(Short(S, max)) /\ Join(finer[i]) = units[i]
    <3>1. units[i] \in Lists(S) /\ DOMAIN units = 1 .. Len(units)
      BY <2>2, ListIs
    <3>2. finer[i] = ClauseUnits(units[i], max)
      BY <3>1
    <3> HIDE DEF finer
    <3> QED BY <3>1, <3>2, ClausesJoin
  <2>4. Segment(t, max) = Pack(r, max)
    BY <1>3, <2>1 DEF Segment, Each
  <2> HIDE DEF finer
  <2>5. r \in Lists(Short(S, max)) /\ Join(r) = Join(units)
    BY <2>2, <2>3, RefineJoins
  <2> HIDE DEF r
  <2>6. Pack(r, max) \in Lists(Short(S, max)) /\ Join(Pack(r, max)) = Join(r)
    BY <2>5, PackJoins
  <2>7. Pack(r, max) # <<>>
    <3>1. t # <<>>
      BY <1>1, <1>3, ListIs
    <3> QED BY <2>2, <2>5, <2>6, <3>1, JoinEmpty
  <2> QED BY <2>2, <2>4, <2>5, <2>6, <2>7
<1> QED BY <1>2, <1>3

-----------------------------------------------------------------------------
(* Fitting a text to the request.                                          *)

LEMMA ConcatParts ==
  ASSUME NEW S, NEW T, NEW a \in Lists(S), NEW b \in Lists(S), a \o b \in Lists(T)
  PROVE  a \in Lists(T) /\ b \in Lists(T)
<1> DEFINE c == a \o b
<1>0. Len(a) \in Nat /\ Len(b) \in Nat
  BY ListIs
<1>1. /\ Len(c) = Len(a) + Len(b) /\ Len(a) \in Nat /\ Len(b) \in Nat
      /\ \A i \in 1 .. Len(a) : c[i] = a[i]
      /\ \A i \in 1 .. Len(b) : c[Len(a) + i] = b[i]
  <2> HIDE DEF c
  <2>1. /\ a \o b \in Lists(S) /\ Len(a \o b) = Len(a) + Len(b)
        /\ \A i \in 1 .. Len(a) : (a \o b)[i] = a[i]
        /\ \A i \in 1 .. Len(b) : (a \o b)[Len(a) + i] = b[i]
    BY ConcatIs
  <2> QED BY <1>0, <2>1 DEF c
<1>2. c \in Lists(T)
  OBVIOUS
<1> HIDE DEF c
<1>3. \A i \in 1 .. Len(c) : c[i] \in T
  BY <1>2, ListIs
<1>4. a = [i \in 1 .. Len(a) |-> a[i]] /\ \A i \in 1 .. Len(a) : a[i] \in T
  <2>1. ASSUME NEW i \in 1 .. Len(a) PROVE a[i] \in T
    <3>1. i \in 1 .. Len(c) /\ c[i] = a[i]
      BY <1>1
    <3> QED BY <1>3, <3>1
  <2> QED BY <2>1, ListIs
<1>5. b = [i \in 1 .. Len(b) |-> b[i]] /\ \A i \in 1 .. Len(b) : b[i] \in T
  <2>1. ASSUME NEW i \in 1 .. Len(b) PROVE b[i] \in T
    <3>1. Len(a) + i \in 1 .. Len(c) /\ c[Len(a) + i] = b[i]
      BY <1>1
    <3> QED BY <1>3, <3>1
  <2> QED BY <2>1, ListIs
<1> QED BY <1>1, <1>4, <1>5, ListOf

\* The parts of a concatenation are sequences over whatever it is one over.
LEMMA JoinParts ==
  ASSUME NEW S, NEW T, NEW ts \in Lists(Lists(S)), Join(ts) \in Lists(T)
  PROVE  \A i \in 1 .. Len(ts) : ts[i] \in Lists(T)
<1> DEFINE n == Len(ts)
           I == {j \in 0 .. n : Join(SubSeq(ts, 1, n - j)) \in Lists(T)}
<1>1. n \in Nat
  BY ListIs
<1>2. ASSUME NEW k \in 1 .. n, Join(SubSeq(ts, 1, k)) \in Lists(T)
      PROVE  Join(SubSeq(ts, 1, k - 1)) \in Lists(T) /\ ts[k] \in Lists(T)
  <2>1. PICK a \in Lists(S), b \in Lists(S) :
          Join(SubSeq(ts, 1, k)) = a \o b /\ a = Join(SubSeq(ts, 1, k - 1)) /\ b = ts[k]
    BY JoinPrefix
  <2>2. a \o b \in Lists(T)
    BY <1>2, <2>1
  <2> QED BY <2>1, <2>2, ConcatParts
<1>3. 0 \in I
  <2>1. n - 0 = n /\ 0 \in 0 .. n
    BY <1>1
  <2>2. SubSeq(ts, 1, n) = ts
    BY PrefixEnds
  <2> QED BY <2>1, <2>2
<1>4. ASSUME NEW j \in 0 .. n - 1, j \in I PROVE j + 1 \in I
  <2>1. PICK k \in 1 .. n : k = n - j /\ k - 1 = n - (j + 1)
    BY <1>1
  <2>2. Join(SubSeq(ts, 1, k)) \in Lists(T)
    BY <1>4, <2>1
  <2>3. Join(SubSeq(ts, 1, n - (j + 1))) \in Lists(T)
    BY <1>2, <2>1, <2>2
  <2>4. j + 1 \in 0 .. n
    BY <1>1
  <2> QED BY <2>3, <2>4
<1>5. \A j \in 0 .. n : j \in I
  <2> HIDE DEF I
  <2> QED BY <1>1, <1>3, <1>4, Onward
<1>6. ASSUME NEW i \in 1 .. n PROVE ts[i] \in Lists(T)
  <2>1. n - i \in 0 .. n /\ n - (n - i) = i
    BY <1>1
  <2>2. n - i \in I
    BY <1>5, <2>1
  <2>3. Join(SubSeq(ts, 1, i)) \in Lists(T)
    BY <2>1, <2>2
  <2> QED BY <1>2, <2>3
<1> QED BY <1>6

LEMMA JoinSome ==
  ASSUME NEW S, NEW ts \in Lists(Lists(S)), NEW i \in 1 .. Len(ts), ts[i] # <<>>
  PROVE  Join(ts) # <<>>
<1> SUFFICES ASSUME Join(ts) = <<>> PROVE FALSE
  OBVIOUS
<1>1. Join(ts) \in Lists({})
  BY NoneIs
<1>2. ts[i] \in Lists({}) /\ ts[i] \in Lists(S)
  BY <1>1, JoinParts, ListIs
<1>3. PICK l \in Lists({}) : l = ts[i]
  BY <1>2
<1>4. Len(l) \in Nat /\ (\A k \in 1 .. Len(l) : l[k] \in {}) /\ (l = <<>> <=> Len(l) = 0)
  BY ListIs
<1>5. Len(l) = 0
  <2>1. CASE Len(l) # 0
    <3>1. 1 \in 1 .. Len(l)
      BY <1>4, <2>1
    <3> QED BY <1>4, <3>1
  <2> QED BY <2>1
<1> QED BY <1>3, <1>4, <1>5

Some == Text \ {<<>>}

LEMMA RequestIs ==
  ASSUME NEW t \in Text
  PROVE  Request(t) \in Nat /\ Len(t) \in Nat /\ (t = <<>> <=> Len(t) = 0)
<1>1. Len(t) \in Nat /\ DOMAIN t = 1 .. Len(t) /\ (t = <<>> <=> Len(t) = 0)
  BY TextIs, ListIs
<1> DEFINE X == {i \in DOMAIN t : t[i] = "x"}
<1>2. X \subseteq 1 .. Len(t)
  BY <1>1
<1> HIDE DEF X
<1>3. IsFiniteSet(1 .. Len(t))
  BY <1>1, FS_Interval
<1>4. IsFiniteSet(X)
  BY <1>2, <1>3, FS_Subset
<1>5. Cardinality(X) \in Nat
  BY <1>4, FS_CardinalityType
<1>6. Request(t) = Framing + Factor * (Len(t) + Cardinality(X))
  BY DEF Request, Quantify, X
<1>7. Factor * (Len(t) + Cardinality(X)) \in Nat
  BY <1>1, <1>5, PlanAssumption
<1> QED BY <1>1, <1>6, <1>7, PlanAssumption

LEMMA RequestEmpty ==
  Request(<<>>) = Framing /\ Request(<<>>) < Capacity /\ <<>> \in Text
<1>1. <<>> \in Text /\ Len(<<>>) = 0
  BY TextIs, NoneIs
<1>2. {i \in DOMAIN <<>> : <<>>[i] = "x"} = {}
  OBVIOUS
<1>3. Cardinality({}) = 0
  BY FS_EmptySet
<1>4. Request(<<>>) = Framing + Factor * (0 + 0)
  BY <1>1, <1>2, <1>3 DEF Request, Quantify
<1> QED BY <1>1, <1>4, PlanAssumption

LEMMA AvailableIs == Available \in Nat \ {0}
  BY RequestEmpty, PlanAssumption DEF Available, Monus, Least

\* A text split for its request is in pieces shorter than it was.
LEMMA SplitIs ==
  ASSUME NEW t \in Text, Request(t) > Capacity
  PROVE  /\ Len(t) - 1 \in Nat /\ Split(t) \in Lists(Short(Atom, Len(t) - 1))
         /\ Split(t) # <<>> /\ (Split(t) \in Lists(Some) => Join(Split(t)) = t)
         /\ IsJson(t) => Split(t) = <<(<<>>)>>
<1>1. Request(t) \in Nat /\ Len(t) \in Nat /\ Capacity \in Nat
  BY RequestIs, PlanAssumption
<1>2. Len(t) # 0
  BY RequestIs, RequestEmpty, <1>1
<1>3. SplitLimit(t) \in Nat /\ SplitLimit(t) <= Len(t) - 1 /\ Len(t) - 1 \in Nat
  BY <1>1, <1>2 DEF SplitLimit, Least, Monus
<1>4. CASE Len(Shorter(t)) <= 1
  <2>1. Split(t) = <<(<<>>)>>
    BY <1>4 DEF Split
  <2>2. <<>> \in Short(Atom, Len(t) - 1)
    BY <1>3, NoneIs DEF Short
  <2>3. PICK o \in Short(Atom, Len(t) - 1) : o = <<>>
    BY <2>2
  <2>4. <<o>> \in Lists(Short(Atom, Len(t) - 1)) /\ Len(<<o>>) = 1
    BY OneIs
  <2>5. <<o>> \notin Lists(Some)
    <3> SUFFICES ASSUME <<o>> \in Lists(Some) PROVE FALSE
      OBVIOUS
    <3>1. 1 \in 1 .. Len(<<o>>) /\ <<o>>[1] = o
      BY <2>4
    <3>2. <<o>>[1] \in Some
      BY <3>1, ListIs
    <3> QED BY <2>3, <3>1, <3>2 DEF Some
  <2> QED BY <1>3, <2>1, <2>3, <2>4, <2>5
<1>5. CASE ~(Len(Shorter(t)) <= 1)
  <2>1. Split(t) = Shorter(t)
    BY <1>5 DEF Split
  <2>2. ~(SplitLimit(t) = 0 \/ IsJson(t))
    <3> SUFFICES ASSUME SplitLimit(t) = 0 \/ IsJson(t) PROVE FALSE
      OBVIOUS
    <3>1. Shorter(t) = <<>>
      BY DEF Shorter
    <3> QED BY <1>5, <3>1
  <2>3. Shorter(t) = Segment(t, SplitLimit(t))
    BY <2>2 DEF Shorter
  <2>4. PICK max \in Nat \ {0} : max = SplitLimit(t)
    BY <1>3, <2>2
  <2>5. /\ Segment(t, max) \in Lists(Short(Atom, max)) /\ Join(Segment(t, max)) = t
        /\ Segment(t, max) # <<>>
    BY SegmentJoins, TextIs
  <2>6. Short(Atom, max) \subseteq Short(Atom, Len(t) - 1)
    <3>1. ASSUME NEW u \in Short(Atom, max) PROVE u \in Short(Atom, Len(t) - 1)
      <4>1. u \in Lists(Atom) /\ Len(u) <= max
        BY DEF Short
      <4>2. Len(u) \in Nat
        BY <4>1, ListIs
      <4> QED BY <1>1, <1>3, <2>4, <4>1, <4>2 DEF Short
    <3> QED BY <3>1
  <2>7. Segment(t, max) \in Lists(Short(Atom, Len(t) - 1))
    BY <2>5, <2>6, ListWider
  <2> QED BY <1>3, <2>1, <2>2, <2>3, <2>4, <2>5, <2>7
<1> QED BY <1>4, <1>5

\* Texts no longer than n of which those too long for a request are shorter by j.
Fits(n, j) == {u \in Text : Len(u) <= n /\ (Request(u) <= Capacity \/ Len(u) + j <= n)}

\* A pass shortens what is too long and loses nothing that is not refused.
LEMMA RefitIs ==
  ASSUME NEW n \in Nat, NEW j \in Nat, NEW pieces \in Lists(Fits(n, j))
  PROVE  /\ Refit(pieces) \in Lists(Fits(n, j + 1))
         /\ pieces # <<>> => Refit(pieces) # <<>>
         /\ Refit(pieces) \in Lists(Some) =>
               pieces \in Lists(Some) /\ Join(Refit(pieces)) = Join(pieces)
<1> DEFINE m == Len(pieces)
           A == Fits(n, j)
           B == Fits(n, j + 1)
           tss == [i \in 1 .. m |-> IF Request(pieces[i]) <= Capacity THEN <<pieces[i]>>
                                    ELSE Split(pieces[i])]
           js == [i \in DOMAIN tss |-> Join(tss[i])]
<1>1. m \in Nat /\ DOMAIN pieces = 1 .. m /\ pieces = [i \in 1 .. m |-> pieces[i]]
  BY ListIs
<1>2. A \subseteq Text /\ B \subseteq Text /\ Text = Lists(Atom)
  BY TextIs DEF Fits
<1>3. Refit(pieces) = Join(tss)
  BY <1>1 DEF Refit
<1>4. ASSUME NEW i \in 1 .. m
      PROVE  /\ tss[i] \in Lists(B) /\ tss[i] # <<>> /\ pieces[i] \in Text
             /\ tss[i] \in Lists(Some) => pieces[i] \in Some /\ Join(tss[i]) = pieces[i]
  <2>1. pieces[i] \in A
    BY ListIs
  <2>2. PICK u \in Text : u = pieces[i] /\ Len(u) <= n /\ (Request(u) <= Capacity \/ Len(u) + j <= n)
    BY <2>1 DEF Fits
  <2>3. Len(u) \in Nat /\ Request(u) \in Nat /\ Capacity \in Nat
    BY RequestIs, PlanAssumption
  <2>4. CASE Request(u) <= Capacity
    <3>1. tss[i] = <<u>>
      BY <2>2, <2>4
    <3>2. u \in B
      BY <2>2, <2>4 DEF Fits
    <3> HIDE DEF B, tss
    <3>3. <<u>> \in Lists(B) /\ Len(<<u>>) = 1 /\ <<u>>[1] = u
      BY <3>2, OneIs
    <3>4. ASSUME <<u>> \in Lists(Some) PROVE u \in Some
      <4>1. 1 \in 1 .. Len(<<u>>)
        BY <3>3
      <4>2. <<u>>[1] \in Some
        BY <3>4, <4>1, ListIs
      <4> QED BY <3>3, <4>2
    <3>5. Join(<<u>>) = u
      BY <1>2, JoinOne
    <3> QED BY <2>2, <3>1, <3>3, <3>4, <3>5
  <2>5. CASE ~(Request(u) <= Capacity)
    <3>1. tss[i] = Split(u) /\ Request(u) > Capacity /\ Len(u) + j <= n
      BY <2>2, <2>3, <2>5
    <3> HIDE DEF tss
    <3>2. /\ Len(u) - 1 \in Nat /\ Split(u) \in Lists(Short(Atom, Len(u) - 1))
          /\ Split(u) # <<>> /\ (Split(u) \in Lists(Some) => Join(Split(u)) = u)
      BY <3>1, SplitIs
    <3>3. Short(Atom, Len(u) - 1) \subseteq B
      <4>1. ASSUME NEW v \in Short(Atom, Len(u) - 1) PROVE v \in B
        <5>1. v \in Text /\ Len(v) <= Len(u) - 1
          BY <1>2 DEF Short
        <5>2. Len(v) \in Nat
          BY <5>1, RequestIs
        <5> QED BY <2>2, <2>3, <3>1, <5>1, <5>2 DEF Fits
      <4> QED BY <4>1
    <3>4. Split(u) \in Lists(B)
      <4> HIDE DEF B
      <4> QED BY <3>2, <3>3, ListWider
    <3>5. u # <<>>
      BY <2>5, RequestEmpty, PlanAssumption
    <3> QED BY <2>2, <3>1, <3>2, <3>4, <3>5 DEF Some
  <2> QED BY <2>4, <2>5
<1>5. tss = [i \in 1 .. m |-> tss[i]] /\ DOMAIN tss = 1 .. m
  OBVIOUS
<1> HIDE DEF tss, A, B
<1>6. tss \in Lists(Lists(B)) /\ Len(tss) = m
  BY <1>1, <1>4, <1>5, ListOf
<1>7. Join(tss) \in Lists(B)
  BY <1>6, JoinType
<1>8. ASSUME pieces # <<>> PROVE Join(tss) # <<>>
  <2>1. 1 \in 1 .. Len(tss)
    BY <1>1, <1>6, <1>8, ListIs
  <2>2. tss[1] # <<>>
    BY <1>4, <1>6, <2>1
  <2> QED BY <1>6, <2>1, <2>2, JoinSome
<1>9. ASSUME Join(tss) \in Lists(Some) PROVE pieces \in Lists(Some) /\ Join(Join(tss)) = Join(pieces)
  <2>1. \A i \in 1 .. m : tss[i] \in Lists(Some)
    BY <1>6, <1>9, JoinParts
  <2>2. \A i \in 1 .. m : pieces[i] \in Some /\ Join(tss[i]) = pieces[i]
    BY <1>4, <2>1
  <2>3. pieces \in Lists(Some)
    BY <1>1, <2>2, ListOf
  <2>4. js = pieces
    BY <1>1, <1>5, <2>2
  <2>5. Lists(B) \subseteq Lists(Lists(Atom))
    BY <1>2, ListWider
  <2>6. tss \in Lists(Lists(Lists(Atom)))
    BY <1>6, <2>5, ListWider
  <2>7. Join(Join(tss)) = Join(js)
    BY <2>6, JoinJoin
  <2> QED BY <2>3, <2>4, <2>7
<1> QED BY <1>3, <1>7, <1>8, <1>9 DEF A, B

LEMMA RefitType ==
  ASSUME NEW pieces \in Lists(Text)
  PROVE  Refit(pieces) \in Lists(Text)
<1> DEFINE m == Len(pieces)
           tss == [i \in 1 .. m |-> IF Request(pieces[i]) <= Capacity THEN <<pieces[i]>>
                                    ELSE Split(pieces[i])]
<1>1. m \in Nat /\ DOMAIN pieces = 1 .. m
  BY ListIs
<1>2. Refit(pieces) = Join(tss)
  BY <1>1 DEF Refit
<1>3. ASSUME NEW i \in 1 .. m PROVE tss[i] \in Lists(Text)
  <2>1. PICK u \in Text : u = pieces[i]
    BY ListIs
  <2>2. Request(u) \in Nat /\ Capacity \in Nat
    BY RequestIs, PlanAssumption
  <2>3. CASE Request(u) <= Capacity
    <3>1. tss[i] = <<u>>
      BY <2>1, <2>3
    <3> HIDE DEF tss
    <3> QED BY <3>1, OneIs
  <2>4. CASE ~(Request(u) <= Capacity)
    <3>1. tss[i] = Split(u) /\ Request(u) > Capacity
      BY <2>1, <2>2, <2>4
    <3> HIDE DEF tss
    <3>2. Split(u) \in Lists(Short(Atom, Len(u) - 1))
      BY <3>1, SplitIs
    <3>3. Short(Atom, Len(u) - 1) \subseteq Text
      BY TextIs DEF Short
    <3> QED BY <3>1, <3>2, <3>3, ListWider
  <2> QED BY <2>3, <2>4
<1>4. tss = [i \in 1 .. m |-> tss[i]]
  OBVIOUS
<1> HIDE DEF tss
<1>5. tss \in Lists(Lists(Text))
  BY <1>1, <1>3, <1>4, ListOf
<1>6. Join(tss) \in Lists(Text)
  BY <1>5, JoinType
<1> QED BY <1>2, <1>6

\* Fit by the loop of its passes.
LEMMA FitIs ==
  ASSUME NEW t \in Text
  PROVE  \E f : /\ \A k \in 0 .. Len(t) : f[k] \in Lists(Text)
                /\ f[0] = <<t>> /\ Fit(t) = f[Len(t)]
                /\ \A k \in 1 .. Len(t) : f[k] = Refit(f[k - 1])
<1> DEFINE n == Len(t)
           T == Lists(Text)
           x == <<t>>
           F == [k \in 1 .. n |-> [a \in T |-> Refit(a)]]
           Loops(g) == g = [k \in 0 .. n |-> IF k = 0 THEN <<t>> ELSE
                              Refit(g[k-1])]
<1>1. n \in Nat /\ x \in T
  BY RequestIs, OneIs
<1>2. F \in [1 .. n -> [T -> T]]
  <2>1. ASSUME NEW k \in 1 .. n, NEW a \in T PROVE Refit(a) \in T
    BY RefitType
  <2> HIDE DEF T, n
  <2> QED BY <2>1
<1> HIDE DEF T, n, x
<1>3. PICK f : /\ \A k \in 0 .. n : f[k] \in T
               /\ f[0] = x /\ \A k \in 1 .. n : f[k] = F[k][f[k - 1]]
  <2> HIDE DEF F, Loops
  <2> QED BY <1>1, <1>2, LoopExists
<1>4. ASSUME NEW k \in 1 .. n PROVE f[k] = Refit(f[k - 1])
  <2>1. k - 1 \in 0 .. n
    BY <1>1
  <2>2. f[k - 1] \in T
    BY <1>3, <2>1
  <2>3. F[k][f[k - 1]] = Refit(f[k - 1])
    BY <2>2
  <2> QED BY <1>3, <2>3
<1> HIDE DEF F
<1> DEFINE h == [k \in 0 .. n |-> f[k]]
           g == CHOOSE g : Loops(g)
<1>5. Loops(h)
  <2>1. ASSUME NEW k \in 0 .. n
        PROVE  h[k] = IF k = 0 THEN <<t>> ELSE
                        Refit(h[k-1])
    <3>1. CASE k = 0
      BY <1>3, <3>1 DEF x
    <3>2. CASE k # 0
      <4>1. k \in 1 .. n /\ h[k] = f[k] /\ h[k-1] = f[k-1]
        BY <1>1, <3>2
      <4>2. h[k] = Refit(h[k - 1])
        BY <1>4, <4>1
      <4> HIDE DEF h
      <4> QED BY <3>2, <4>2
    <3> QED BY <3>1, <3>2
  <2> QED BY <2>1
<1>6. Loops(g)
  <2> HIDE DEF Loops, h
  <2> QED BY <1>5
<1>7. Fit(t) = g[n]
  BY DEF Fit, Loop, n
<1> HIDE DEF g
<1>8. ASSUME NEW k \in 0 .. n
      PROVE  g[k] = IF k = 0 THEN <<t>> ELSE Refit(g[k - 1])
  <2>1. g[k] = IF k = 0 THEN <<t>> ELSE
                 Refit(g[k-1])
    BY <1>6
  <2> QED BY <2>1
<1> HIDE DEF Loops
<1>9. ASSUME NEW k \in 1 .. n, g[k - 1] = f[k - 1] PROVE g[k] = f[k]
  <2>1. k \in 0 .. n /\ k # 0
    BY <1>1
  <2> QED BY <1>4, <1>8, <1>9, <2>1
<1>10. g[0] = f[0]
  BY <1>1, <1>3, <1>8 DEF x
<1>11. \A k \in 0 .. n : g[k] = f[k]
  BY <1>1, <1>9, <1>10, LoopUnique
<1>12. Fit(t) = f[n]
  BY <1>1, <1>7, <1>11
<1>13. \A k \in 1 .. n : f[k] = Refit(f[k - 1])
  BY <1>4
<1> QED BY <1>3, <1>12, <1>13 DEF n, T, x

\* Every piece of a fitted text fits a request and, unless the text is refused,
\* the pieces are the text.
LEMMA FitJoins ==
  ASSUME NEW t \in Text
  PROVE  /\ Fit(t) \in Lists({u \in Text : Len(u) <= Len(t) /\ Request(u) <= Capacity})
         /\ Fit(t) # <<>> /\ (Fit(t) \in Lists(Some) => Join(Fit(t)) = t)
<1> DEFINE n == Len(t)
<1>1. PICK f : /\ \A k \in 0 .. Len(t) : f[k] \in Lists(Text)
               /\ f[0] = <<t>> /\ Fit(t) = f[Len(t)]
               /\ \A k \in 1 .. Len(t) : f[k] = Refit(f[k - 1])
  BY FitIs
<1> DEFINE J(k) == /\ f[k] \in Lists(Fits(n, k)) /\ f[k] # <<>>
                   /\ f[k] \in Lists(Some) => Join(f[k]) = t
           I == {k \in 0 .. n : J(k)}
<1>2. n \in Nat
  BY RequestIs
<1>3. 0 \in I
  <2>1. t \in Fits(n, 0)
    BY <1>2 DEF Fits
  <2>2. <<t>> \in Lists(Fits(n, 0)) /\ Len(<<t>>) = 1
    BY <2>1, OneIs
  <2>3. Join(<<t>>) = t
    BY TextIs, JoinOne
  <2>4. <<t>> # <<>>
    OBVIOUS
  <2> QED BY SMTT(30), <1>1, <1>2, <2>2, <2>3, <2>4
<1>4. ASSUME NEW k \in 0 .. n - 1, k \in I PROVE k + 1 \in I
  <2>1. J(k)
    BY <1>4
  <2>2. PICK p \in Lists(Fits(n, k)) : p = f[k] /\ p # <<>> /\ (p \in Lists(Some) => Join(p) = t)
    BY <2>1
  <2>3. PICK m \in 1 .. n : m = k + 1 /\ m - 1 = k
    BY <1>2
  <2>4. f[m] = Refit(p)
    BY <1>1, <2>2, <2>3
  <2>5. /\ Refit(p) \in Lists(Fits(n, m)) /\ Refit(p) # <<>>
        /\ Refit(p) \in Lists(Some) => p \in Lists(Some) /\ Join(Refit(p)) = Join(p)
    BY <1>2, <2>2, <2>3, RefitIs
  <2>6. J(m)
    BY <2>2, <2>4, <2>5
  <2> QED BY <1>2, <2>3, <2>6
<1>5. \A k \in 0 .. n : k \in I
  <2> HIDE DEF I
  <2> QED BY <1>2, <1>3, <1>4, Onward
<1>6. J(n)
  <2>1. n \in I
    BY <1>2, <1>5
  <2> QED BY <2>1
<1>7. Fits(n, n) \subseteq {u \in Text : Len(u) <= Len(t) /\ Request(u) <= Capacity}
  <2>1. ASSUME NEW u \in Fits(n, n) PROVE Request(u) <= Capacity
    <3>1. u \in Text /\ Len(u) <= n /\ (Request(u) <= Capacity \/ Len(u) + n <= n)
      BY DEF Fits
    <3>2. Len(u) \in Nat /\ (u = <<>> <=> Len(u) = 0)
      BY <3>1, RequestIs
    <3>3. CASE Len(u) + n <= n
      <4>1. u = <<>>
        BY <1>2, <3>2, <3>3
      <4> QED BY <4>1, RequestEmpty, PlanAssumption
    <3> QED BY <3>1, <3>3
  <2> QED BY <2>1 DEF Fits
<1>8. f[n] \in Lists({u \in Text : Len(u) <= Len(t) /\ Request(u) <= Capacity})
  BY <1>6, <1>7, ListWider
<1> QED BY <1>1, <1>6, <1>8

\* JSON is not split.
LEMMA FitJson ==
  ASSUME NEW t \in Text, IsJson(t)
  PROVE  Fit(t) \in Lists({t, <<>>})
<1> DEFINE T == Lists({t, <<>>})
           n == Len(t)
<1>1. PICK f : /\ f[0] = <<t>> /\ Fit(t) = f[Len(t)]
               /\ \A k \in 1 .. Len(t) : f[k] = Refit(f[k - 1])
  BY FitIs
<1>2. n \in Nat
  BY RequestIs
<1>3. ASSUME NEW p \in T PROVE Refit(p) \in T
  <2> DEFINE m == Len(p)
             tss == [i \in 1 .. m |-> IF Request(p[i]) <= Capacity THEN <<p[i]>> ELSE Split(p[i])]
  <2>1. m \in Nat /\ DOMAIN p = 1 .. m
    BY ListIs
  <2>2. Refit(p) = Join(tss)
    BY <2>1 DEF Refit
  <2>3. ASSUME NEW i \in 1 .. m PROVE tss[i] \in T
    <3>1. PICK u \in {t, <<>>} : u = p[i]
      BY ListIs
    <3>2. u \in Text
      BY RequestEmpty
    <3>3. Request(u) \in Nat /\ Capacity \in Nat
      BY <3>2, RequestIs, PlanAssumption
    <3>4. CASE Request(u) <= Capacity
      <4>1. tss[i] = <<u>>
        BY <3>1, <3>4
      <4> HIDE DEF tss
      <4>2. <<u>> \in T
        BY OneIs
      <4> QED BY <4>1, <4>2
    <3>5. CASE ~(Request(u) <= Capacity)
      <4>1. tss[i] = Split(u) /\ Request(u) > Capacity
        BY <3>1, <3>3, <3>5
      <4> HIDE DEF tss
      <4>2. u = t
        BY <3>5, RequestEmpty, PlanAssumption
      <4>3. Split(u) = <<(<<>>)>>
        BY <3>2, <4>1, <4>2, SplitIs
      <4>4. PICK o \in {t, <<>>} : o = <<>>
        OBVIOUS
      <4>5. <<o>> \in T
        BY OneIs
      <4> QED BY <4>1, <4>3, <4>4, <4>5
    <3> QED BY <3>4, <3>5
  <2>4. tss = [i \in 1 .. m |-> tss[i]]
    OBVIOUS
  <2> HIDE DEF tss
  <2>5. tss \in Lists(T)
    <3> HIDE DEF T
    <3> QED BY <2>1, <2>3, <2>4, ListOf
  <2>6. Join(tss) \in T
    BY <2>5, JoinType
  <2> QED BY <2>2, <2>6
<1> DEFINE I == {k \in 0 .. n : f[k] \in T}
<1>4. 0 \in I
  <2>1. <<t>> \in T
    BY OneIs
  <2> QED BY <1>1, <1>2, <2>1
<1>5. ASSUME NEW k \in 0 .. n - 1, k \in I PROVE k + 1 \in I
  <2> HIDE DEF T
  <2>1. PICK m \in 1 .. n : m = k + 1 /\ m - 1 = k
    BY <1>2
  <2>2. f[k] \in T
    BY <1>5
  <2>3. f[m] \in T
    BY <1>1, <1>3, <2>1, <2>2
  <2> QED BY <1>2, <2>1, <2>3
<1>6. \A k \in 0 .. n : k \in I
  <2> HIDE DEF I
  <2> QED BY <1>2, <1>4, <1>5, Onward
<1>7. n \in I
  <2> HIDE DEF I
  <2> QED BY <1>2, <1>6
<1>8. f[n] \in T
  BY <1>7
<1> QED BY <1>1, <1>8

-----------------------------------------------------------------------------
(* Where the parts of a concatenation stand in it.                         *)

LEMMA PrefixLength ==
  ASSUME NEW S, NEW ts \in Lists(Lists(S)), NEW k \in 0 .. Len(ts)
  PROVE  /\ Join(SubSeq(ts, 1, k)) \in Lists(S)
         /\ Len(Join(SubSeq(ts, 1, k))) <= Len(Join(ts))
         /\ \A i \in 1 .. Len(Join(SubSeq(ts, 1, k))) : Join(ts)[i] = Join(SubSeq(ts, 1, k))[i]
<1> DEFINE n == Len(ts)
           a == SubSeq(ts, 1, k)
           b == SubSeq(ts, k + 1, n)
<1>1. k \in Nat /\ n \in Nat /\ 1 \in Nat /\ 1 <= k + 1 /\ k <= n /\ n <= Len(ts)
  BY ListIs
<1>2. SubSeq(ts, 1, n) = a \o b
  <2> HIDE DEF n
  <2> QED BY <1>1, CutInTwo
<1>3. SubSeq(ts, 1, n) = ts
  BY PrefixEnds
<1>4. a \in Lists(Lists(S))
  BY PrefixIs
<1>5. b \in Lists(Lists(S))
  <2>1. k + 1 \in Nat /\ 1 <= k + 1 /\ k + 1 <= n + 1
    BY <1>1
  <2> HIDE DEF n
  <2> QED BY <1>1, <2>1, SubIs
<1> HIDE DEF a, b
<1>6. Join(ts) = Join(a) \o Join(b)
  BY <1>2, <1>3, <1>4, <1>5, JoinConcat
<1>7. Join(a) \in Lists(S) /\ Join(b) \in Lists(S)
  BY <1>4, <1>5, JoinType
<1>8. Len(Join(a)) \in Nat /\ Len(Join(b)) \in Nat
  BY <1>7, ListIs
<1>9. /\ Len(Join(a) \o Join(b)) = Len(Join(a)) + Len(Join(b))
      /\ \A i \in 1 .. Len(Join(a)) : (Join(a) \o Join(b))[i] = Join(a)[i]
  <2>1. PICK x \in Lists(S), y \in Lists(S) : x = Join(a) /\ y = Join(b)
    BY <1>7
  <2>2. Len(x \o y) = Len(x) + Len(y) /\ \A i \in 1 .. Len(x) : (x \o y)[i] = x[i]
    BY ConcatIs
  <2> QED BY <2>1, <2>2
<1> QED BY <1>6, <1>7, <1>8, <1>9 DEF a

\* Where the parts of a concatenation end, and which part each element is of.
Places(tss, at, home) ==
  /\ \A k \in 0 .. Len(tss) : at[k] \in Nat /\ at[k] <= Len(Join(tss))
  /\ at[0] = 0 /\ at[Len(tss)] = Len(Join(tss))
  /\ \A k \in 1 .. Len(tss) : at[k] = at[k - 1] + Len(tss[k])
  /\ \A i \in 1 .. Len(Join(tss)) :
       /\ home[i] \in 1 .. Len(tss) /\ at[home[i] - 1] < i /\ i <= at[home[i]]
       /\ i - at[home[i] - 1] \in 1 .. Len(tss[home[i]])
       /\ Join(tss)[i] = tss[home[i]][i - at[home[i] - 1]]
  /\ \A i, j \in 1 .. Len(Join(tss)) : i <= j => home[i] <= home[j]
  /\ \A k \in 1 .. Len(tss) : \A j \in 1 .. Len(tss[k]) :
       /\ at[k - 1] + j \in 1 .. Len(Join(tss)) /\ home[at[k - 1] + j] = k
       /\ Join(tss)[at[k - 1] + j] = tss[k][j]

LEMMA JoinPlaces ==
  ASSUME NEW S, NEW tss \in Lists(Lists(S))
  PROVE  \E at, home : Places(tss, at, home)
<1> DEFINE n == Len(tss)
           w == Join(tss)
           at == [k \in 0 .. n |-> Len(Join(SubSeq(tss, 1, k)))]
           Ends(i) == {k \in 0 .. n : i <= at[k]}
           home == [i \in 1 .. Len(w) |->
                      CHOOSE h \in Ends(i) : \A k \in Ends(i) : h <= k]
<1>1. n \in Nat /\ w \in Lists(S) /\ Len(w) \in Nat
  BY ListIs, JoinType
<1>2. ASSUME NEW k \in 0 .. n
      PROVE  /\ at[k] \in Nat /\ at[k] <= Len(w)
             /\ \A i \in 1 .. at[k] : w[i] = Join(SubSeq(tss, 1, k))[i]
  <2>1. /\ Join(SubSeq(tss, 1, k)) \in Lists(S)
        /\ Len(Join(SubSeq(tss, 1, k))) <= Len(w)
        /\ \A i \in 1 .. Len(Join(SubSeq(tss, 1, k))) : w[i] = Join(SubSeq(tss, 1, k))[i]
    BY PrefixLength
  <2>2. Len(Join(SubSeq(tss, 1, k))) \in Nat
    BY <2>1, ListIs
  <2> QED BY <2>1, <2>2
<1>3. at[0] = 0 /\ at[n] = Len(w)
  <2>1. SubSeq(tss, 1, 0) = <<>> /\ SubSeq(tss, 1, n) = tss
    BY PrefixEnds
  <2>2. Len(Join(SubSeq(tss, 1, 0))) = 0
    <3>1. Join(SubSeq(tss, 1, 0)) = <<>>
      BY <2>1, JoinEmpty
    <3> HIDE DEF w, at, home
    <3> QED BY <3>1, NoneIs
  <2>3. 0 \in 0 .. n /\ n \in 0 .. n
    BY <1>1
  <2> QED BY <2>1, <2>2, <2>3
<1>4. ASSUME NEW k \in 1 .. n
      PROVE  /\ at[k] = at[k - 1] + Len(tss[k]) /\ Len(tss[k]) \in Nat
             /\ k - 1 \in 0 .. n /\ k \in 0 .. n
             /\ \A i \in at[k - 1] + 1 .. at[k] :
                  Join(SubSeq(tss, 1, k))[i] = tss[k][i - at[k - 1]]
  <2>1. PICK x \in Lists(S), y \in Lists(S) :
          /\ x = Join(SubSeq(tss, 1, k - 1)) /\ y = tss[k]
          /\ Join(SubSeq(tss, 1, k)) = x \o y
    BY JoinPrefix
  <2>2. /\ Len(x \o y) = Len(x) + Len(y)
        /\ \A i \in Len(x) + 1 .. Len(x) + Len(y) : (x \o y)[i] = y[i - Len(x)]
    BY ConcatIs
  <2>3. k - 1 \in 0 .. n /\ k \in 0 .. n
    BY <1>1
  <2>4. at[k] = Len(x \o y) /\ at[k - 1] = Len(x)
    BY <2>1, <2>3
  <2>5. Len(y) \in Nat
    BY ListIs
  <2> HIDE DEF at
  <2> QED BY <2>1, <2>2, <2>3, <2>4, <2>5
<1> HIDE DEF at
<1>5. ASSUME NEW i \in 1 .. Len(w)
      PROVE  /\ home[i] \in 1 .. n /\ at[home[i] - 1] < i /\ i <= at[home[i]]
             /\ \A k \in 0 .. n : i <= at[k] => home[i] <= k
  <2>1. Ends(i) \in SUBSET Nat /\ Ends(i) # {}
    <3>1. n \in Ends(i)
      BY <1>1, <1>3
    <3> QED BY <1>1, <3>1
  <2>2. home[i] = CHOOSE h \in Ends(i) : \A k \in Ends(i) : h <= k
    OBVIOUS
  <2>3. \E h \in Ends(i) : \A k \in Ends(i) : h <= k
    <3> HIDE DEF Ends
    <3> QED BY <2>1, LeastNumber
  <2>4. home[i] \in Ends(i) /\ \A k \in Ends(i) : home[i] <= k
    <3> HIDE DEF Ends, home
    <3> QED BY <2>2, <2>3
  <2>5. home[i] \in 0 .. n /\ i <= at[home[i]]
    BY <2>4
  <2> HIDE DEF home
  <2>6. home[i] # 0
    BY <1>3, <2>5
  <2>7. home[i] - 1 \in 0 .. n /\ home[i] \in 1 .. n
    BY <1>1, <2>5, <2>6
  <2>8. ~(i <= at[home[i] - 1])
    <3> SUFFICES ASSUME i <= at[home[i] - 1] PROVE FALSE
      OBVIOUS
    <3>1. home[i] - 1 \in Ends(i)
      BY <2>7
    <3>2. home[i] <= home[i] - 1
      BY <2>4, <3>1
    <3> QED BY <2>7, <3>2
  <2>9. at[home[i] - 1] \in Nat
    BY <1>2, <2>7
  <2>10. \A k \in 0 .. n : i <= at[k] => home[i] <= k
    BY <2>4
  <2> QED BY <2>5, <2>7, <2>8, <2>9, <2>10
<1> HIDE DEF home
<1>6. ASSUME NEW i \in 1 .. Len(w)
      PROVE  /\ i - at[home[i] - 1] \in 1 .. Len(tss[home[i]])
             /\ w[i] = tss[home[i]][i - at[home[i] - 1]]
  <2>1. PICK k \in 1 .. n : k = home[i] /\ at[k - 1] < i /\ i <= at[k]
    BY <1>5
  <2>2. /\ at[k] = at[k - 1] + Len(tss[k]) /\ Len(tss[k]) \in Nat
        /\ k - 1 \in 0 .. n /\ k \in 0 .. n
        /\ \A m \in at[k - 1] + 1 .. at[k] : Join(SubSeq(tss, 1, k))[m] = tss[k][m - at[k - 1]]
    BY <1>4
  <2>3. at[k - 1] \in Nat /\ at[k] \in Nat
    BY <1>2, <2>2
  <2>4. i - at[k - 1] \in 1 .. Len(tss[k]) /\ i \in at[k - 1] + 1 .. at[k] /\ i \in 1 .. at[k]
    BY SMTT(30), <2>1, <2>2, <2>3
  <2>5. w[i] = Join(SubSeq(tss, 1, k))[i]
    BY <1>2, <2>2, <2>4
  <2> QED BY <2>1, <2>2, <2>4, <2>5
<1>7. ASSUME NEW i \in 1 .. Len(w), NEW j \in 1 .. Len(w), i <= j PROVE home[i] <= home[j]
  <2>1. home[j] \in 0 .. n /\ i <= at[home[j]]
    <3>1. home[j] \in 1 .. n /\ j <= at[home[j]]
      BY <1>5
    <3>2. home[j] \in 0 .. n
      BY <1>1, <3>1
    <3>3. at[home[j]] \in Nat
      BY <1>2, <3>2
    <3> QED BY <1>1, <1>7, <3>1, <3>2, <3>3
  <2> QED BY <1>5, <2>1
<1>8. ASSUME NEW k \in 1 .. n, NEW j \in 1 .. Len(tss[k])
      PROVE  /\ at[k - 1] + j \in 1 .. Len(w) /\ home[at[k - 1] + j] = k
             /\ w[at[k - 1] + j] = tss[k][j]
  <2>1. at[k] = at[k - 1] + Len(tss[k]) /\ Len(tss[k]) \in Nat /\ k - 1 \in 0 .. n /\ k \in 0 .. n
    BY <1>4
  <2>2. at[k - 1] \in Nat /\ at[k] \in Nat /\ at[k] <= Len(w)
    BY <1>2, <2>1
  <2>3. PICK i \in 1 .. Len(w) : i = at[k - 1] + j /\ i <= at[k] /\ at[k - 1] < i
    BY SMTT(30), <1>1, <2>1, <2>2
  <2>4. PICK h \in 1 .. n : h = home[i] /\ at[h - 1] < i /\ h <= k
    BY <1>5, <2>1, <2>3
  <2>5. h = k
    <3> SUFFICES ASSUME h < k PROVE FALSE
      BY <1>1, <2>4
    <3>1. \A m \in 0 .. n : h <= m /\ m <= k - 1 => at[m] <= at[k - 1]
      <4> DEFINE D == {d \in 0 .. k - 1 : at[k - 1 - d] <= at[k - 1]}
      <4>1. 0 \in D
        BY <2>1, <2>2
      <4>2. ASSUME NEW d \in 0 .. (k - 1) - 1, d \in D PROVE d + 1 \in D
        <5>1. k - 1 - d \in 1 .. n /\ k - 1 - (d + 1) \in 0 .. n
              /\ k - 1 - d - 1 = k - 1 - (d + 1) /\ k - 1 - d \in 0 .. n
          BY <1>1
        <5>2. at[k - 1 - d] = at[k - 1 - d - 1] + Len(tss[k - 1 - d]) /\ Len(tss[k - 1 - d]) \in Nat
          BY <1>4, <5>1
        <5>3. at[k - 1 - d] \in Nat /\ at[k - 1 - (d + 1)] \in Nat
          BY <1>2, <5>1
        <5>4. at[k - 1 - d] <= at[k - 1]
          BY <4>2
        <5>5. at[k - 1 - (d + 1)] <= at[k - 1]
          BY SMTT(30), <2>2, <5>1, <5>2, <5>3, <5>4
        <5>6. d + 1 \in 0 .. k - 1
          BY <1>1
        <5> QED BY <5>5, <5>6
      <4>3. \A d \in 0 .. k - 1 : d \in D
        <5>1. k - 1 \in Nat
          BY <1>1
        <5> HIDE DEF D
        <5> QED BY <4>1, <4>2, <5>1, Onward
      <4>4. ASSUME NEW m \in 0 .. n, h <= m, m <= k - 1 PROVE at[m] <= at[k - 1]
        <5>1. k - 1 - m \in 0 .. k - 1 /\ k - 1 - (k - 1 - m) = m
          BY <4>4, <1>1
        <5>2. k - 1 - m \in D
          BY <4>3, <5>1
        <5> QED BY <5>1, <5>2
      <4> QED BY <4>4
    <3>2. at[h] <= at[k - 1] /\ i <= at[h] /\ at[h] \in Nat
      <4>1. h \in 0 .. n /\ h <= h /\ h <= k - 1
        BY <1>1
      <4>2. i <= at[h]
        BY <1>5, <2>4
      <4> QED BY <1>2, <3>1, <4>1, <4>2
    <3> QED BY <2>2, <2>3, <3>2
  <2>6. w[i] = tss[k][i - at[k - 1]] /\ i - at[k - 1] = j
    <3>1. i - at[k - 1] = j
      BY <2>2, <2>3
    <3>2. home[i] = k
      BY <2>4, <2>5
    <3> QED BY <1>6, <3>1, <3>2
  <2> QED BY <2>3, <2>4, <2>5, <2>6
<1>9. Places(tss, at, home)
  <2>1. \A k \in 0 .. n : at[k] \in Nat /\ at[k] <= Len(w)
    BY <1>2
  <2>2. \A k \in 1 .. n : at[k] = at[k - 1] + Len(tss[k])
    BY <1>4
  <2>3. \A i \in 1 .. Len(w) : home[i] \in 1 .. n /\ at[home[i] - 1] < i /\ i <= at[home[i]]
    BY <1>5
  <2> QED BY <1>3, <1>6, <1>7, <1>8, <2>1, <2>2, <2>3 DEF Places
<1> QED BY <1>9

-----------------------------------------------------------------------------
(* Sections.                                                               *)

Kinds == {"paragraph", "code", "separator"}
Sections == [text : Text, kind : Kinds, para : Nat, go : BOOLEAN]

TextsOf(ss) == [i \in DOMAIN ss |-> ss[i].text]

LEMMA TextsAre ==
  ASSUME NEW ss \in Lists(Sections)
  PROVE  /\ TextsOf(ss) \in Lists(Lists(Atom)) /\ Len(TextsOf(ss)) = Len(ss)
         /\ \A i \in 1 .. Len(ss) : TextsOf(ss)[i] = ss[i].text /\ ss[i].text \in Lists(Atom)
         /\ Source(ss) = Join(TextsOf(ss)) /\ Source(ss) \in Text
<1> DEFINE ts == TextsOf(ss)
<1>1. /\ Len(ss) \in Nat /\ DOMAIN ss = 1 .. Len(ss)
      /\ \A i \in 1 .. Len(ss) : ss[i] \in Sections
  BY ListIs
<1>2. \A i \in 1 .. Len(ss) : ts[i] = ss[i].text /\ ss[i].text \in Lists(Atom)
  BY <1>1, TextIs DEF TextsOf, Sections
<1>3. ts = [i \in 1 .. Len(ss) |-> ts[i]]
  BY <1>1 DEF TextsOf
<1>4. Source(ss) = Join(ts)
  BY DEF Source, TextsOf
<1> HIDE DEF ts
<1>5. ts \in Lists(Lists(Atom)) /\ Len(ts) = Len(ss)
  <2>1. PICK n \in Nat : n = Len(ss)
    BY <1>1
  <2>2. ts = [i \in 1 .. n |-> ts[i]]
    BY <1>3, <2>1
  <2>3. \A i \in 1 .. n : ts[i] \in Lists(Atom)
    BY <1>2, <2>1
  <2> QED BY <2>1, <2>2, <2>3, ListOf
<1>6. Join(ts) \in Text
  BY <1>5, JoinType, TextIs
<1> QED BY <1>2, <1>4, <1>5, <1>6 DEF ts

LEMMA SourceNone == Source(<<>>) = <<>>
<1>1. [i \in DOMAIN <<>> |-> <<>>[i].text] = <<>>
  OBVIOUS
<1> QED BY <1>1, JoinEmpty DEF Source

LEMMA SourceAppend ==
  ASSUME NEW ss \in Lists(Sections), NEW s \in Sections
  PROVE  /\ Append(ss, s) \in Lists(Sections)
         /\ Source(Append(ss, s)) = Source(ss) \o s.text
<1> DEFINE a == Append(ss, s)
           ts == TextsOf(ss)
           us == TextsOf(a)
           x == s.text
<1>1. /\ a \in Lists(Sections) /\ Len(a) = Len(ss) + 1
      /\ \A i \in 1 .. Len(ss) : a[i] = ss[i]
      /\ a[Len(ss) + 1] = s
  BY AppendIs
<1> HIDE DEF a
<1>2. /\ ts \in Lists(Lists(Atom)) /\ Len(ts) = Len(ss) /\ Source(ss) = Join(ts)
      /\ \A i \in 1 .. Len(ss) : ts[i] = ss[i].text
  BY TextsAre
<1>3. /\ us \in Lists(Lists(Atom)) /\ Len(us) = Len(a) /\ Source(a) = Join(us)
      /\ \A i \in 1 .. Len(a) : us[i] = a[i].text
  BY <1>1, TextsAre
<1>4. x \in Lists(Atom)
  BY TextIs DEF Sections
<1> HIDE DEF ts, us, x
<1>5. /\ Append(ts, x) \in Lists(Lists(Atom)) /\ Len(Append(ts, x)) = Len(ts) + 1
      /\ \A i \in 1 .. Len(ts) : Append(ts, x)[i] = ts[i]
      /\ Append(ts, x)[Len(ts) + 1] = x
  BY <1>2, <1>4, AppendIs
<1>6. Len(ss) \in Nat
  BY ListIs
<1>7. ASSUME NEW i \in 1 .. Len(us) PROVE us[i] = Append(ts, x)[i]
  <2>1. i \in 1 .. Len(a) /\ us[i] = a[i].text
    BY <1>3
  <2>2. CASE i \in 1 .. Len(ss)
    BY <1>1, <1>2, <1>5, <2>1, <2>2
  <2>3. CASE i = Len(ss) + 1
    BY <1>1, <1>2, <1>5, <2>1, <2>3 DEF x
  <2>4. i \in 1 .. Len(ss) \/ i = Len(ss) + 1
    <3>1. i \in 1 .. Len(ss) + 1
      BY <1>1, <2>1
    <3> QED BY <1>6, <3>1
  <2> QED BY <2>2, <2>3, <2>4
<1>8. us = Append(ts, x)
  BY <1>1, <1>2, <1>3, <1>5, <1>7, ListEqual
<1>9. Join(Append(ts, x)) = Join(ts) \o x
  BY <1>2, <1>4, JoinAppend
<1> QED BY <1>1, <1>2, <1>3, <1>8, <1>9 DEF a, x

LEMMA SourceConcat ==
  ASSUME NEW p \in Lists(Sections), NEW q \in Lists(Sections)
  PROVE  p \o q \in Lists(Sections) /\ Source(p \o q) = Source(p) \o Source(q)
<1> DEFINE r == p \o q
           tr == TextsOf(r)
           tp == TextsOf(p)
           tq == TextsOf(q)
<1>4. /\ p \o q \in Lists(Sections) /\ Len(p \o q) = Len(p) + Len(q)
      /\ \A i \in 1 .. Len(p) : (p \o q)[i] = p[i]
      /\ \A i \in 1 .. Len(q) : (p \o q)[Len(p) + i] = q[i]
  BY ConcatIs
<1>1. r = p \o q
  OBVIOUS
<1> HIDE DEF r
<1>5. r \in Lists(Sections)
  BY <1>1, <1>4
<1>6. /\ tr \in Lists(Lists(Atom)) /\ Len(tr) = Len(r) /\ Source(r) = Join(tr) /\ Source(r) \in Text
      /\ \A i \in 1 .. Len(r) : tr[i] = r[i].text
  BY <1>5, TextsAre
<1>7. /\ tp \in Lists(Lists(Atom)) /\ Len(tp) = Len(p) /\ Source(p) = Join(tp) /\ Source(p) \in Text
      /\ \A i \in 1 .. Len(p) : tp[i] = p[i].text
  BY TextsAre
<1>8. /\ tq \in Lists(Lists(Atom)) /\ Len(tq) = Len(q) /\ Source(q) = Join(tq) /\ Source(q) \in Text
      /\ \A i \in 1 .. Len(q) : tq[i] = q[i].text
  BY TextsAre
<1> HIDE DEF tr, tp, tq
<1>9. /\ tp \o tq \in Lists(Lists(Atom)) /\ Len(tp \o tq) = Len(tp) + Len(tq)
      /\ \A i \in 1 .. Len(tp) : (tp \o tq)[i] = tp[i]
      /\ \A i \in 1 .. Len(tq) : (tp \o tq)[Len(tp) + i] = tq[i]
  <2>1. tp \in Lists(Lists(Atom)) /\ tq \in Lists(Lists(Atom))
    BY <1>7, <1>8
  <2> QED BY <2>1, ConcatIs
<1>10. Len(p) \in Nat /\ Len(q) \in Nat
  BY ListIs
<1>11. ASSUME NEW i \in 1 .. Len(tr) PROVE tr[i] = (tp \o tq)[i]
  <2>1. i \in 1 .. Len(r) /\ tr[i] = r[i].text /\ Len(r) = Len(p) + Len(q)
    BY <1>1, <1>4, <1>6
  <2>2. CASE i \in 1 .. Len(p)
    BY <1>1, <1>4, <1>7, <1>9, <2>1, <2>2
  <2>3. CASE i \in Len(p) + 1 .. Len(p) + Len(q)
    <3>1. PICK j \in 1 .. Len(q) : i = Len(p) + j
      <4>1. i - Len(p) \in 1 .. Len(q) /\ i = Len(p) + (i - Len(p))
        BY <1>10, <2>3
      <4> QED BY <4>1
    <3>2. r[i] = q[j] /\ (tp \o tq)[i] = tq[j] /\ tq[j] = q[j].text
      BY <1>1, <1>4, <1>7, <1>8, <1>9, <3>1
    <3> QED BY <2>1, <3>2
  <2>4. i \in 1 .. Len(p) \/ i \in Len(p) + 1 .. Len(p) + Len(q)
    <3>1. i \in 1 .. Len(p) + Len(q)
      BY <2>1
    <3> QED BY <1>10, <3>1
  <2> QED BY <2>2, <2>3, <2>4
<1>12. tr = tp \o tq
  <2>1. tr \in Lists(Lists(Atom)) /\ tp \o tq \in Lists(Lists(Atom))
    BY <1>6, <1>9
  <2>2. Len(tr) = Len(tp \o tq)
    BY <1>1, <1>4, <1>6, <1>7, <1>8, <1>9
  <2> QED BY <1>11, <2>1, <2>2, ListEqual
<1>13. Join(tp \o tq) = Join(tp) \o Join(tq)
  BY <1>7, <1>8, JoinConcat
<1> QED BY <1>4, <1>6, <1>7, <1>8, <1>12, <1>13 DEF r

\* The source of the sections between two points.
LEMMA SourceCut ==
  ASSUME NEW ss \in Lists(Sections), NEW m \in Nat, NEW n \in Nat, NEW k \in Nat,
         1 <= m, m <= n + 1, n <= k, k <= Len(ss)
  PROVE  /\ Source(SubSeq(ss, m, k)) = Source(SubSeq(ss, m, n)) \o Source(SubSeq(ss, n + 1, k))
         /\ Source(SubSeq(ss, m, k)) \in Text /\ Source(SubSeq(ss, m, n)) \in Text
         /\ Source(SubSeq(ss, n + 1, k)) \in Text
<1> DEFINE r == SubSeq(ss, m, k)
           p == SubSeq(ss, m, n)
           q == SubSeq(ss, n + 1, k)
<1>0. Len(ss) \in Nat /\ n <= Len(ss) /\ m <= k + 1 /\ n + 1 \in Nat /\ 1 <= n + 1 /\ n + 1 <= k + 1
  BY ListIs
<1>1. r = p \o q
  BY CutInTwo
<1>2. p \in Lists(Sections)
  BY <1>0, SubIs
<1>3. q \in Lists(Sections)
  BY <1>0, SubIs
<1> HIDE DEF p, q, r
<1>4. p \o q \in Lists(Sections) /\ Source(p \o q) = Source(p) \o Source(q)
  BY <1>2, <1>3, SourceConcat
<1>5. Source(p) \in Text /\ Source(q) \in Text /\ Source(p \o q) \in Text
  BY <1>2, <1>3, <1>4, TextsAre
<1> QED BY <1>1, <1>4, <1>5 DEF p, q, r

\* The source of a concatenation joins the sources of its parts.
LEMMA SourceJoin ==
  ASSUME NEW tss \in Lists(Lists(Sections)), NEW js, js = [k \in DOMAIN tss |-> Source(tss[k])]
  PROVE  /\ Join(tss) \in Lists(Sections) /\ js \in Lists(Lists(Atom)) /\ Len(js) = Len(tss)
         /\ Source(Join(tss)) = Join(js)
<1> DEFINE n == Len(tss)
           I == {k \in 0 .. n : Source(Join(SubSeq(tss, 1, k))) = Join(SubSeq(js, 1, k))}
<1>1. n \in Nat /\ DOMAIN tss = 1 .. n
  BY ListIs
<1>2. \A k \in 1 .. n : js[k] = Source(tss[k]) /\ tss[k] \in Lists(Sections)
  BY <1>1, ListIs
<1>3. \A k \in 1 .. n : js[k] \in Lists(Atom)
  BY <1>2, TextsAre, TextIs
<1>4. js \in Lists(Lists(Atom)) /\ Len(js) = n
  <2>1. js = [i \in 1 .. n |-> js[i]]
    BY <1>1
  <2> HIDE DEF n
  <2> QED BY <1>1, <1>3, <2>1, ListOf
<1>5. 0 \in I
  <2>1. SubSeq(tss, 1, 0) = <<>> /\ SubSeq(js, 1, 0) = <<>> /\ 0 \in 0 .. n
    BY <1>1, <1>4, PrefixEnds
  <2>2. Join(SubSeq(tss, 1, 0)) = <<>> /\ Join(SubSeq(js, 1, 0)) = <<>>
    BY <2>1, JoinEmpty
  <2> QED BY <2>1, <2>2, SourceNone
<1>6. ASSUME NEW k \in 0 .. n - 1, k \in I PROVE k + 1 \in I
  <2>1. PICK m \in 1 .. n : m = k + 1 /\ m - 1 = k
    BY <1>1
  <2>2. PICK p \in Lists(Sections), q \in Lists(Sections) :
          /\ p = Join(SubSeq(tss, 1, m - 1)) /\ q = tss[m]
          /\ Join(SubSeq(tss, 1, m)) = p \o q
    BY JoinPrefix
  <2>3. Source(p \o q) = Source(p) \o Source(q)
    BY SourceConcat
  <2>4. Join(SubSeq(js, 1, m)) = Join(SubSeq(js, 1, m - 1)) \o js[m]
    BY <1>4, JoinPrefix
  <2>5. Source(p) = Join(SubSeq(js, 1, m - 1)) /\ Source(q) = js[m]
    BY <1>2, <1>6, <2>1, <2>2
  <2>6. Source(Join(SubSeq(tss, 1, m))) = Join(SubSeq(js, 1, m))
    BY <2>2, <2>3, <2>4, <2>5
  <2>7. m \in 0 .. n
    BY <1>1
  <2> QED BY <2>1, <2>6, <2>7
<1>7. \A k \in 0 .. n : k \in I
  <2> HIDE DEF I
  <2> QED BY <1>1, <1>5, <1>6, Onward
<1>8. Source(Join(SubSeq(tss, 1, n))) = Join(SubSeq(js, 1, n))
  <2>1. n \in 0 .. n
    BY <1>1
  <2> QED BY <1>7, <2>1
<1>9. SubSeq(tss, 1, Len(tss)) = tss /\ SubSeq(js, 1, Len(js)) = js
  BY <1>4, PrefixEnds
<1>10. Join(tss) \in Lists(Sections)
  BY JoinType
<1> QED BY <1>4, <1>8, <1>9, <1>10

LEMMA SourceAll ==
  ASSUME NEW ss \in Lists(Sections)
  PROVE  /\ Source(SubSeq(ss, 1, Len(ss))) = Source(ss) /\ Source(SubSeq(ss, 1, 0)) = <<>>
         /\ Source(ss) \in Text
  BY PrefixEnds, SourceNone, TextsAre

LEMMA SourceOne ==
  ASSUME NEW ss \in Lists(Sections), NEW k \in 1 .. Len(ss)
  PROVE  Source(SubSeq(ss, k, k)) = ss[k].text /\ ss[k].text \in Text
<1> DEFINE r == SubSeq(ss, k, k)
<1>1. k \in Nat /\ Len(ss) \in Nat /\ 1 <= k /\ k <= k + 1 /\ k <= Len(ss) /\ ss[k] \in Sections
  BY ListIs
<1>2. /\ r \in Lists(Sections) /\ Len(r) = k - k + 1 /\ \A i \in 1 .. k - k + 1 : r[i] = ss[k + i - 1]
  BY <1>1, SubIs
<1> HIDE DEF r
<1>3. Len(r) = 1 /\ r[1] = ss[k]
  BY <1>1, <1>2
<1>4. /\ TextsOf(r) \in Lists(Lists(Atom)) /\ Len(TextsOf(r)) = 1 /\ TextsOf(r)[1] = ss[k].text
      /\ Source(r) = Join(TextsOf(r))
  <2>1. /\ TextsOf(r) \in Lists(Lists(Atom)) /\ Len(TextsOf(r)) = Len(r)
        /\ \A i \in 1 .. Len(r) : TextsOf(r)[i] = r[i].text
        /\ Source(r) = Join(TextsOf(r))
    BY <1>2, TextsAre
  <2> QED BY <1>3, <2>1
<1>5. ss[k].text \in Lists(Atom) /\ ss[k].text \in Text
  BY <1>1, TextIs DEF Sections
<1>6. PICK x \in Lists(Atom) : x = ss[k].text
  BY <1>5
<1>7. <<x>> \in Lists(Lists(Atom)) /\ Len(<<x>>) = 1 /\ <<x>>[1] = x
  BY OneIs
<1>8. TextsOf(r) = <<x>>
  <2>1. \A i \in 1 .. Len(TextsOf(r)) : TextsOf(r)[i] = <<x>>[i]
    BY <1>4, <1>6, <1>7
  <2> QED BY <1>4, <1>7, <2>1, ListEqual
<1>9. Join(<<x>>) = x
  BY JoinOne
<1> QED BY <1>4, <1>5, <1>6, <1>8, <1>9 DEF r

-----------------------------------------------------------------------------
(* Sections from lines.                                                    *)

LEMMA LinesAre ==
  ASSUME NEW t \in Text
  PROVE  Lines(t) \in Lists(Text) /\ Join(Lines(t)) = t
  BY CutAfterJoins, TextIs DEF Lines

\* Some line, or none, is the first that passes a test.
LEMMA FrontIs ==
  ASSUME NEW ls \in Lists(Text)
  PROVE  FrontLines(ls) \in 0 .. Len(ls)
<1> DEFINE r == Tail(ls)
           T == {i \in 1 .. Len(r) : FrontMarker(r[i])}
<1>1. Len(ls) \in Nat
  BY ListIs
<1>2. CASE ls # <<>>
  <2>1. Len(r) = Len(ls) - 1 /\ Len(r) \in Nat
    BY <1>2 DEF Lists
  <2> HIDE DEF r
  <2>2. ASSUME T # {} PROVE \E x \in T : \A y \in T : x <= y
    <3>1. T \in SUBSET Nat
      OBVIOUS
    <3> HIDE DEF T
    <3> QED BY <2>2, <3>1, LeastNumber
  <2>3. SelectInSeq(r, FrontMarker) = IF T # {} THEN CHOOSE x \in T : \A y \in T : x <= y ELSE 0
    BY DEF SelectInSeq, Min
  <2>4. SelectInSeq(r, FrontMarker) \in 0 .. Len(r)
    <3>1. CASE T = {}
      <4> HIDE DEF T
      <4> QED BY <2>1, <2>3, <3>1
    <3>2. CASE T # {}
      <4>1. SelectInSeq(r, FrontMarker) \in T
        <5> HIDE DEF T
        <5> QED BY <2>2, <2>3, <3>2
      <4> QED BY <2>1, <4>1
    <3> QED BY <3>1, <3>2
  <2> DEFINE i == SelectInSeq(r, FrontMarker)
  <2>5. FrontLines(ls) = 0 \/ (FrontLines(ls) = i + 1 /\ i # 0)
    BY DEF FrontLines, r
  <2> HIDE DEF i
  <2>6. i \in 0 .. Len(r)
    BY <2>4 DEF i
  <2> QED BY <1>1, <2>1, <2>5, <2>6
<1>3. CASE ls = <<>>
  BY <1>1, <1>3 DEF FrontLines
<1> QED BY <1>2, <1>3

\* Paragraphs are numbered in order, up to n, and nothing else is.
Numbered(ss, n) ==
  \A i \in 1 .. Len(ss) :
    /\ ss[i].go = FALSE /\ ss[i].para <= n
    /\ ss[i].para # 0 <=> ss[i].kind = "paragraph"
    /\ \A j \in 1 .. i - 1 : ss[i].para # 0 => ss[j].para < ss[i].para

LEMMA NumberedAppend ==
  ASSUME NEW ss \in Lists(Sections), NEW n \in Nat, Numbered(ss, n), NEW m \in Nat,
         NEW s \in Sections, s.go = FALSE,
         \/ s.para = 0 /\ s.kind # "paragraph" /\ m = n
         \/ s.para = m /\ s.kind = "paragraph" /\ m = n + 1
  PROVE  Numbered(Append(ss, s), m)
<1> DEFINE a == Append(ss, s)
<1>1. /\ Len(a) = Len(ss) + 1 /\ a[Len(ss) + 1] = s
      /\ \A i \in 1 .. Len(ss) : a[i] = ss[i]
  BY AppendIs
<1>2. Len(ss) \in Nat /\ \A i \in 1 .. Len(ss) : ss[i].para \in Nat
  <2>1. Len(ss) \in Nat /\ \A i \in 1 .. Len(ss) : ss[i] \in Sections
    BY ListIs
  <2> QED BY <2>1 DEF Sections
<1> HIDE DEF a
<1>3. \A i \in 1 .. Len(ss) :
        /\ ss[i].go = FALSE /\ ss[i].para <= n
        /\ ss[i].para # 0 <=> ss[i].kind = "paragraph"
        /\ \A j \in 1 .. i - 1 : ss[i].para # 0 => ss[j].para < ss[i].para
  BY DEF Numbered
<1>4. ASSUME NEW i \in 1 .. Len(a)
      PROVE  /\ a[i].go = FALSE /\ a[i].para <= m
             /\ a[i].para # 0 <=> a[i].kind = "paragraph"
             /\ \A j \in 1 .. i - 1 : a[i].para # 0 => a[j].para < a[i].para
  <2>1. i \in 1 .. Len(ss) \/ i = Len(ss) + 1
    BY <1>1, <1>2
  <2>2. CASE i \in 1 .. Len(ss)
    <3>1. a[i] = ss[i] /\ \A j \in 1 .. i - 1 : a[j] = ss[j] /\ j \in 1 .. Len(ss)
      BY <1>1, <1>2, <2>2
    <3>2. ss[i].para <= m
      BY <1>2, <1>3, <2>2
    <3> QED BY <1>3, <2>2, <3>1, <3>2
  <2>3. CASE i = Len(ss) + 1
    <3>1. a[i] = s /\ i - 1 = Len(ss)
      BY <1>1, <1>2, <2>3
    <3>2. \A j \in 1 .. Len(ss) : a[j] = ss[j] /\ ss[j].para <= n /\ ss[j].para \in Nat
      BY <1>1, <1>2, <1>3
    <3>3. s.para \in Nat /\ s.para <= m /\ (s.para # 0 <=> s.kind = "paragraph")
      BY DEF Sections
    <3>4. \A j \in 1 .. i - 1 : s.para # 0 => a[j].para < s.para
      BY <3>1, <3>2
    <3> QED BY <3>1, <3>3, <3>4
  <2> QED BY <2>1, <2>2, <2>3
<1> QED BY <1>4 DEF Numbered, a

\* What the loop over the lines holds: sections, and a paragraph or code being read.
Accs == [out : Lists(Sections), lines : Text, code : Text, n : Nat]
Reading == {acc \in Accs : (acc.lines = <<>> \/ acc.code = <<>>) /\ Numbered(acc.out, acc.n)}
Held(acc) == Source(acc.out) \o (acc.lines \o acc.code)

LEMMA ReadingIs ==
  ASSUME NEW acc \in Reading
  PROVE  /\ acc.out \in Lists(Sections) /\ acc.lines \in Text /\ acc.code \in Text /\ acc.n \in Nat
         /\ Numbered(acc.out, acc.n) /\ (acc.lines = <<>> \/ acc.code = <<>>)
         /\ acc = [out |-> acc.out, lines |-> acc.lines, code |-> acc.code, n |-> acc.n]
  BY DEF Reading, Accs

LEMMA EndParagraphIs ==
  ASSUME NEW acc \in Reading, acc.code = <<>>
  PROVE  /\ EndParagraph(acc) \in Reading
         /\ EndParagraph(acc).lines = <<>> /\ EndParagraph(acc).code = <<>>
         /\ Source(EndParagraph(acc).out) = Source(acc.out) \o acc.lines
<1>1. /\ acc.out \in Lists(Sections) /\ acc.lines \in Text /\ acc.code \in Text /\ acc.n \in Nat
      /\ Numbered(acc.out, acc.n)
      /\ acc = [out |-> acc.out, lines |-> acc.lines, code |-> acc.code, n |-> acc.n]
  BY ReadingIs
<1>2. CASE acc.lines = <<>>
  <2>1. EndParagraph(acc) = acc
    BY <1>2 DEF EndParagraph
  <2>2. Source(acc.out) \in Lists(Atom)
    BY <1>1, TextsAre, TextIs
  <2>3. Source(acc.out) \o <<>> = Source(acc.out)
    BY <2>2, ConcatNone
  <2> QED BY <1>2, <2>1, <2>3
<1>3. CASE acc.lines # <<>>
  <2> DEFINE s == Section(acc.lines, "paragraph", acc.n + 1)
             b == EndParagraph(acc)
             o == acc.out
             n == acc.n
  <2>1. s \in Sections /\ s.go = FALSE /\ s.para = n + 1 /\ s.kind = "paragraph" /\ s.text = acc.lines
    BY <1>1 DEF Section, Sections, Kinds
  <2>2. b.out = Append(o, s) /\ b.lines = <<>> /\ b.n = n + 1 /\ b.code = acc.code
        /\ b = [out |-> Append(o, s), lines |-> <<>>, code |-> acc.code, n |-> n + 1]
    <3> HIDE DEF s
    <3>1. b = [acc EXCEPT !.out = Append(@, s), !.lines = <<>>, !.n = @ + 1]
      BY <1>3 DEF EndParagraph, s
    <3> HIDE DEF b
    <3> QED BY <1>1, <3>1
  <2> HIDE DEF s, b, o, n
  <2>3. o \in Lists(Sections) /\ n \in Nat /\ n + 1 \in Nat /\ Numbered(o, n)
    BY <1>1 DEF o, n
  <2>4. Append(o, s) \in Lists(Sections) /\ Source(Append(o, s)) = Source(o) \o s.text
    BY <2>1, <2>3, SourceAppend
  <2>5. Numbered(Append(o, s), n + 1)
    BY <2>1, <2>3, NumberedAppend
  <2>6. b \in Accs
    BY <1>1, <2>2, <2>3, <2>4, RequestEmpty DEF Accs
  <2> QED BY <2>1, <2>2, <2>4, <2>5, <2>6 DEF Reading, b, o
<1> QED BY <1>2, <1>3

LEMMA EndCodeIs ==
  ASSUME NEW acc \in Reading, acc.lines = <<>>
  PROVE  /\ EndCode(acc) \in Reading
         /\ EndCode(acc).lines = <<>> /\ EndCode(acc).code = <<>>
         /\ Source(EndCode(acc).out) = Source(acc.out) \o acc.code
<1>1. /\ acc.out \in Lists(Sections) /\ acc.lines \in Text /\ acc.code \in Text /\ acc.n \in Nat
      /\ Numbered(acc.out, acc.n)
      /\ acc = [out |-> acc.out, lines |-> acc.lines, code |-> acc.code, n |-> acc.n]
  BY ReadingIs
<1> DEFINE s == Section(acc.code, "code", 0)
           b == EndCode(acc)
           o == acc.out
           n == acc.n
<1>2. s \in Sections /\ s.go = FALSE /\ s.para = 0 /\ s.kind # "paragraph" /\ s.text = acc.code
  BY <1>1 DEF Section, Sections, Kinds
<1>3. b.out = Append(o, s) /\ b.lines = <<>> /\ b.n = n /\ b.code = <<>>
      /\ b = [out |-> Append(o, s), lines |-> <<>>, code |-> <<>>, n |-> n]
  <2> HIDE DEF s
  <2>1. b = [acc EXCEPT !.out = Append(@, s), !.code = <<>>]
    BY DEF EndCode, s
  <2> HIDE DEF b
  <2> QED BY <1>1, <2>1
<1> HIDE DEF s, b, o, n
<1>4. o \in Lists(Sections) /\ n \in Nat /\ Numbered(o, n)
  BY <1>1 DEF o, n
<1>5. Append(o, s) \in Lists(Sections) /\ Source(Append(o, s)) = Source(o) \o s.text
  BY <1>2, <1>4, SourceAppend
<1>6. Numbered(Append(o, s), n)
  BY <1>2, <1>4, NumberedAppend
<1>7. b \in Accs
  BY <1>1, <1>3, <1>4, <1>5, RequestEmpty DEF Accs
<1> QED BY <1>2, <1>3, <1>5, <1>6, <1>7 DEF Reading, b, o

\* A line more is read, and nothing is lost.
LEMMA AddLineIs ==
  ASSUME NEW acc \in Reading, NEW line \in Text
  PROVE  AddLine(acc, line) \in Reading /\ Held(AddLine(acc, line)) = Held(acc) \o line
<1>1. /\ acc.out \in Lists(Sections) /\ acc.lines \in Text /\ acc.code \in Text /\ acc.n \in Nat
      /\ Numbered(acc.out, acc.n) /\ (acc.lines = <<>> \/ acc.code = <<>>)
      /\ acc = [out |-> acc.out, lines |-> acc.lines, code |-> acc.code, n |-> acc.n]
  BY ReadingIs
<1> DEFINE o == acc.out
           l == acc.lines
           c == acc.code
           n == acc.n
           d == Source(o)
           b == EndParagraph(acc)
           none == <<>>
<1>2. /\ o \in Lists(Sections) /\ l \in Lists(Atom) /\ c \in Lists(Atom) /\ n \in Nat
      /\ line \in Lists(Atom) /\ d \in Lists(Atom) /\ none \in Lists(Atom)
  BY <1>1, TextIs, TextsAre, NoneIs
<1>3. Held(acc) = d \o (l \o c)
  BY DEF Held
<1>4. \A x \in Lists(Atom) : x \o none = x /\ none \o x = x
  BY ConcatNone
<1>5. CASE c # <<>>
  <2> DEFINE coded == [acc EXCEPT !.code = @ \o line]
  <2>1. l = none
    BY <1>1, <1>5
  <2>2. c \o line \in Lists(Atom)
    BY <1>2, ConcatIs
  <2>3. coded = [out |-> o, lines |-> l, code |-> c \o line, n |-> n]
    BY SMTT(30), <1>1
  <2>4. coded \in Reading
    <3>1. coded \in Accs
      <4> HIDE DEF coded, c, l, o, n
      <4> QED BY <1>2, <2>2, <2>3, TextIs DEF Accs
    <3>2. coded.lines = <<>> /\ coded.out = o /\ coded.n = n
      <4> HIDE DEF coded, c, l, o, n
      <4> QED BY <2>1, <2>3 DEF none
    <3> QED BY <1>1, <3>1, <3>2 DEF Reading
  <2>5. coded.out = o /\ coded.lines = none /\ coded.code = c \o line
    <3> HIDE DEF coded, c, l, o, n
    <3> QED BY <2>1, <2>3
  <2>6. d \o (c \o line) = (d \o c) \o line
    <3> HIDE DEF c, l, o, n, d
    <3> QED BY <1>2, ConcatAssoc
  <2>7. Held(acc) \o line = d \o (c \o line)
    <3>1. l \o c = c
      <4> HIDE DEF c, l, o, n, d
      <4> QED BY <1>2, <1>4, <2>1
    <3> QED BY <1>3, <2>6, <3>1
  <2>8. AddLine(acc, line) = IF ClosesFence(line) THEN EndCode(coded) ELSE coded
    BY <1>5 DEF AddLine
  <2> HIDE DEF coded
  <2>9. CASE ClosesFence(line)
    <3>1. AddLine(acc, line) = EndCode(coded)
      BY <2>8, <2>9
    <3>2. /\ EndCode(coded) \in Reading
          /\ EndCode(coded).lines = none /\ EndCode(coded).code = none
          /\ Source(EndCode(coded).out) = Source(coded.out) \o coded.code
      BY <2>4, <2>5, EndCodeIs
    <3>3. Held(EndCode(coded)) = (d \o (c \o line)) \o (none \o none)
      BY <2>5, <3>2 DEF Held
    <3>4. d \o (c \o line) \in Lists(Atom)
      <4> HIDE DEF c, l, o, n, d
      <4> QED BY <1>2, <2>2, ConcatIs
    <3>5. Held(EndCode(coded)) = d \o (c \o line)
      <4> HIDE DEF c, l, o, n, d, none
      <4> QED BY <1>2, <1>4, <3>3, <3>4
    <3> QED BY <2>7, <3>1, <3>2, <3>5
  <2>10. CASE ~ClosesFence(line)
    <3>1. AddLine(acc, line) = coded
      BY <2>8, <2>10
    <3>2. Held(coded) = d \o (none \o (c \o line))
      BY <2>5 DEF Held
    <3>3. Held(coded) = d \o (c \o line)
      <4> HIDE DEF c, l, o, n, d, none
      <4> QED BY <1>4, <2>2, <3>2
    <3> QED BY <2>4, <2>7, <3>1, <3>3
  <2> QED BY <2>9, <2>10
<1>6. CASE c = <<>>
  <2>1. /\ b \in Reading /\ b.lines = none /\ b.code = none
        /\ Source(b.out) = d \o l
    BY <1>6, EndParagraphIs
  <2>2. /\ b.out \in Lists(Sections) /\ b.lines \in Text /\ b.code \in Text /\ b.n \in Nat
        /\ Numbered(b.out, b.n)
        /\ b = [out |-> b.out, lines |-> b.lines, code |-> b.code, n |-> b.n]
    BY <2>1, ReadingIs
  <2>3. d \o l \in Lists(Atom)
    <3> HIDE DEF c, l, o, n, d
    <3> QED BY <1>2, ConcatIs
  <2>4. Held(acc) \o line = (d \o l) \o line
    <3>1. l \o c = l
      <4> HIDE DEF l, o, n, d
      <4> QED BY <1>2, <1>4, <1>6
    <3> QED BY <1>3, <3>1
  <2>5. CASE AddLine(acc, line) = [b EXCEPT !.code = line]
    <3> DEFINE a == [b EXCEPT !.code = line]
    <3>1. a = [out |-> b.out, lines |-> b.lines, code |-> line, n |-> b.n]
      <4> HIDE DEF b
      <4> QED BY <2>2
    <3> HIDE DEF a, b
    <3>2. a \in Accs /\ a.lines = none /\ a.out = b.out /\ a.n = b.n /\ a.code = line
      BY <2>1, <2>2, <3>1 DEF Accs
    <3>3. a \in Reading
      BY <2>2, <3>2 DEF Reading
    <3>4. Held(a) = (d \o l) \o (none \o line)
      BY <2>1, <3>2 DEF Held
    <3>5. none \o line = line
      BY <1>2, <1>4
    <3> QED BY <2>4, <2>5, <3>3, <3>4, <3>5 DEF a
  <2>6. CASE AddLine(acc, line) = [b EXCEPT !.out = Append(@, Section(line, "separator", 0))]
    <3> DEFINE s == Section(line, "separator", 0)
               a == [b EXCEPT !.out = Append(@, s)]
               bo == b.out
               bn == b.n
    <3>1. s \in Sections /\ s.go = FALSE /\ s.para = 0 /\ s.kind # "paragraph" /\ s.text = line
      BY DEF Section, Sections, Kinds
    <3>2. a = [out |-> Append(bo, s), lines |-> b.lines, code |-> b.code, n |-> bn]
      <4> HIDE DEF b, s
      <4> QED BY SMTT(30), <2>2
    <3> HIDE DEF a, b, s, bo, bn
    <3>3. bo \in Lists(Sections) /\ bn \in Nat /\ Numbered(bo, bn)
      BY <2>2 DEF bo, bn
    <3>4. Append(bo, s) \in Lists(Sections) /\ Source(Append(bo, s)) = Source(bo) \o s.text
      BY <3>1, <3>3, SourceAppend
    <3>5. Numbered(Append(bo, s), bn)
      BY <3>1, <3>3, NumberedAppend
    <3>6. a \in Accs /\ a.lines = none /\ a.out = Append(bo, s) /\ a.n = bn /\ a.code = none
      BY <2>1, <2>2, <3>2, <3>3, <3>4 DEF Accs
    <3>7. a \in Reading
      BY <3>5, <3>6 DEF Reading
    <3>8. Held(a) = ((d \o l) \o line) \o (none \o none)
      BY <2>1, <3>1, <3>4, <3>6 DEF Held, bo
    <3>9. (d \o l) \o line \in Lists(Atom)
      <4> HIDE DEF c, l, o, n, d
      <4> QED BY <1>2, <2>3, ConcatIs
    <3>10. Held(a) = (d \o l) \o line
      <4> HIDE DEF c, l, o, n, d, none
      <4> QED BY <1>2, <1>4, <3>8, <3>9
    <3> QED BY <2>4, <2>6, <3>7, <3>10 DEF a, s
  <2>7. CASE AddLine(acc, line) = [acc EXCEPT !.lines = @ \o line]
    <3> DEFINE a == [acc EXCEPT !.lines = @ \o line]
    <3>1. a = [out |-> o, lines |-> l \o line, code |-> c, n |-> n]
      <4> DEFINE y == l \o line
      <4>1. a = [acc EXCEPT !.lines = y]
        OBVIOUS
      <4> HIDE DEF y, a, b, d
      <4>2. a = [out |-> o, lines |-> y, code |-> c, n |-> n]
        BY <1>1, <4>1
      <4> QED BY <4>2 DEF y
    <3>2. l \o line \in Lists(Atom)
      BY <1>2, ConcatIs
    <3>3. Numbered(o, n)
      BY <1>1
    <3> HIDE DEF a, c, l, o, n, d, b
    <3>4. a \in Accs /\ a.lines = l \o line /\ a.out = o /\ a.n = n /\ a.code = none
      BY <1>2, <1>6, <3>1, <3>2, TextIs DEF Accs, none
    <3>5. a \in Reading
      BY <3>3, <3>4 DEF Reading, none
    <3>6. Held(a) = d \o ((l \o line) \o none)
      BY <3>4 DEF Held, d
    <3>7. Held(a) = d \o (l \o line)
      <4> HIDE DEF none
      <4> QED BY <1>4, <3>2, <3>6
    <3>8. d \o (l \o line) = (d \o l) \o line
      <4>1. d \in Lists(Atom) /\ l \in Lists(Atom) /\ line \in Lists(Atom)
        BY <1>2
      <4> HIDE DEF none
      <4> QED BY <4>1, ConcatAssoc
    <3> QED BY <2>4, <2>7, <3>5, <3>7, <3>8 DEF a
  <2>8. \/ AddLine(acc, line) = [b EXCEPT !.code = line]
        \/ AddLine(acc, line) = [b EXCEPT !.out = Append(@, Section(line, "separator", 0))]
        \/ AddLine(acc, line) = [acc EXCEPT !.lines = @ \o line]
    BY <1>6 DEF AddLine
  <2> QED BY <2>5, <2>6, <2>7, <2>8
<1> QED BY <1>5, <1>6

LEMMA EndTextIs ==
  ASSUME NEW acc \in Reading
  PROVE  /\ EndText(acc) \in Lists(Sections) /\ Source(EndText(acc)) = Held(acc)
         /\ \E n \in Nat : Numbered(EndText(acc), n)
<1>1. /\ acc.out \in Lists(Sections) /\ acc.lines \in Text /\ acc.code \in Text /\ acc.n \in Nat
      /\ Numbered(acc.out, acc.n) /\ (acc.lines = <<>> \/ acc.code = <<>>)
  BY ReadingIs
<1> DEFINE l == acc.lines
           c == acc.code
           d == Source(acc.out)
           b == IF acc.code = <<>> THEN acc ELSE EndCode(acc)
           e == EndParagraph(b)
           none == <<>>
<1>2. l \in Lists(Atom) /\ c \in Lists(Atom) /\ d \in Lists(Atom) /\ none \in Lists(Atom)
  BY <1>1, TextIs, TextsAre, NoneIs
<1>3. \A x \in Lists(Atom) : x \o none = x /\ none \o x = x
  BY ConcatNone
<1>4. d \o c \in Lists(Atom)
  <2> HIDE DEF d, c
  <2> QED BY <1>2, ConcatIs
<1>5. b \in Reading /\ b.code = <<>> /\ Source(b.out) \o b.lines = d \o (l \o c)
  <2>1. CASE acc.code = <<>>
    <3>1. l \o c = l
      <4> HIDE DEF d, l
      <4> QED BY <1>2, <1>3, <2>1
    <3> QED BY <2>1, <3>1
  <2>2. CASE acc.code # <<>>
    <3>1. l = none
      BY <1>1, <2>2
    <3>2. /\ EndCode(acc) \in Reading
          /\ EndCode(acc).lines = none /\ EndCode(acc).code = none
          /\ Source(EndCode(acc).out) = d \o c
      BY <3>1, EndCodeIs
    <3>3. Source(EndCode(acc).out) \o none = d \o c
      <4> HIDE DEF none, d, c
      <4> QED BY <1>3, <1>4, <3>2
    <3>4. l \o c = c
      <4> HIDE DEF none, d, c, l
      <4> QED BY <1>2, <1>3, <3>1
    <3> QED BY <2>2, <3>2, <3>3, <3>4
  <2> QED BY <2>1, <2>2
<1>6. EndText(acc) = e.out
  BY DEF EndText
<1> HIDE DEF b
<1>7. /\ e \in Reading /\ Source(e.out) = Source(b.out) \o b.lines
  BY <1>5, EndParagraphIs
<1> HIDE DEF e
<1>8. e.out \in Lists(Sections) /\ e.n \in Nat /\ Numbered(e.out, e.n)
  BY <1>7, ReadingIs
<1> QED BY <1>5, <1>6, <1>7, <1>8 DEF Held

\* The numbers of lines that front matter may have, under an opaque name.
Upto(ls) == 0 .. Len(ls)

Opening(ls, c) ==
  [out |-> IF c = 0 THEN <<>> ELSE <<Section(Join(SubSeq(ls, 1, c)), "code", 0)>>,
   lines |-> <<>>, code |-> <<>>, n |-> 0]

LEMMA OpeningIs ==
  ASSUME NEW ls \in Lists(Text), NEW c \in 0 .. Len(ls)
  PROVE  Opening(ls, c) \in Reading /\ Held(Opening(ls, c)) = Join(SubSeq(ls, 1, c))
<1> DEFINE x == Join(SubSeq(ls, 1, c))
           s == Section(x, "code", 0)
           o == Opening(ls, c)
           none == <<>>
           out == o.out
<1>1. x \in Text /\ none \in Text /\ none \in Lists(Sections)
  <2>1. SubSeq(ls, 1, c) \in Lists(Lists(Atom))
    BY PrefixIs, TextIs
  <2> QED BY <2>1, JoinType, TextIs, NoneIs
<1>2. s \in Sections /\ s.go = FALSE /\ s.para = 0 /\ s.kind # "paragraph" /\ s.text = x
  <2> HIDE DEF x
  <2> QED BY <1>1 DEF Section, Sections, Kinds
<1>3. o.lines = none /\ o.code = none /\ o.n = 0 /\ out = (IF c = 0 THEN none ELSE <<s>>)
      /\ o = [out |-> out, lines |-> none, code |-> none, n |-> 0]
  BY DEF Opening
<1>4. out \in Lists(Sections) /\ Numbered(out, 0) /\ Source(out) = x
  <2>1. CASE c = 0
    <3>1. SubSeq(ls, 1, 0) = <<>>
      BY PrefixEnds
    <3>2. x = none
      BY <2>1, <3>1, JoinEmpty
    <3>3. out = none /\ Len(none) = 0
      BY <1>3, <2>1
    <3>4. Numbered(none, 0)
      BY <3>3 DEF Numbered
    <3> HIDE DEF x, none, out
    <3>5. Source(none) = none
      BY SourceNone DEF none
    <3> QED BY <1>1, <3>2, <3>3, <3>4, <3>5
  <2>2. CASE c # 0
    <3>1. Append(none, s) = <<s>>
      OBVIOUS
    <3>2. Numbered(none, 0)
      BY DEF Numbered
    <3> HIDE DEF s, none, out
    <3>3. Append(none, s) \in Lists(Sections) /\ Source(Append(none, s)) = Source(none) \o s.text
      BY <1>1, <1>2, SourceAppend
    <3>4. Numbered(Append(none, s), 0)
      <4>1. PICK z \in Nat : z = 0
        OBVIOUS
      <4>2. /\ none \in Lists(Sections) /\ Numbered(none, z) /\ s \in Sections
            /\ s.go = FALSE /\ s.para = 0 /\ s.kind # "paragraph"
        BY <1>1, <1>2, <3>2, <4>1
      <4>3. Numbered(Append(none, s), z)
        BY <4>2, NumberedAppend
      <4> QED BY <4>1, <4>3
    <3>5. Source(none) \o x = x
      <4>1. Source(none) = <<>>
        BY SourceNone DEF none
      <4> HIDE DEF x
      <4> QED BY <1>1, <4>1, TextIs, ConcatNone
    <3> QED BY <1>2, <1>3, <2>2, <3>1, <3>3, <3>4, <3>5
  <2> QED BY <2>1, <2>2
<1> HIDE DEF out, o, s, x
<1>5. o \in Accs
  BY <1>1, <1>3, <1>4 DEF Accs
<1>6. o \in Reading
  BY <1>3, <1>4, <1>5 DEF Reading, out
<1>7. Held(o) = x \o (none \o none)
  BY <1>3, <1>4 DEF Held, out
<1>8. x \o (none \o none) = x
  <2> HIDE DEF none
  <2>1. none \o none = none /\ x \o none = x
    <3>1. x \in Lists(Atom) /\ none \in Lists(Atom)
      BY <1>1, TextIs
    <3> QED BY <3>1, ConcatNone DEF none
  <2> QED BY <2>1
<1> QED BY <1>6, <1>7, <1>8 DEF o, x

\* LineSections by the loop that reads one line at a time.
LEMMA LineSectionsIs ==
  ASSUME NEW ls \in Lists(Text), NEW c \in Upto(ls)
  PROVE  \E f : /\ \A k \in 0 .. (Len(ls) - c) : f[k] \in Reading
                /\ f[0] = Opening(ls, c) /\ LineSections(ls, c) = EndText(f[(Len(ls) - c)])
                /\ \A k \in 1 .. (Len(ls) - c) : f[k] = AddLine(f[k - 1], ls[c + k])
<1> DEFINE n == (Len(ls) - c)
           T == Reading
           x == Opening(ls, c)
           F == [k \in 1 .. n |-> [a \in T |-> AddLine(a, ls[c + k])]]
           Loops(g) == g = [k \in 0 .. n |-> IF k = 0 THEN [out |-> IF c = 0 THEN <<>> ELSE <<Section(Join(SubSeq(ls, 1, c)), "code", 0)>>,
                               lines |-> <<>>, code |-> <<>>, n |-> 0] ELSE
                              AddLine(g[k-1], ls[c + k])]
<1>1. n \in Nat /\ x \in T
  <2>1. Len(ls) \in Nat /\ c \in 0 .. Len(ls)
    BY ListIs DEF Upto
  <2> QED BY <2>1, OpeningIs
<1>2. F \in [1 .. n -> [T -> T]]
  <2>1. ASSUME NEW k \in 1 .. n, NEW a \in T PROVE AddLine(a, ls[c + k]) \in T
    <3>1. ls[c + k] \in Text
      <4>1. c + k \in 1 .. Len(ls)
        BY ListIs DEF Upto
      <4> QED BY <4>1, ListIs
    <3> QED BY <3>1, AddLineIs
  <2> HIDE DEF T, n
  <2> QED BY <2>1
<1> HIDE DEF T, n, x
<1>3. PICK f : /\ \A k \in 0 .. n : f[k] \in T
               /\ f[0] = x /\ \A k \in 1 .. n : f[k] = F[k][f[k - 1]]
  <2> HIDE DEF F, Loops
  <2>1. n \in Nat /\ x \in T /\ F \in [1 .. n -> [T -> T]]
    BY <1>1, <1>2
  <2> QED BY <2>1, LoopExists
<1>4. ASSUME NEW k \in 1 .. n PROVE f[k] = AddLine(f[k - 1], ls[c + k])
  <2>1. k - 1 \in 0 .. n
    BY <1>1
  <2>2. f[k - 1] \in T
    BY <1>3, <2>1
  <2>3. F[k][f[k - 1]] = AddLine(f[k - 1], ls[c + k])
    BY <2>2
  <2> QED BY <1>3, <2>3
<1> HIDE DEF F
<1> DEFINE h == [k \in 0 .. n |-> f[k]]
           g == CHOOSE g : Loops(g)
<1>5. Loops(h)
  <2>1. ASSUME NEW k \in 0 .. n
        PROVE  h[k] = IF k = 0 THEN [out |-> IF c = 0 THEN <<>> ELSE <<Section(Join(SubSeq(ls, 1, c)), "code", 0)>>,
                               lines |-> <<>>, code |-> <<>>, n |-> 0] ELSE
                        AddLine(h[k-1], ls[c + k])
    <3>1. CASE k = 0
      BY <1>3, <3>1 DEF x, Opening
    <3>2. CASE k # 0
      <4>1. k \in 1 .. n /\ h[k] = f[k] /\ h[k-1] = f[k-1]
        BY <1>1, <3>2
      <4>2. h[k] = AddLine(h[k - 1], ls[c + k])
        BY <1>4, <4>1
      <4> HIDE DEF h
      <4> QED BY <3>2, <4>2
    <3> QED BY <3>1, <3>2
  <2> QED BY <2>1
<1>6. Loops(g)
  <2> HIDE DEF Loops, h
  <2> QED BY <1>5
<1>7. LineSections(ls, c) = EndText(g[n])
  BY DEF LineSections, Loop, n
<1> HIDE DEF g
<1>8. ASSUME NEW k \in 0 .. n
      PROVE  g[k] = IF k = 0 THEN Opening(ls, c) ELSE AddLine(g[k - 1], ls[c + k])
  <2>1. g[k] = IF k = 0 THEN [out |-> IF c = 0 THEN <<>> ELSE <<Section(Join(SubSeq(ls, 1, c)), "code", 0)>>,
                               lines |-> <<>>, code |-> <<>>, n |-> 0] ELSE
                 AddLine(g[k-1], ls[c + k])
    BY <1>6
  <2> QED BY <2>1 DEF Opening
<1> HIDE DEF Loops
<1>9. ASSUME NEW k \in 1 .. n, g[k - 1] = f[k - 1] PROVE g[k] = f[k]
  <2>1. k \in 0 .. n /\ k # 0
    BY <1>1
  <2> QED BY <1>4, <1>8, <1>9, <2>1
<1>10. g[0] = f[0]
  BY <1>1, <1>3, <1>8 DEF x
<1>11. \A k \in 0 .. n : g[k] = f[k]
  BY <1>1, <1>9, <1>10, LoopUnique
<1>12. LineSections(ls, c) = EndText(f[n])
  BY <1>1, <1>7, <1>11
<1>13. \A k \in 1 .. n : f[k] = AddLine(f[k - 1], ls[c + k])
  BY <1>4
<1> QED BY <1>3, <1>12, <1>13 DEF n, T, x

\* The sections of a document hold it whole.
LEMMA SplitSectionsIs ==
  ASSUME NEW t \in Text
  PROVE  /\ SplitSections(t) \in Lists(Sections) /\ Source(SplitSections(t)) = t
         /\ \E n \in Nat : Numbered(SplitSections(t), n)
<1> DEFINE ls == Lines(t)
           c == FrontLines(ls)
           n == Len(ls) - c
<1>1. ls \in Lists(Text) /\ Join(ls) = t
  BY LinesAre
<1>2. SplitSections(t) = LineSections(ls, c)
  BY DEF SplitSections
<1> HIDE DEF ls
<1>3. c \in 0 .. Len(ls) /\ Len(ls) \in Nat
  BY <1>1, FrontIs, ListIs
<1> HIDE DEF c
<1>4. PICK f : /\ \A k \in 0 .. n : f[k] \in Reading
               /\ f[0] = Opening(ls, c) /\ LineSections(ls, c) = EndText(f[n])
               /\ \A k \in 1 .. n : f[k] = AddLine(f[k - 1], ls[c + k])
  <2>1. c \in Upto(ls)
    BY <1>3 DEF Upto
  <2> HIDE DEF n
  <2>2. \E f : /\ \A k \in 0 .. (Len(ls) - c) : f[k] \in Reading
               /\ f[0] = Opening(ls, c) /\ LineSections(ls, c) = EndText(f[(Len(ls) - c)])
               /\ \A k \in 1 .. (Len(ls) - c) : f[k] = AddLine(f[k - 1], ls[c + k])
    BY <1>1, <2>1, LineSectionsIs
  <2> QED BY <2>2 DEF n
<1>5. n \in Nat /\ c \in Nat
  BY <1>3
<1> DEFINE I == {k \in 0 .. n : Held(f[k]) = Join(SubSeq(ls, 1, c + k))}
<1>6. 0 \in I
  <2>1. Held(Opening(ls, c)) = Join(SubSeq(ls, 1, c)) /\ c + 0 = c /\ 0 \in 0 .. n
    BY <1>1, <1>3, OpeningIs
  <2> QED BY <1>4, <2>1
<1>7. ASSUME NEW k \in 0 .. n - 1, k \in I PROVE k + 1 \in I
  <2>1. PICK m \in 1 .. n : m = k + 1 /\ m - 1 = k /\ m \in 0 .. n
    BY <1>5
  <2>2. PICK j \in 1 .. Len(ls) : j = c + m /\ j - 1 = c + k
    BY <1>3, <2>1
  <2>3. PICK line \in Text : line = ls[j]
    BY <1>1, ListIs
  <2>4. k \in 0 .. n
    BY <1>5
  <2>5. PICK acc \in Reading : acc = f[k]
    BY <1>4, <2>4
  <2>6. Held(AddLine(acc, line)) = Held(acc) \o line
    BY AddLineIs
  <2>7. f[m] = AddLine(acc, line)
    BY <1>4, <2>1, <2>2, <2>3, <2>5
  <2>8. Join(SubSeq(ls, 1, j)) = Join(SubSeq(ls, 1, j - 1)) \o ls[j]
    BY <1>1, TextIs, JoinPrefix
  <2>9. Held(acc) = Join(SubSeq(ls, 1, c + k))
    BY <1>7, <2>5
  <2>10. Held(f[m]) = Join(SubSeq(ls, 1, c + m))
    BY <2>2, <2>3, <2>6, <2>7, <2>8, <2>9
  <2> QED BY <2>1, <2>10
<1>8. \A k \in 0 .. n : k \in I
  <2> HIDE DEF I, n
  <2> QED BY <1>5, <1>6, <1>7, Onward
<1>9. n \in 0 .. n /\ c + n = Len(ls)
  BY <1>3, <1>5
<1>10. Held(f[n]) = Join(SubSeq(ls, 1, Len(ls)))
  <2>1. n \in I
    BY <1>8, <1>9
  <2> QED BY <1>9, <2>1
<1>11. SubSeq(ls, 1, Len(ls)) = ls
  BY <1>1, PrefixEnds
<1>12. PICK acc \in Reading : acc = f[n]
  BY <1>4, <1>9
<1>13. /\ EndText(acc) \in Lists(Sections) /\ Source(EndText(acc)) = Held(acc)
       /\ \E m \in Nat : Numbered(EndText(acc), m)
  BY EndTextIs
<1> QED BY <1>1, <1>2, <1>4, <1>10, <1>11, <1>12, <1>13

-----------------------------------------------------------------------------
(* What is translated, and what the source owns.                           *)

\* Sections of ss with other texts, or cut into runs: home[i] is where i is from.
From(ss, first, home) ==
  /\ \A i \in 1 .. Len(ss) : /\ home[i] \in 1 .. Len(first)
                             /\ ss[i].para = first[home[i]].para
                             /\ ss[i].kind = first[home[i]].kind
                             /\ ss[i].go => first[home[i]].go
  /\ \A i, j \in 1 .. Len(ss) : i <= j => home[i] <= home[j]

\* Only paragraphs are translated and each paragraph is one section.
Ranked(ss) ==
  \A i \in 1 .. Len(ss) :
    /\ ss[i].go => ss[i].para # 0
    /\ ss[i].kind = "code" => ss[i].para = 0
    /\ \A j \in 1 .. i - 1 : ss[i].para # 0 => ss[j].para < ss[i].para

\* Only paragraphs are translated and the sections of each stand together, in order.
Laid(ss) ==
  /\ \A i \in 1 .. Len(ss) :
       /\ ss[i].go => ss[i].para # 0
       /\ ss[i].kind = "code" => ss[i].para = 0
  /\ \A i, j \in 1 .. Len(ss) : i <= j /\ ss[j].para # 0 => ss[i].para <= ss[j].para
  /\ \A i, m, j \in 1 .. Len(ss) :
       i <= m /\ m <= j /\ ss[i].para = ss[j].para /\ ss[i].para # 0 => ss[m].para = ss[i].para

LEMMA LaidFrom ==
  ASSUME NEW ss \in Lists(Sections), NEW first \in Lists(Sections), NEW home,
         From(ss, first, home), Ranked(first)
  PROVE  Laid(ss)
<1>1. /\ \A i \in 1 .. Len(ss) : /\ home[i] \in 1 .. Len(first)
                                 /\ ss[i].para = first[home[i]].para
                                 /\ ss[i].kind = first[home[i]].kind
                                 /\ ss[i].go => first[home[i]].go
      /\ \A i, j \in 1 .. Len(ss) : i <= j => home[i] <= home[j]
  BY DEF From
<1>2. \A i \in 1 .. Len(first) :
        /\ first[i].go => first[i].para # 0
        /\ first[i].kind = "code" => first[i].para = 0
        /\ \A j \in 1 .. i - 1 : first[i].para # 0 => first[j].para < first[i].para
  BY DEF Ranked
<1>3. Len(first) \in Nat /\ \A i \in 1 .. Len(first) : first[i].para \in Nat
  <2>1. Len(first) \in Nat /\ \A i \in 1 .. Len(first) : first[i] \in Sections
    BY ListIs
  <2> QED BY <2>1 DEF Sections
<1>4. \A i \in 1 .. Len(ss) :
        /\ ss[i].go => ss[i].para # 0
        /\ ss[i].kind = "code" => ss[i].para = 0
  BY <1>1, <1>2
<1>5. ASSUME NEW h \in 1 .. Len(first), NEW g \in 1 .. Len(first), h <= g, first[g].para # 0
      PROVE  first[h].para <= first[g].para /\ (first[h].para = first[g].para => h = g)
  <2>1. CASE h = g
    BY <1>3, <2>1
  <2>2. CASE h # g
    <3>1. h \in 1 .. g - 1
      BY <1>3, <1>5, <2>2
    <3>2. first[h].para < first[g].para
      BY <1>2, <1>5, <3>1
    <3> QED BY <1>3, <3>2
  <2> QED BY <2>1, <2>2
<1>6. ASSUME NEW i \in 1 .. Len(ss), NEW j \in 1 .. Len(ss), i <= j, ss[j].para # 0
      PROVE  ss[i].para <= ss[j].para /\ (ss[i].para = ss[j].para => home[i] = home[j])
  <2>1. PICK h \in 1 .. Len(first), g \in 1 .. Len(first) : h = home[i] /\ g = home[j] /\ h <= g
    BY <1>1, <1>6
  <2>2. ss[i].para = first[h].para /\ ss[j].para = first[g].para
    BY <1>1, <2>1
  <2> QED BY <1>5, <1>6, <2>1, <2>2
<1>7. ASSUME NEW i \in 1 .. Len(ss), NEW m \in 1 .. Len(ss), NEW j \in 1 .. Len(ss),
             i <= m, m <= j, ss[i].para = ss[j].para, ss[i].para # 0
      PROVE  ss[m].para = ss[i].para
  <2>1. i <= j
    BY <1>7
  <2>2. home[i] = home[j] /\ home[i] <= home[m] /\ home[m] <= home[j]
    BY <1>1, <1>6, <1>7, <2>1
  <2>3. home[i] \in 1 .. Len(first) /\ home[m] \in 1 .. Len(first)
    BY <1>1
  <2>4. home[m] = home[i]
    BY <2>2, <2>3
  <2> QED BY <1>1, <2>4
<1> QED BY <1>4, <1>6, <1>7 DEF Laid

LEMMA PlanSectionsAre ==
  ASSUME NEW t \in Text
  PROVE  /\ PlanSections(t) \in Lists(Sections) /\ Source(PlanSections(t)) = t
         /\ Ranked(PlanSections(t))
<1> DEFINE ss == SplitSections(t)
           p == PlanSections(t)
<1>1. ss \in Lists(Sections) /\ Source(ss) = t
  BY SplitSectionsIs
<1>2. PICK n \in Nat : Numbered(ss, n)
  BY SplitSectionsIs
<1>3. p = [i \in DOMAIN ss |-> Decided(ss[i])]
  BY DEF PlanSections, Each
<1> HIDE DEF ss, p
<1>4. DOMAIN ss = 1 .. Len(ss) /\ Len(ss) \in Nat /\ \A i \in 1 .. Len(ss) : ss[i] \in Sections
  BY <1>1, ListIs
<1>5. ASSUME NEW i \in 1 .. Len(ss)
      PROVE  /\ p[i] \in Sections /\ p[i].text = ss[i].text /\ p[i].kind = ss[i].kind
             /\ p[i].para = ss[i].para /\ (p[i].go => p[i].kind = "paragraph")
  <2>1. p[i] = Decided(ss[i])
    BY <1>3, <1>4
  <2>2. PICK s \in Sections : s = ss[i]
    BY <1>4
  <2> DEFINE go == s.kind = "paragraph" /\ ~(Skip /\ InTarget(s.text))
  <2>3. Decided(s) = [s EXCEPT !.go = go]
    BY DEF Decided
  <2>4. go \in BOOLEAN /\ (go => s.kind = "paragraph")
    OBVIOUS
  <2> HIDE DEF go
  <2> QED BY <2>1, <2>2, <2>3, <2>4 DEF Sections
<1>6. p \in Lists(Sections) /\ Len(p) = Len(ss)
  <2>1. p = [i \in 1 .. Len(ss) |-> p[i]]
    BY <1>3, <1>4
  <2>2. PICK n1 \in Nat : n1 = Len(ss)
    BY <1>4
  <2>3. p = [i \in 1 .. n1 |-> p[i]] /\ \A i \in 1 .. n1 : p[i] \in Sections
    BY <1>5, <2>1, <2>2
  <2> QED BY <2>2, <2>3, ListOf
<1>7. Source(p) = Source(ss)
  <2>1. DOMAIN p = DOMAIN ss
    BY <1>3
  <2>2. [i \in DOMAIN p |-> p[i].text] = [i \in DOMAIN ss |-> ss[i].text]
    BY <1>4, <1>5, <2>1
  <2> QED BY <2>2 DEF Source
<1>8. ASSUME NEW i \in 1 .. Len(p)
      PROVE  /\ p[i].go => p[i].para # 0
             /\ p[i].kind = "code" => p[i].para = 0
             /\ \A j \in 1 .. i - 1 : p[i].para # 0 => p[j].para < p[i].para
  <2>1. i \in 1 .. Len(ss) /\ \A j \in 1 .. i - 1 : j \in 1 .. Len(ss)
    BY <1>4, <1>6
  <2>2. /\ ss[i].para # 0 <=> ss[i].kind = "paragraph"
        /\ \A j \in 1 .. i - 1 : ss[i].para # 0 => ss[j].para < ss[i].para
    BY <1>2, <2>1 DEF Numbered
  <2> QED BY <1>5, <2>1, <2>2
<1>9. Ranked(p)
  BY <1>8 DEF Ranked
<1> QED BY <1>1, <1>6, <1>7, <1>9 DEF p

LEMMA WrittenOutIs ==
  ASSUME NEW t \in Text, NEW copied
  PROVE  WrittenOut(t, copied) \in Text
<1> DEFINE ts == [i \in DOMAIN t |-> IF t[i] = "r" /\ i \notin copied THEN <<"r", "x">> ELSE <<t[i]>>]
<1>1. t \in Lists(Atom)
  BY TextIs
<1>2. DOMAIN t = 1 .. Len(t) /\ Len(t) \in Nat /\ \A i \in 1 .. Len(t) : t[i] \in Atom
  BY <1>1, ListIs
<1>3. ASSUME NEW i \in 1 .. Len(t) PROVE ts[i] \in Lists(Atom)
  <2>1. <<"r", "x">> \in Lists(Atom)
    BY DEF Lists, Atom
  <2>2. PICK a \in Atom : a = t[i]
    BY <1>2
  <2>3. <<a>> \in Lists(Atom)
    BY OneIs
  <2> QED BY <1>2, <2>1, <2>2, <2>3
<1>4. ts \in Lists(Lists(Atom))
  <2>1. PICK n \in Nat : n = Len(t)
    BY <1>2
  <2>2. ts = [i \in 1 .. n |-> ts[i]]
    BY <1>2, <2>1
  <2> HIDE DEF ts
  <2>3. \A i \in 1 .. n : ts[i] \in Lists(Atom)
    BY <1>3, <2>1
  <2> QED BY <2>2, <2>3, ListOf
<1> HIDE DEF ts
<1>5. Join(ts) \in Text
  BY <1>4, JoinType, TextIs
<1> QED BY <1>5 DEF WrittenOut, ts

LEMMA ExplicitAre ==
  ASSUME NEW ss \in Lists(Sections)
  PROVE  /\ Each(ExplicitReferences, ss) \in Lists(Sections)
         /\ Len(Each(ExplicitReferences, ss)) = Len(ss)
         /\ \A i \in 1 .. Len(ss) :
              /\ Each(ExplicitReferences, ss)[i].para = ss[i].para
              /\ Each(ExplicitReferences, ss)[i].kind = ss[i].kind
              /\ Each(ExplicitReferences, ss)[i].go = ss[i].go
<1> DEFINE p == Each(ExplicitReferences, ss)
<1>1. DOMAIN ss = 1 .. Len(ss) /\ Len(ss) \in Nat /\ \A i \in 1 .. Len(ss) : ss[i] \in Sections
  BY ListIs
<1>2. p = [i \in 1 .. Len(ss) |-> ExplicitReferences(ss[i])]
  BY <1>1 DEF Each
<1> HIDE DEF p
<1>3. ASSUME NEW i \in 1 .. Len(ss)
      PROVE  p[i] \in Sections /\ p[i].para = ss[i].para /\ p[i].kind = ss[i].kind /\ p[i].go = ss[i].go
  <2>1. PICK s \in Sections : s = ss[i]
    BY <1>1
  <2>2. p[i] = ExplicitReferences(s)
    BY <1>2, <2>1
  <2> DEFINE x == WrittenOut(s.text, Oversized(s.text))
  <2>3. ExplicitReferences(s) = IF s.go THEN [s EXCEPT !.text = x] ELSE s
    BY DEF ExplicitReferences
  <2>4. x \in Text
    BY WrittenOutIs DEF Sections
  <2> HIDE DEF x
  <2>5. [s EXCEPT !.text = x] \in Sections /\ [s EXCEPT !.text = x].para = s.para
        /\ [s EXCEPT !.text = x].kind = s.kind /\ [s EXCEPT !.text = x].go = s.go
    BY <2>4 DEF Sections
  <2> QED BY <2>1, <2>2, <2>3, <2>5
<1>4. p \in Lists(Sections) /\ Len(p) = Len(ss)
  <2>1. PICK n \in Nat : n = Len(ss)
    BY <1>1
  <2>2. p = [i \in 1 .. n |-> p[i]] /\ \A i \in 1 .. n : p[i] \in Sections
    BY <1>2, <1>3, <2>1
  <2> QED BY <2>1, <2>2, ListOf
<1> QED BY <1>3, <1>4 DEF p

\* The runs of a section hold it whole.
LEMMA RunsAre ==
  ASSUME NEW s \in Sections, NEW owned
  PROVE  /\ Runs(s, owned) \in Lists(Sections) /\ Source(Runs(s, owned)) = s.text
         /\ \A j \in 1 .. Len(Runs(s, owned)) :
              Runs(s, owned)[j].para = s.para /\ Runs(s, owned)[j].kind = s.kind
<1> DEFINE ends == {i \in DOMAIN s.text : i \in owned <=> i + 1 \notin owned}
           parts == CutAfter(s.text, ends)
           Go(j) == Len(Join(SubSeq(parts, 1, j))) \notin owned
           r == Runs(s, owned)
<1>1. r = [j \in DOMAIN parts |-> [s EXCEPT !.text = parts[j], !.go = Go(j)]]
  BY DEF Runs
<1>2. \A j \in DOMAIN parts : Go(j) \in BOOLEAN
  OBVIOUS
<1>3. s.text \in Lists(Atom)
  BY TextIs DEF Sections
<1> HIDE DEF ends, Go, r
<1>4. parts \in Lists(Lists(Atom)) /\ Join(parts) = s.text
  <2>1. PICK x \in Lists(Atom) : x = s.text
    BY <1>3
  <2>2. CutAfter(x, ends) \in Lists(Lists(Atom)) /\ Join(CutAfter(x, ends)) = x
    BY CutAfterJoins
  <2> QED BY <2>1, <2>2
<1> HIDE DEF parts
<1>5. DOMAIN parts = 1 .. Len(parts) /\ Len(parts) \in Nat
      /\ \A j \in 1 .. Len(parts) : parts[j] \in Text
  <2>1. \A j \in 1 .. Len(parts) : parts[j] \in Lists(Atom)
    BY <1>4, ListIs
  <2>2. DOMAIN parts = 1 .. Len(parts) /\ Len(parts) \in Nat
    BY <1>4, ListIs
  <2> QED BY <2>1, <2>2, TextIs
<1>6. ASSUME NEW j \in 1 .. Len(parts)
      PROVE  r[j] \in Sections /\ r[j].text = parts[j] /\ r[j].para = s.para /\ r[j].kind = s.kind
  <2>1. r[j] = [s EXCEPT !.text = parts[j], !.go = Go(j)]
    BY <1>1, <1>5
  <2> QED BY <1>2, <1>5, <2>1 DEF Sections
<1>7. r \in Lists(Sections) /\ Len(r) = Len(parts)
  <2>1. PICK n \in Nat : n = Len(parts)
    BY <1>5
  <2>2. r = [i \in 1 .. n |-> r[i]] /\ \A i \in 1 .. n : r[i] \in Sections
    BY <1>1, <1>5, <1>6, <2>1
  <2> QED BY <2>1, <2>2, ListOf
<1>8. Source(r) = Join(parts)
  <2>1. TextsOf(r) \in Lists(Lists(Atom)) /\ Len(TextsOf(r)) = Len(r)
    BY <1>7, TextsAre
  <2>2. \A i \in 1 .. Len(r) : TextsOf(r)[i] = r[i].text
    BY <1>7, TextsAre
  <2>3. Source(r) = Join(TextsOf(r))
    BY <1>7, TextsAre
  <2>4. \A i \in 1 .. Len(TextsOf(r)) : TextsOf(r)[i] = parts[i]
    BY <1>6, <1>7, <2>1, <2>2
  <2>5. TextsOf(r) = parts
    BY <1>4, <1>7, <2>1, <2>4, ListEqual
  <2> QED BY <2>3, <2>5
<1> QED BY <1>4, <1>6, <1>7, <1>8 DEF r

\* Cutting the sections into runs loses nothing.
LEMMA SplitOwnedIs ==
  ASSUME NEW ss \in Lists(Sections), NEW coherent
  PROVE  /\ SplitOwned(ss, coherent) \in Lists(Sections)
         /\ Source(SplitOwned(ss, coherent)) = Source(ss)
         /\ \E home : From(SplitOwned(ss, coherent), ss, home)
<1> DEFINE n == Len(ss)
           Pieces(k) == IF ~ss[k].go \/ ss[k].para \in coherent THEN <<ss[k]>>
                        ELSE Runs(ss[k], OwnedIn(ss, k))
           tss == [k \in 1 .. n |-> Pieces(k)]
           js == [k \in DOMAIN tss |-> Source(tss[k])]
           w == SplitOwned(ss, coherent)
<1>1. DOMAIN ss = 1 .. n /\ n \in Nat /\ \A k \in 1 .. n : ss[k] \in Sections
  BY ListIs
<1>2. w = Join(tss)
  BY <1>1 DEF SplitOwned
<1>3. ASSUME NEW k \in 1 .. n
      PROVE  /\ tss[k] \in Lists(Sections) /\ Source(tss[k]) = ss[k].text
             /\ \A j \in 1 .. Len(tss[k]) : /\ tss[k][j].para = ss[k].para
                                            /\ tss[k][j].kind = ss[k].kind
                                            /\ tss[k][j].go => ss[k].go
  <2>1. tss[k] = Pieces(k)
    OBVIOUS
  <2>2. PICK s \in Sections : s = ss[k]
    BY <1>1
  <2>3. CASE ~ss[k].go \/ ss[k].para \in coherent
    <3>1. tss[k] = <<s>>
      BY <2>1, <2>2, <2>3
    <3>2. Source(<<s>>) = s.text
      <4>1. <<>> \in Lists(Sections)
        BY NoneIs
      <4>2. Append(<<>>, s) = <<s>>
        OBVIOUS
      <4>3. Source(Append(<<>>, s)) = Source(<<>>) \o s.text
        BY <4>1, SourceAppend
      <4>4. s.text \in Lists(Atom)
        BY TextIs DEF Sections
      <4>5. <<>> \o s.text = s.text
        BY <4>4, ConcatNone
      <4> QED BY <4>2, <4>3, <4>5, SourceNone
    <3> HIDE DEF tss, Pieces
    <3>3. <<s>> \in Lists(Sections) /\ Len(<<s>>) = 1 /\ <<s>>[1] = s
      BY OneIs
    <3>4. \A j \in 1 .. Len(<<s>>) : <<s>>[j] = s
      BY <3>3
    <3> QED BY <2>2, <3>1, <3>2, <3>3, <3>4
  <2>4. CASE ~(~ss[k].go \/ ss[k].para \in coherent)
    <3>1. tss[k] = Runs(s, OwnedIn(ss, k)) /\ ss[k].go
      BY <2>1, <2>2, <2>4
    <3> HIDE DEF tss, Pieces
    <3> QED BY <2>2, <3>1, RunsAre
  <2> QED BY <2>3, <2>4
<1> HIDE DEF Pieces
<1>4. tss \in Lists(Lists(Sections)) /\ Len(tss) = n
  <2>1. tss = [k \in 1 .. n |-> tss[k]]
    OBVIOUS
  <2> HIDE DEF tss, n
  <2> QED BY <1>1, <1>3, <2>1, ListOf
<1>5. js = TextsOf(ss)
  BY <1>1, <1>3 DEF TextsOf
<1> HIDE DEF tss
<1>6. Join(tss) \in Lists(Sections) /\ Source(Join(tss)) = Join(js)
  BY <1>4, SourceJoin
<1>7. Source(ss) = Join(TextsOf(ss))
  BY TextsAre
<1>8. PICK at, home : Places(tss, at, home)
  BY <1>4, JoinPlaces
<1>9. ASSUME NEW i \in 1 .. Len(w)
      PROVE  /\ home[i] \in 1 .. n /\ w[i].para = ss[home[i]].para
             /\ w[i].kind = ss[home[i]].kind /\ (w[i].go => ss[home[i]].go)
  <2>1. /\ home[i] \in 1 .. Len(tss) /\ i - at[home[i] - 1] \in 1 .. Len(tss[home[i]])
        /\ Join(tss)[i] = tss[home[i]][i - at[home[i] - 1]]
    BY <1>2, <1>8 DEF Places
  <2>2. PICK k \in 1 .. n : k = home[i]
    BY <1>4, <2>1
  <2>3. PICK j \in 1 .. Len(tss[k]) : w[i] = tss[k][j]
    BY <1>2, <2>1, <2>2
  <2> QED BY <1>3, <2>2, <2>3
<1>10. \A i, j \in 1 .. Len(w) : i <= j => home[i] <= home[j]
  BY <1>2, <1>8 DEF Places
<1>11. From(w, ss, home)
  BY <1>9, <1>10 DEF From
<1> QED BY <1>2, <1>5, <1>6, <1>7, <1>11 DEF w

-----------------------------------------------------------------------------
(* Groups of sections.                                                     *)

LEMMA LongerAt ==
  ASSUME NEW S, NEW pieces \in Lists(Lists(S)), pieces # <<>>, NEW a \in S
  PROVE  /\ Longer(pieces, a) \in Lists(Lists(S)) /\ Len(Longer(pieces, a)) = Len(pieces)
         /\ \A i \in 1 .. Len(pieces) - 1 : Longer(pieces, a)[i] = pieces[i]
         /\ Longer(pieces, a)[Len(pieces)] = Append(pieces[Len(pieces)], a)
<1> DEFINE n == Len(pieces)
           p == SubSeq(pieces, 1, n - 1)
           x == pieces[n]
           y == Append(x, a)
<1>1. n \in Nat /\ n # 0 /\ n \in 1 .. Len(pieces) /\ n - 1 \in 0 .. Len(pieces)
  BY ListIs
<1>2. Longer(pieces, a) = Append(p, y)
  BY DEF Longer, Front, Last
<1>3. p \in Lists(Lists(S)) /\ Len(p) = n - 1 /\ \A i \in 1 .. n - 1 : p[i] = pieces[i]
  <2>1. PICK m \in 0 .. Len(pieces) : m = n - 1
    BY <1>1
  <2>2. /\ SubSeq(pieces, 1, m) \in Lists(Lists(S)) /\ Len(SubSeq(pieces, 1, m)) = m
        /\ \A i \in 1 .. m : SubSeq(pieces, 1, m)[i] = pieces[i]
    BY PrefixIs
  <2> QED BY <2>1, <2>2
<1>4. x \in Lists(S)
  <2> HIDE DEF n
  <2> QED BY <1>1, ListIs
<1> HIDE DEF p, x
<1>5. y \in Lists(S)
  BY <1>4, AppendIs
<1> HIDE DEF y
<1>6. /\ Append(p, y) \in Lists(Lists(S)) /\ Len(Append(p, y)) = Len(p) + 1
      /\ \A i \in 1 .. Len(p) : Append(p, y)[i] = p[i]
      /\ Append(p, y)[Len(p) + 1] = y
  BY <1>3, <1>5, AppendIs
<1> QED BY <1>1, <1>2, <1>3, <1>6 DEF y, x

Gathered(gs, ss, i) ==
  IF ~ss[i].go THEN gs
  ELSE IF gs # <<>> /\ Last(Last(gs)) = i - 1 /\ ss[i - 1].para = ss[i].para
       THEN Longer(gs, i) ELSE Append(gs, <<i>>)

LEMMA GatheredType ==
  ASSUME NEW gs \in Lists(Lists(Nat)), NEW ss, NEW i \in Nat
  PROVE  Gathered(gs, ss, i) \in Lists(Lists(Nat))
<1>1. <<i>> \in Lists(Nat)
  BY OneIs
<1>2. Append(gs, <<i>>) \in Lists(Lists(Nat))
  BY <1>1, AppendIs
<1>3. gs # <<>> => Longer(gs, i) \in Lists(Lists(Nat))
  BY LongerAt
<1> QED BY <1>2, <1>3 DEF Gathered

\* Groups by the loop over the sections.
LEMMA GroupsIs ==
  ASSUME NEW ss \in Lists(Sections)
  PROVE  \E f : /\ \A k \in 0 .. Len(ss) : f[k] \in Lists(Lists(Nat))
                /\ f[0] = <<>> /\ Groups(ss) = f[Len(ss)]
                /\ \A k \in 1 .. Len(ss) : f[k] = Gathered(f[k - 1], ss, k)
<1> DEFINE n == Len(ss)
           T == Lists(Lists(Nat))
           x == <<>>
           F == [k \in 1 .. n |-> [a \in T |-> Gathered(a, ss, k)]]
           Loops(g) == g = [k \in 0 .. n |-> IF k = 0 THEN <<>> ELSE
                              IF ~ss[k].go THEN g[k-1]
                              ELSE IF g[k-1] # <<>> /\ Last(Last(g[k-1])) = k - 1 /\ ss[k - 1].para = ss[k].para
                                   THEN Append(Front(g[k-1]), Append(Last(g[k-1]), k))
                                   ELSE Append(g[k-1], <<k>>)]
<1>1. n \in Nat /\ x \in T
  BY ListIs, NoneIs
<1>2. F \in [1 .. n -> [T -> T]]
  <2>1. ASSUME NEW k \in 1 .. n, NEW a \in T PROVE Gathered(a, ss, k) \in T
    BY <1>1, GatheredType
  <2> HIDE DEF T, n
  <2> QED BY <2>1
<1> HIDE DEF T, n, x
<1>3. PICK f : /\ \A k \in 0 .. n : f[k] \in T
               /\ f[0] = x /\ \A k \in 1 .. n : f[k] = F[k][f[k - 1]]
  <2> HIDE DEF F, Loops
  <2>1. n \in Nat /\ x \in T /\ F \in [1 .. n -> [T -> T]]
    BY <1>1, <1>2
  <2> QED BY <2>1, LoopExists
<1>4. ASSUME NEW k \in 1 .. n PROVE f[k] = Gathered(f[k - 1], ss, k)
  <2>1. k - 1 \in 0 .. n
    BY <1>1
  <2>2. f[k - 1] \in T
    BY <1>3, <2>1
  <2>3. F[k][f[k - 1]] = Gathered(f[k - 1], ss, k)
    BY <2>2
  <2> QED BY <1>3, <2>3
<1> HIDE DEF F
<1> DEFINE h == [k \in 0 .. n |-> f[k]]
           g == CHOOSE g : Loops(g)
<1>5. Loops(h)
  <2>1. ASSUME NEW k \in 0 .. n
        PROVE  h[k] = IF k = 0 THEN <<>> ELSE
                        IF ~ss[k].go THEN h[k-1]
                              ELSE IF h[k-1] # <<>> /\ Last(Last(h[k-1])) = k - 1 /\ ss[k - 1].para = ss[k].para
                                   THEN Append(Front(h[k-1]), Append(Last(h[k-1]), k))
                                   ELSE Append(h[k-1], <<k>>)
    <3>1. CASE k = 0
      BY <1>3, <3>1 DEF x
    <3>2. CASE k # 0
      <4>1. k \in 1 .. n /\ h[k] = f[k] /\ h[k-1] = f[k-1]
        BY <1>1, <3>2
      <4>2. h[k] = Gathered(h[k - 1], ss, k)
        BY <1>4, <4>1
      <4> HIDE DEF h
      <4> QED BY <3>2, <4>2 DEF Gathered, Longer
    <3> QED BY <3>1, <3>2
  <2> QED BY <2>1
<1>6. Loops(g)
  <2> HIDE DEF Loops, h
  <2> QED BY <1>5
<1>7. Groups(ss) = g[n]
  BY DEF Groups, Loop, n
<1> HIDE DEF g
<1>8. ASSUME NEW k \in 0 .. n
      PROVE  g[k] = IF k = 0 THEN <<>> ELSE Gathered(g[k - 1], ss, k)
  <2>1. g[k] = IF k = 0 THEN <<>> ELSE
                 IF ~ss[k].go THEN g[k-1]
                              ELSE IF g[k-1] # <<>> /\ Last(Last(g[k-1])) = k - 1 /\ ss[k - 1].para = ss[k].para
                                   THEN Append(Front(g[k-1]), Append(Last(g[k-1]), k))
                                   ELSE Append(g[k-1], <<k>>)
    BY <1>6
  <2> QED BY <2>1 DEF Gathered, Longer
<1> HIDE DEF Loops
<1>9. ASSUME NEW k \in 1 .. n, g[k - 1] = f[k - 1] PROVE g[k] = f[k]
  <2>1. k \in 0 .. n /\ k # 0
    BY <1>1
  <2> QED BY <1>4, <1>8, <1>9, <2>1
<1>10. g[0] = f[0]
  BY <1>1, <1>3, <1>8 DEF x
<1>11. \A k \in 0 .. n : g[k] = f[k]
  BY <1>1, <1>9, <1>10, LoopUnique
<1>12. Groups(ss) = f[n]
  BY <1>1, <1>7, <1>11
<1>13. \A k \in 1 .. n : f[k] = Gathered(f[k - 1], ss, k)
  BY <1>4
<1> QED BY <1>3, <1>12, <1>13 DEF n, T, x

\* The groups of the first n sections: runs of sections to translate, in order,
\* each of one paragraph, and each such section in one.
Grouping(gs, ss, n) ==
  /\ gs \in Lists(Lists(Nat))
  /\ \A a \in 1 .. Len(gs) :
       /\ Len(gs[a]) # 0
       /\ \A j \in 1 .. Len(gs[a]) :
            /\ gs[a][j] \in 1 .. n /\ gs[a][j] = gs[a][1] + j - 1
            /\ ss[gs[a][j]].go /\ ss[gs[a][j]].para = ss[gs[a][1]].para
  /\ \A a, b \in 1 .. Len(gs) : a < b =>
       \A j \in 1 .. Len(gs[a]) : \A k \in 1 .. Len(gs[b]) : gs[a][j] < gs[b][k]
  /\ \A k \in 1 .. n : ss[k].go => \E a \in 1 .. Len(gs) : \E j \in 1 .. Len(gs[a]) : gs[a][j] = k

LEMMA GatheredIs ==
  ASSUME NEW ss, NEW gs, NEW n \in Nat, Grouping(gs, ss, n)
  PROVE  Grouping(Gathered(gs, ss, n + 1), ss, n + 1)
<1> DEFINE i == n + 1
           L == Len(gs)
           Group(g, m) == /\ Len(g) # 0
                          /\ \A j \in 1 .. Len(g) :
                               /\ g[j] \in 1 .. m /\ g[j] = g[1] + j - 1
                               /\ ss[g[j]].go /\ ss[g[j]].para = ss[g[1]].para
<1>1. gs \in Lists(Lists(Nat)) /\ L \in Nat /\ i \in Nat
  BY ListIs DEF Grouping
<1>2. \A a \in 1 .. L : Group(gs[a], n) /\ gs[a] \in Lists(Nat)
  BY <1>1, ListIs DEF Grouping
<1>3. \A a, b \in 1 .. L : a < b =>
        \A j \in 1 .. Len(gs[a]) : \A k \in 1 .. Len(gs[b]) : gs[a][j] < gs[b][k]
  BY DEF Grouping
<1>4. \A k \in 1 .. n : ss[k].go => \E a \in 1 .. L : \E j \in 1 .. Len(gs[a]) : gs[a][j] = k
  BY DEF Grouping
<1>5. \A a \in 1 .. L : \A j \in 1 .. Len(gs[a]) : gs[a][j] \in 1 .. n
  BY <1>2
<1>6. \A a \in 1 .. L : Group(gs[a], i)
  <2>1. ASSUME NEW a \in 1 .. L PROVE Group(gs[a], i)
    <3>1. Group(gs[a], n)
      BY <1>2
    <3> QED BY <3>1
  <2> QED BY <2>1
<1>7. CASE ~ss[i].go
  <2>1. Gathered(gs, ss, i) = gs
    BY <1>7 DEF Gathered
  <2>2. \A k \in 1 .. i : ss[k].go => \E a \in 1 .. L : \E j \in 1 .. Len(gs[a]) : gs[a][j] = k
    <3>1. ASSUME NEW k \in 1 .. i, ss[k].go PROVE k \in 1 .. n
      BY <1>7, <3>1
    <3> QED BY <1>4, <3>1
  <2> QED BY <1>1, <1>3, <1>6, <2>1, <2>2 DEF Grouping
<1>8. CASE ss[i].go /\ gs # <<>> /\ Last(Last(gs)) = i - 1 /\ ss[i - 1].para = ss[i].para
  <2> DEFINE hs == Longer(gs, i)
             g == gs[L]
             m == Len(g)
  <2>1. Gathered(gs, ss, i) = hs
    BY <1>8 DEF Gathered
  <2>2. L \in 1 .. L /\ L # 0
    BY <1>1, <1>8, ListIs
  <2>3. g \in Lists(Nat) /\ m \in Nat /\ m # 0 /\ Group(g, n)
    <3>1. g \in Lists(Nat) /\ Group(g, n)
      BY <1>2, <2>2
    <3>2. m \in Nat
      <4> HIDE DEF g
      <4> QED BY <3>1, ListIs
    <3> QED BY <3>1, <3>2
  <2>4. /\ hs \in Lists(Lists(Nat)) /\ Len(hs) = L
        /\ \A a \in 1 .. L - 1 : hs[a] = gs[a]
        /\ hs[L] = Append(g, i)
    BY <1>1, <1>8, LongerAt
  <2>5. g[m] = i - 1
    BY <1>8 DEF Last
  <2> DEFINE h == Append(g, i)
  <2> HIDE DEF hs, g
  <2>6. /\ Len(h) = m + 1 /\ \A j \in 1 .. m : h[j] = g[j]
        /\ h[m + 1] = i
    BY <1>1, <2>3, AppendIs
  <2> HIDE DEF h, L
  <2>7. h[1] = g[1] /\ g[1] \in Nat /\ g[m] = g[1] + m - 1
    <3>1. 1 \in 1 .. m /\ m \in 1 .. m
      BY <2>3
    <3> QED BY <2>3, <2>6, <3>1
  <2>8. ASSUME NEW j \in 1 .. Len(h)
        PROVE  /\ h[j] \in 1 .. i /\ h[j] = h[1] + j - 1
               /\ ss[h[j]].go /\ ss[h[j]].para = ss[h[1]].para
    <3>1. CASE j \in 1 .. m
      BY <2>3, <2>6, <2>7, <3>1
    <3>2. CASE j = m + 1
      <4>1. h[j] = i /\ i = g[1] + j - 1 /\ i \in 1 .. i
        BY <1>1, <2>3, <2>5, <2>6, <2>7, <3>2
      <4>2. ss[i].para = ss[g[m]].para /\ ss[i].go
        BY <1>8, <2>5
      <4>3. ss[g[m]].para = ss[g[1]].para
        <5>1. m \in 1 .. m
          BY <2>3
        <5> QED BY <2>3, <5>1
      <4> QED BY <2>7, <4>1, <4>2, <4>3
    <3>3. j \in 1 .. m \/ j = m + 1
      BY <2>3, <2>6
    <3> QED BY <3>1, <3>2, <3>3
  <2>9. Group(h, i)
    <3>1. Len(h) # 0
      BY <2>3, <2>6
    <3> QED BY <2>8, <3>1
  <2>10. \A a \in 1 .. L : a # L => (a \in 1 .. L - 1 /\ hs[a] = gs[a])
    <3>1. \A a \in 1 .. L : a # L => a \in 1 .. L - 1
      BY <1>1
    <3> QED BY <2>4, <3>1
  <2>11. \A a \in 1 .. L : Group(hs[a], i)
    <3>1. hs[L] = h
      BY <2>4 DEF h
    <3> HIDE DEF Group
    <3> QED BY <1>6, <2>9, <2>10, <3>1
  <2>12. ASSUME NEW a \in 1 .. L, NEW b \in 1 .. L, a < b,
                NEW j \in 1 .. Len(hs[a]), NEW k \in 1 .. Len(hs[b])
         PROVE  hs[a][j] < hs[b][k]
    <3>1. a # L
      BY <1>1, <2>12
    <3>2. hs[a] = gs[a] /\ j \in 1 .. Len(gs[a])
      BY <2>10, <3>1
    <3>3. CASE b # L
      <4>1. hs[b] = gs[b]
        BY <2>10, <3>3
      <4> QED BY <1>3, <2>12, <3>2, <4>1
    <3>4. CASE b = L
      <4>1. hs[b] = h /\ k \in 1 .. m + 1
        BY <2>4, <2>6, <3>4 DEF h
      <4>2. gs[a][j] \in 1 .. n
        BY <1>5, <3>2
      <4>3. CASE k = m + 1
        <5>1. hs[b][k] = i
          BY <2>6, <4>1, <4>3
        <5> QED BY <3>2, <4>2, <5>1
      <4>4. CASE k \in 1 .. m
        <5>1. hs[b][k] = gs[b][k] /\ k \in 1 .. Len(gs[b])
          BY <2>6, <3>4, <4>1, <4>4 DEF g
        <5> QED BY <1>3, <2>12, <3>2, <5>1
      <4> QED BY <2>3, <4>1, <4>3, <4>4
    <3> QED BY <3>3, <3>4
  <2>13. ASSUME NEW k \in 1 .. i, ss[k].go
         PROVE  \E a \in 1 .. L : \E j \in 1 .. Len(hs[a]) : hs[a][j] = k
    <3>1. CASE k = i
      <4>1. hs[L] = h /\ m + 1 \in 1 .. Len(h) /\ h[m + 1] = i
        BY <2>3, <2>4, <2>6 DEF h
      <4>2. m + 1 \in 1 .. Len(hs[L]) /\ hs[L][m + 1] = k
        BY <3>1, <4>1
      <4> QED BY <2>2, <4>2
    <3>2. CASE k # i
      <4>1. k \in 1 .. n
        BY <3>2
      <4>2. PICK a \in 1 .. L : \E j \in 1 .. Len(gs[a]) : gs[a][j] = k
        BY <1>4, <2>13, <4>1
      <4>0. PICK j \in 1 .. Len(gs[a]) : gs[a][j] = k
        BY <4>2
      <4>3. CASE a # L
        <5>1. hs[a] = gs[a]
          BY <2>10, <4>3
        <5> QED BY <4>0, <5>1
      <4>4. CASE a = L
        <5>1. j \in 1 .. m /\ g[j] = k
          BY <4>0, <4>4 DEF g
        <5>2. hs[L] = h /\ j \in 1 .. Len(h) /\ h[j] = k
          BY <2>3, <2>4, <2>6, <5>1 DEF h
        <5>3. j \in 1 .. Len(hs[L]) /\ hs[L][j] = k
          BY <5>2
        <5> QED BY <2>2, <5>3
      <4> QED BY <4>3, <4>4
    <3> QED BY <3>1, <3>2
  <2>14. Len(hs) = L /\ hs \in Lists(Lists(Nat))
    BY <2>4
  <2>15. Grouping(hs, ss, i)
    <3> HIDE DEF i
    <3> QED BY <2>11, <2>12, <2>13, <2>14 DEF Grouping
  <2> QED BY <2>1, <2>15
<1>9. CASE ss[i].go /\ ~(gs # <<>> /\ Last(Last(gs)) = i - 1 /\ ss[i - 1].para = ss[i].para)
  <2> DEFINE h == <<i>>
             hs == Append(gs, h)
  <2>1. Gathered(gs, ss, i) = hs
    BY <1>9 DEF Gathered
  <2>2. h \in Lists(Nat) /\ Len(h) = 1 /\ h[1] = i
    BY <1>1, OneIs
  <2> HIDE DEF h
  <2>3. /\ hs \in Lists(Lists(Nat)) /\ Len(hs) = L + 1
        /\ \A a \in 1 .. L : hs[a] = gs[a]
        /\ hs[L + 1] = h
    BY <1>1, <2>2, AppendIs
  <2> HIDE DEF hs, L
  <2>4. Group(h, i)
    <3>1. ASSUME NEW j \in 1 .. Len(h) PROVE h[j] = i /\ j = 1
      BY <2>2
    <3>2. i \in 1 .. i
      BY <1>1
    <3> QED BY <1>1, <1>9, <2>2, <3>1, <3>2
  <2>5. \A a \in 1 .. L + 1 : a # L + 1 => (a \in 1 .. L /\ hs[a] = gs[a])
    <3>1. \A a \in 1 .. L + 1 : a # L + 1 => a \in 1 .. L
      BY <1>1
    <3> QED BY <2>3, <3>1
  <2>6. \A a \in 1 .. L + 1 : Group(hs[a], i)
    <3> HIDE DEF Group
    <3> QED BY <1>6, <2>3, <2>4, <2>5
  <2>7. ASSUME NEW a \in 1 .. L + 1, NEW b \in 1 .. L + 1, a < b,
                NEW j \in 1 .. Len(hs[a]), NEW k \in 1 .. Len(hs[b])
         PROVE  hs[a][j] < hs[b][k]
    <3>1. a # L + 1
      BY <1>1, <2>7
    <3>2. hs[a] = gs[a] /\ j \in 1 .. Len(gs[a]) /\ a \in 1 .. L
      BY <2>5, <3>1
    <3>3. CASE b # L + 1
      <4>1. hs[b] = gs[b] /\ b \in 1 .. L
        BY <2>5, <3>3
      <4> QED BY <1>3, <2>7, <3>2, <4>1
    <3>4. CASE b = L + 1
      <4>0. hs[b] = h
        BY <2>3, <3>4
      <4>1. hs[b][k] = i
        <5>1. k \in 1 .. 1
          BY <2>2, <4>0
        <5>2. k = 1
          BY <5>1
        <5> QED BY <2>2, <4>0, <5>2
      <4>2. gs[a][j] \in 1 .. n
        BY <1>5, <3>2
      <4> QED BY <3>2, <4>1, <4>2
    <3> QED BY <3>3, <3>4
  <2>8. ASSUME NEW k \in 1 .. i, ss[k].go
         PROVE  \E a \in 1 .. L + 1 : \E j \in 1 .. Len(hs[a]) : hs[a][j] = k
    <3>1. CASE k = i
      <4>1. L + 1 \in 1 .. L + 1
        BY <1>1
      <4>2. hs[L + 1] = h
        BY <2>3
      <4>3. 1 \in 1 .. Len(hs[L + 1]) /\ hs[L + 1][1] = i
        <5> HIDE DEF i
        <5>1. 1 \in 1 .. Len(h) /\ h[1] = i
          BY <2>2
        <5> QED BY <4>2, <5>1
      <4> QED BY <3>1, <4>1, <4>3
    <3>2. CASE k # i
      <4>1. k \in 1 .. n
        BY <3>2
      <4>2. PICK a \in 1 .. L : \E j \in 1 .. Len(gs[a]) : gs[a][j] = k
        BY <1>4, <2>8, <4>1
      <4>0. PICK j \in 1 .. Len(gs[a]) : gs[a][j] = k
        BY <4>2
      <4>3. hs[a] = gs[a] /\ a \in 1 .. L + 1
        BY <1>1, <2>3
      <4> QED BY <4>0, <4>3
    <3> QED BY <3>1, <3>2
  <2> QED BY <2>1, <2>3, <2>6, <2>7, <2>8 DEF Grouping
<1> QED BY <1>7, <1>8, <1>9

LEMMA GroupsAre ==
  ASSUME NEW ss \in Lists(Sections)
  PROVE  Grouping(Groups(ss), ss, Len(ss))
<1> DEFINE n == Len(ss)
<1>1. PICK f : /\ f[0] = <<>> /\ Groups(ss) = f[Len(ss)]
               /\ \A k \in 1 .. Len(ss) : f[k] = Gathered(f[k - 1], ss, k)
  BY GroupsIs
<1> DEFINE I == {k \in 0 .. n : Grouping(f[k], ss, k)}
<1>2. n \in Nat
  BY ListIs
<1>3. 0 \in I
  <2>1. Grouping(<<>>, ss, 0)
    <3>1. <<>> \in Lists(Lists(Nat)) /\ Len(<<>>) = 0
      BY NoneIs
    <3> QED BY <3>1 DEF Grouping
  <2> QED BY <1>1, <1>2, <2>1
<1>4. ASSUME NEW k \in 0 .. n - 1, k \in I PROVE k + 1 \in I
  <2>1. k + 1 \in 1 .. Len(ss) /\ k + 1 - 1 = k /\ k \in Nat /\ k + 1 \in 0 .. n
    BY <1>2
  <2>2. PICK gs : gs = f[k]
    OBVIOUS
  <2>3. f[k + 1] = Gathered(f[k + 1 - 1], ss, k + 1)
    BY <1>1, <2>1
  <2>4. f[k + 1] = Gathered(gs, ss, k + 1)
    BY <2>1, <2>2, <2>3
  <2>5. Grouping(gs, ss, k)
    BY <1>4, <2>2
  <2>6. Grouping(Gathered(gs, ss, k + 1), ss, k + 1)
    BY <2>1, <2>5, GatheredIs
  <2> QED BY <2>1, <2>4, <2>6
<1>5. \A k \in 0 .. n : k \in I
  <2> HIDE DEF I, n
  <2> QED BY <1>2, <1>3, <1>4, Onward
<1>6. n \in I
  <2> HIDE DEF I, n
  <2> QED BY <1>2, <1>5
<1> QED BY <1>1, <1>6

-----------------------------------------------------------------------------
(* Segments.                                                               *)

\* Sequences over the empty set, and their concatenations, are empty.
LEMMA EmptyList ==
  ASSUME NEW l \in Lists({})
  PROVE  l = <<>>
<1>1. Len(l) \in Nat /\ (\A k \in 1 .. Len(l) : l[k] \in {}) /\ (l = <<>> <=> Len(l) = 0)
  BY ListIs
<1>2. CASE Len(l) # 0
  <2>1. 1 \in 1 .. Len(l)
    BY <1>1, <1>2
  <2> QED BY <1>1, <2>1
<1> QED BY <1>1, <1>2

LEMMA JoinBlanks ==
  ASSUME NEW S, NEW ts \in Lists(Lists(S)), \A i \in 1 .. Len(ts) : ts[i] = <<>>
  PROVE  Join(ts) = <<>>
<1>1. \A i \in 1 .. Len(ts) : ts[i] \in Lists({})
  BY NoneIs
<1>2. ts \in Lists(Lists({}))
  <2>1. PICK n \in Nat : n = Len(ts)
    BY ListIs
  <2>2. ts = [i \in 1 .. n |-> ts[i]] /\ \A i \in 1 .. n : ts[i] \in Lists({})
    BY <1>1, <2>1, ListIs
  <2> QED BY <2>2, ListOf
<1>3. Join(ts) \in Lists({})
  BY <1>2, JoinType
<1> QED BY <1>3, EmptyList

\* A concatenation of which one part is not empty is that part.
LEMMA JoinSingle ==
  ASSUME NEW S, NEW ts \in Lists(Lists(S)), NEW a \in 1 .. Len(ts),
         \A i \in 1 .. Len(ts) : i # a => ts[i] = <<>>
  PROVE  Join(ts) = ts[a]
<1> DEFINE n == Len(ts)
           none == <<>>
           J(k) == Join(SubSeq(ts, 1, k)) = IF k < a THEN none ELSE ts[a]
           I == {k \in 0 .. n : J(k)}
<1>1. n \in Nat /\ a \in Nat /\ a # 0
  BY ListIs
<1>2. 0 \in I
  <2>1. SubSeq(ts, 1, 0) = none
    BY PrefixEnds
  <2>2. Join(SubSeq(ts, 1, 0)) = none
    BY <2>1, JoinEmpty
  <2> QED BY <1>1, <2>2
<1> HIDE DEF none
<1>3. ASSUME NEW k \in 0 .. n - 1, k \in I PROVE k + 1 \in I
  <2>1. PICK m \in 1 .. n : m = k + 1 /\ m - 1 = k /\ m \in 0 .. n
    BY <1>1
  <2>2. PICK p \in Lists(S), x \in Lists(S) :
          /\ p = Join(SubSeq(ts, 1, m - 1)) /\ x = ts[m]
          /\ Join(SubSeq(ts, 1, m)) = p \o x
    BY JoinPrefix
  <2>3. p = IF k < a THEN none ELSE ts[a]
    BY <1>3, <2>1, <2>2
  <2>4. none \o x = x /\ p \o none = p
    BY ConcatNone DEF none
  <2>5. m # a => x = none
    BY <2>2 DEF none
  <2>6. CASE k < a
    <3>1. Join(SubSeq(ts, 1, m)) = x
      BY <2>2, <2>3, <2>4, <2>6
    <3>2. CASE m = a
      BY <1>1, <2>1, <2>2, <3>1, <3>2
    <3>3. CASE m # a
      <4>1. m < a
        BY <1>1, <2>1, <2>6, <3>3
      <4> QED BY <2>1, <2>5, <3>1, <3>3, <4>1
    <3> QED BY <3>2, <3>3
  <2>7. CASE ~(k < a)
    <3>1. m # a /\ ~(m < a)
      BY <1>1, <2>1, <2>7
    <3>2. Join(SubSeq(ts, 1, m)) = ts[a]
      BY <2>2, <2>3, <2>4, <2>5, <2>7, <3>1
    <3> QED BY <2>1, <3>1, <3>2
  <2> QED BY <2>6, <2>7
<1>4. \A k \in 0 .. n : k \in I
  <2> HIDE DEF I
  <2> QED BY <1>1, <1>2, <1>3, Onward
<1>5. J(n)
  <2>1. n \in 0 .. n
    BY <1>1
  <2> QED BY <1>4, <2>1
<1>6. ~(n < a)
  BY <1>1
<1>7. SubSeq(ts, 1, n) = ts
  BY PrefixEnds
<1> QED BY <1>5, <1>6, <1>7

\* What a segment may be.
Budget == {u \in Text : Len(u) <= Available /\ Request(u) <= Capacity}

Fitted(t) == Join(Each(Fit, Segment(t, Available)))

LEMMA FittedIs ==
  ASSUME NEW t \in Text
  PROVE  /\ Fitted(t) \in Lists(Budget) /\ Fitted(t) # <<>>
         /\ Fitted(t) \in Lists(Some) => Join(Fitted(t)) = t
<1> DEFINE ps == Segment(t, Available)
           tss == Each(Fit, ps)
           js == [i \in DOMAIN tss |-> Join(tss[i])]
<1>1. PICK max \in Nat \ {0} : max = Available
  BY AvailableIs
<1>2. ps \in Lists(Short(Atom, max)) /\ Join(ps) = t /\ ps # <<>>
  BY <1>1, SegmentJoins, TextIs
<1> HIDE DEF ps
<1>3. tss = [i \in DOMAIN ps |-> Fit(ps[i])]
  BY DEF Each
<1> HIDE DEF tss
<1>4. DOMAIN ps = 1 .. Len(ps) /\ Len(ps) \in Nat /\ Len(ps) # 0
      /\ \A i \in 1 .. Len(ps) : ps[i] \in Short(Atom, max)
  BY <1>2, ListIs
<1>5. ASSUME NEW i \in 1 .. Len(ps)
      PROVE  /\ tss[i] \in Lists(Budget) /\ tss[i] # <<>>
             /\ tss[i] \in Lists(Some) => Join(tss[i]) = ps[i]
  <2>1. PICK u \in Text : u = ps[i] /\ Len(u) <= max
    BY <1>4, TextIs DEF Short
  <2>2. tss[i] = Fit(u)
    BY <1>3, <1>4, <2>1
  <2>3. /\ Fit(u) \in Lists({v \in Text : Len(v) <= Len(u) /\ Request(v) <= Capacity})
        /\ Fit(u) # <<>> /\ (Fit(u) \in Lists(Some) => Join(Fit(u)) = u)
    BY FitJoins
  <2>4. {v \in Text : Len(v) <= Len(u) /\ Request(v) <= Capacity} \subseteq Budget
    <3>1. ASSUME NEW v \in Text, Len(v) <= Len(u) PROVE Len(v) <= Available
      <4>1. Len(v) \in Nat /\ Len(u) \in Nat
        BY RequestIs
      <4> QED BY <1>1, <2>1, <3>1, <4>1
    <3> QED BY <3>1 DEF Budget
  <2>5. Fit(u) \in Lists(Budget)
    BY <2>3, <2>4, ListWider
  <2> QED BY <2>1, <2>2, <2>3, <2>5
<1>6. tss \in Lists(Lists(Budget)) /\ Len(tss) = Len(ps)
  <2>1. PICK n \in Nat : n = Len(ps)
    BY <1>4
  <2>2. tss = [i \in 1 .. n |-> tss[i]] /\ \A i \in 1 .. n : tss[i] \in Lists(Budget)
    BY <1>3, <1>4, <1>5, <2>1
  <2> QED BY <2>1, <2>2, ListOf
<1>7. Join(tss) \in Lists(Budget)
  BY <1>6, JoinType
<1>8. Join(tss) # <<>>
  <2>1. 1 \in 1 .. Len(tss)
    BY <1>4, <1>6
  <2>2. tss[1] # <<>>
    BY <1>5, <1>6, <2>1
  <2> QED BY <1>6, <2>1, <2>2, JoinSome
<1>9. ASSUME Join(tss) \in Lists(Some) PROVE Join(Join(tss)) = t
  <2>1. \A i \in 1 .. Len(ps) : tss[i] \in Lists(Some)
    BY <1>6, <1>9, JoinParts
  <2>2. \A i \in 1 .. Len(ps) : Join(tss[i]) = ps[i]
    BY <1>5, <2>1
  <2>3. js = ps
    <3>1. DOMAIN tss = 1 .. Len(ps)
      BY <1>3, <1>4
    <3>2. ps = [i \in 1 .. Len(ps) |-> ps[i]]
      BY <1>2, ListIs
    <3> QED BY <2>2, <3>1, <3>2
  <2>4. Budget \subseteq Lists(Atom)
    BY TextIs DEF Budget
  <2>5. Lists(Budget) \subseteq Lists(Lists(Atom))
    BY <2>4, ListWider
  <2>6. tss \in Lists(Lists(Lists(Atom)))
    BY <1>6, <2>5, ListWider
  <2>7. Join(Join(tss)) = Join(js)
    BY <2>6, JoinJoin
  <2> QED BY <1>2, <2>3, <2>7
<1> QED BY <1>7, <1>8, <1>9 DEF Fitted, tss, ps

LEMMA GroupTextIs ==
  ASSUME NEW ss \in Lists(Sections), NEW g \in Lists(Nat), \A j \in 1 .. Len(g) : g[j] \in 1 .. Len(ss)
  PROVE  GroupText(ss, g) \in Text
<1> DEFINE ts == [i \in DOMAIN g |-> ss[g[i]].text]
<1>1. DOMAIN g = 1 .. Len(g) /\ Len(g) \in Nat
  BY ListIs
<1>2. \A i \in 1 .. Len(g) : ts[i] \in Lists(Atom)
  <2>1. ASSUME NEW i \in 1 .. Len(g) PROVE ss[g[i]] \in Sections
    <3>1. PICK k \in 1 .. Len(ss) : k = g[i]
      OBVIOUS
    <3>2. ss[k] \in Sections
      BY ListIs
    <3> QED BY <3>1, <3>2
  <2> QED BY <1>1, <2>1, TextIs DEF Sections
<1>3. ts \in Lists(Lists(Atom))
  <2>1. PICK n \in Nat : n = Len(g)
    BY <1>1
  <2>2. ts = [i \in 1 .. n |-> ts[i]]
    BY <1>1, <2>1
  <2> HIDE DEF ts
  <2>3. \A i \in 1 .. n : ts[i] \in Lists(Atom)
    BY <1>2, <2>1
  <2> QED BY <2>2, <2>3, ListOf
<1> HIDE DEF ts
<1>4. Join(ts) \in Text
  BY <1>3, JoinType, TextIs
<1> QED BY <1>4 DEF GroupText, ts

Segs == [text : Budget, group : Lists(Nat)]

\* Each segment is of one group, groups follow each other, and none is without.
Segmented(segs, gs, home) ==
  /\ segs \in Lists(Segs)
  /\ \A i \in 1 .. Len(segs) : home[i] \in 1 .. Len(gs) /\ segs[i].group = gs[home[i]]
  /\ \A i, j \in 1 .. Len(segs) : i <= j => home[i] <= home[j]
  /\ \A a \in 1 .. Len(gs) : \E i \in 1 .. Len(segs) : home[i] = a

\* What the segments of a group hold.
Of(segs, g) == [i \in DOMAIN segs |-> IF segs[i].group = g THEN segs[i].text ELSE <<>>]

\* Segments are cut from the groups in order, and none is lost unless refused.
LEMMA SegmentsAre ==
  ASSUME NEW ss \in Lists(Sections)
  PROVE  \E home :
           /\ Segmented(Segments(ss), Groups(ss), home)
           /\ (\A i \in 1 .. Len(Segments(ss)) : Segments(ss)[i].text # <<>>)
                => \A a \in 1 .. Len(Groups(ss)) :
                     Join(Of(Segments(ss), Groups(ss)[a])) = GroupText(ss, Groups(ss)[a])
<1> DEFINE gs == Groups(ss)
           G == Len(gs)
           ts == [a \in 1 .. G |-> Fitted(GroupText(ss, gs[a]))]
           tss == [a \in 1 .. G |-> Grouped(ts[a], gs[a])]
           w == Segments(ss)
<1>1. Grouping(gs, ss, Len(ss))
  BY GroupsAre
<1> HIDE DEF gs
<1>2. gs \in Lists(Lists(Nat)) /\ G \in Nat /\ DOMAIN gs = 1 .. G /\ \A a \in 1 .. G : gs[a] \in Lists(Nat)
  BY <1>1, ListIs DEF Grouping
<1>3. w = Join(tss)
  <2>1. w = Join([a \in 1 .. G |-> Grouped(Join(Each(Fit, Segment(GroupText(ss, gs[a]), Available))), gs[a])])
    BY <1>2 DEF Segments, Each, gs
  <2>2. [a \in 1 .. G |-> Grouped(Join(Each(Fit, Segment(GroupText(ss, gs[a]), Available))), gs[a])]
        = [a \in 1 .. G |-> Grouped(Fitted(GroupText(ss, gs[a])), gs[a])]
    BY DEF Fitted
  <2>3. tss = [a \in 1 .. G |-> Grouped(Fitted(GroupText(ss, gs[a])), gs[a])]
    OBVIOUS
  <2> QED BY <2>1, <2>2, <2>3
<1>4. ASSUME NEW a \in 1 .. G
      PROVE  /\ GroupText(ss, gs[a]) \in Text
             /\ ts[a] \in Lists(Budget) /\ ts[a] # <<>>
             /\ ts[a] \in Lists(Some) => Join(ts[a]) = GroupText(ss, gs[a])
  <2>1. PICK g \in Lists(Nat) : g = gs[a]
    BY <1>2
  <2>2. \A j \in 1 .. Len(g) : g[j] \in 1 .. Len(ss)
    BY <1>1, <2>1 DEF Grouping
  <2>3. PICK t \in Text : t = GroupText(ss, g)
    BY <2>2, GroupTextIs
  <2>4. ts[a] = Fitted(t)
    BY <2>1, <2>3
  <2> HIDE DEF ts
  <2>5. /\ Fitted(t) \in Lists(Budget) /\ Fitted(t) # <<>>
        /\ Fitted(t) \in Lists(Some) => Join(Fitted(t)) = t
    BY FittedIs
  <2> QED BY <2>1, <2>3, <2>4, <2>5
<1> HIDE DEF ts
<1>5. ASSUME NEW a \in 1 .. G
      PROVE  /\ tss[a] \in Lists(Segs) /\ Len(tss[a]) = Len(ts[a]) /\ Len(ts[a]) \in Nat /\ Len(ts[a]) # 0
             /\ \A j \in 1 .. Len(ts[a]) :
                  tss[a][j].text = ts[a][j] /\ tss[a][j].group = gs[a] /\ ts[a][j] \in Budget
  <2>1. PICK l \in Lists(Budget) : l = ts[a] /\ l # <<>>
    BY <1>4
  <2>2. DOMAIN l = 1 .. Len(l) /\ Len(l) \in Nat /\ Len(l) # 0 /\ \A j \in 1 .. Len(l) : l[j] \in Budget
    BY <2>1, ListIs
  <2> DEFINE s == tss[a]
             g == gs[a]
  <2>3. s = [j \in 1 .. Len(l) |-> [text |-> l[j], group |-> g]]
    BY <2>1, <2>2 DEF Grouped
  <2>4. g \in Lists(Nat)
    BY <1>2
  <2> HIDE DEF s, g
  <2>5. ASSUME NEW j \in 1 .. Len(l) PROVE s[j] \in Segs /\ s[j].text = l[j] /\ s[j].group = g
    BY <2>2, <2>3, <2>4 DEF Segs
  <2>6. s \in Lists(Segs) /\ Len(s) = Len(l)
    <3>1. PICK n \in Nat : n = Len(l)
      BY <2>2
    <3>2. s = [i \in 1 .. n |-> s[i]] /\ \A i \in 1 .. n : s[i] \in Segs
      BY <2>3, <2>5, <3>1
    <3> QED BY <3>1, <3>2, ListOf
  <2> QED BY <2>1, <2>2, <2>5, <2>6 DEF s, g
<1>6. tss \in Lists(Lists(Segs)) /\ Len(tss) = G /\ DOMAIN tss = 1 .. G
  <2>1. tss = [a \in 1 .. G |-> tss[a]] /\ DOMAIN tss = 1 .. G
    OBVIOUS
  <2> HIDE DEF tss, G
  <2> QED BY <1>2, <1>5, <2>1, ListOf
<1> HIDE DEF tss
<1>7. w \in Lists(Segs)
  BY <1>3, <1>6, JoinType
<1>8. PICK at, home : Places(tss, at, home)
  BY <1>6, JoinPlaces
<1> HIDE DEF w
<1>9. /\ \A k \in 1 .. G : at[k] = at[k - 1] + Len(ts[k])
      /\ at[0] = 0 /\ at[G] = Len(w) /\ \A k \in 0 .. G : at[k] \in Nat
  BY <1>3, <1>5, <1>6, <1>8 DEF Places
<1>10. ASSUME NEW i \in 1 .. Len(w)
       PROVE  \E a \in 1 .. G : \E j \in 1 .. Len(ts[a]) :
                /\ a = home[i] /\ i = at[a - 1] + j
                /\ w[i].text = ts[a][j] /\ w[i].group = gs[a]
  <2>1. /\ home[i] \in 1 .. G /\ i - at[home[i] - 1] \in 1 .. Len(tss[home[i]])
        /\ w[i] = tss[home[i]][i - at[home[i] - 1]]
    BY <1>3, <1>6, <1>8 DEF Places
  <2>2. PICK a \in 1 .. G : a = home[i]
    BY <2>1
  <2>3. PICK j \in 1 .. Len(ts[a]) : j = i - at[a - 1]
    BY <1>5, <2>1, <2>2
  <2>4. at[a - 1] \in Nat
    <3>1. a - 1 \in 0 .. G
      BY <1>2
    <3> QED BY <1>9, <3>1
  <2>5. i = at[a - 1] + j
    <3>1. i \in Int /\ j \in Int
      <4>1. Len(w) \in Nat
        BY <1>7, ListIs
      <4>2. Len(ts[a]) \in Nat
        BY <1>5
      <4> QED BY <4>1, <4>2
    <3> QED BY <2>3, <2>4, <3>1
  <2>6. w[i].text = ts[a][j] /\ w[i].group = gs[a]
    BY SMTT(30), <1>5, <2>1, <2>2, <2>3
  <2> QED BY <2>2, <2>5, <2>6
<1>11. ASSUME NEW a \in 1 .. G, NEW j \in 1 .. Len(ts[a])
       PROVE  /\ at[a - 1] + j \in 1 .. Len(w) /\ home[at[a - 1] + j] = a
              /\ w[at[a - 1] + j].text = ts[a][j] /\ w[at[a - 1] + j].group = gs[a]
  <2>1. /\ at[a - 1] + j \in 1 .. Len(w) /\ home[at[a - 1] + j] = a
        /\ w[at[a - 1] + j] = tss[a][j]
    BY <1>3, <1>5, <1>6, <1>8 DEF Places
  <2> QED BY <1>5, <2>1
<1>12. Segmented(w, gs, home)
  <2>1. \A i \in 1 .. Len(w) : home[i] \in 1 .. G /\ w[i].group = gs[home[i]]
    BY <1>10
  <2>2. \A i, j \in 1 .. Len(w) : i <= j => home[i] <= home[j]
    BY <1>3, <1>8 DEF Places
  <2>3. ASSUME NEW a \in 1 .. G PROVE \E i \in 1 .. Len(w) : home[i] = a
    <3>1. 1 \in 1 .. Len(ts[a])
      BY <1>5
    <3> QED BY <1>11, <3>1
  <2> QED BY <1>7, <2>1, <2>2, <2>3 DEF Segmented
<1>13. ASSUME \A i \in 1 .. Len(w) : w[i].text # <<>>, NEW a \in 1 .. G
       PROVE  Join(Of(w, gs[a])) = GroupText(ss, gs[a])
  <2> DEFINE none == <<>>
             blank(b) == [j \in 1 .. Len(ts[b]) |-> none]
             qss == [b \in 1 .. G |-> IF b = a THEN ts[b] ELSE blank(b)]
             o == Of(w, gs[a])
             js == [b \in DOMAIN qss |-> Join(qss[b])]
  <2>1. \A b \in 1 .. G : b # a => gs[b] # gs[a]
    <3>1. \A b \in 1 .. G : Len(gs[b]) # 0 /\ Len(gs[b]) \in Nat
      BY <1>1, <1>2, ListIs DEF Grouping
    <3>2. \A b, c \in 1 .. G : b < c => \A j \in 1 .. Len(gs[b]) : \A k \in 1 .. Len(gs[c]) : gs[b][j] < gs[c][k]
      BY <1>1 DEF Grouping
    <3>3. ASSUME NEW b \in 1 .. G, NEW c \in 1 .. G, b < c PROVE gs[b] # gs[c]
      <4>1. 1 \in 1 .. Len(gs[b]) /\ 1 \in 1 .. Len(gs[c])
        BY <3>1
      <4>2. gs[b][1] < gs[c][1]
        BY <3>2, <3>3, <4>1
      <4>3. gs[b][1] \in Nat
        <5>1. gs[b] \in Lists(Nat)
          BY <1>2
        <5> QED BY <4>1, <5>1, ListIs
      <4> QED BY <4>2, <4>3
    <3>4. ASSUME NEW b \in 1 .. G, b # a PROVE b < a \/ a < b
      BY <1>2, <3>4
    <3> QED BY <3>3, <3>4
  <2>2. ts[a] \in Lists(Some) /\ Join(ts[a]) = GroupText(ss, gs[a]) /\ ts[a] \in Lists(Text)
    <3>1. PICK l \in Lists(Budget) : l = ts[a]
      BY <1>4
    <3>2. ASSUME NEW j \in 1 .. Len(l) PROVE l[j] \in Some
      <4>1. l[j] \in Budget
        BY ListIs
      <4>2. l[j] # <<>>
        BY SMTT(30), <1>11, <1>13, <3>1
      <4> QED BY <4>1, <4>2 DEF Budget, Some
    <3>3. l \in Lists(Some)
      <4>1. PICK n \in Nat : n = Len(l) /\ l = [i \in 1 .. n |-> l[i]]
        BY ListIs
      <4> QED BY <3>2, <4>1, ListOf
    <3>4. Some \subseteq Text
      BY DEF Some
    <3>5. l \in Lists(Text)
      BY <3>3, <3>4, ListWider
    <3> QED BY <1>4, <3>1, <3>3, <3>5
  <2>3. ASSUME NEW b \in 1 .. G
        PROVE  /\ qss[b] \in Lists(Text) /\ Len(qss[b]) = Len(ts[b])
               /\ b # a => \A j \in 1 .. Len(ts[b]) : qss[b][j] = none
               /\ Join(qss[b]) = IF b = a THEN GroupText(ss, gs[a]) ELSE none
    <3>1. CASE b = a
      <4>1. qss[b] = ts[a]
        BY <3>1
      <4> HIDE DEF qss, none
      <4> QED BY <2>2, <3>1, <4>1
    <3>2. CASE b # a
      <4>1. qss[b] = blank(b)
        BY <3>2
      <4>2. PICK n \in Nat : n = Len(ts[b])
        BY <1>5
      <4> DEFINE l == blank(b)
      <4>3. l = [j \in 1 .. n |-> l[j]] /\ \A j \in 1 .. n : l[j] = none
        BY <4>2
      <4> HIDE DEF l, qss
      <4>4. none \in Text
        BY RequestEmpty
      <4> HIDE DEF none
      <4>5. l \in Lists(Text) /\ Len(l) = n
        BY <4>3, <4>4, ListOf
      <4>6. Join(l) = none
        <5>1. l \in Lists(Lists(Atom)) /\ \A j \in 1 .. Len(l) : l[j] = <<>>
          BY <4>3, <4>5, TextIs DEF none
        <5> QED BY <5>1, JoinBlanks DEF none
      <4> QED BY <3>2, <4>1, <4>2, <4>3, <4>5, <4>6 DEF l
    <3> QED BY <3>1, <3>2
  <2>4. qss \in Lists(Lists(Text)) /\ Len(qss) = G /\ DOMAIN qss = 1 .. G
    <3>1. qss = [b \in 1 .. G |-> qss[b]] /\ DOMAIN qss = 1 .. G
      OBVIOUS
    <3> HIDE DEF qss, G
    <3> QED BY <1>2, <2>3, <3>1, ListOf
  <2>5. ASSUME NEW b \in 1 .. G, NEW j \in 1 .. Len(ts[b])
        PROVE  qss[b][j] = IF b = a THEN ts[b][j] ELSE none
    <3>1. CASE b = a
      BY <3>1
    <3>2. CASE b # a
      <4> HIDE DEF qss, none
      <4> QED BY <2>3, <3>2
    <3> QED BY <3>1, <3>2
  <2> HIDE DEF qss, none
  <2>6. PICK qat, qhome : Places(qss, qat, qhome)
    BY <2>4, JoinPlaces
  <2>7. \A k \in 0 .. G : qat[k] = at[k]
    <3>1. qat[0] = at[0]
      BY <1>9, <2>6 DEF Places
    <3>2. ASSUME NEW k \in 1 .. G, qat[k - 1] = at[k - 1] PROVE qat[k] = at[k]
      <4>1. qat[k] = qat[k - 1] + Len(qss[k])
        BY <2>4, <2>6 DEF Places
      <4>2. Len(qss[k]) = Len(ts[k])
        BY <2>3
      <4>3. at[k] = at[k - 1] + Len(ts[k])
        BY <1>9
      <4> QED BY <3>2, <4>1, <4>2, <4>3
    <3> HIDE DEF G
    <3> QED BY <1>2, <3>1, <3>2, LoopUnique
  <2> DEFINE q == Join(qss)
  <2>8. q \in Lists(Text) /\ Len(q) = Len(w)
    <3>1. q \in Lists(Text)
      BY <2>4, JoinType
    <3>2. Len(q) = qat[G]
      BY <2>4, <2>6 DEF Places
    <3>3. G \in 0 .. G
      BY <1>2
    <3> QED BY <1>9, <2>7, <3>1, <3>2, <3>3
  <2>9. ASSUME NEW i \in 1 .. Len(w) PROVE q[i] = o[i]
    <3>1. PICK b \in 1 .. G : \E j \in 1 .. Len(ts[b]) :
            /\ b = home[i] /\ i = at[b - 1] + j
            /\ w[i].text = ts[b][j] /\ w[i].group = gs[b]
      BY <1>10
    <3>2. PICK j \in 1 .. Len(ts[b]) :
            /\ i = at[b - 1] + j
            /\ w[i].text = ts[b][j] /\ w[i].group = gs[b]
      BY <3>1
    <3>3. b - 1 \in 0 .. G
      BY <1>2
    <3>4. qat[b - 1] + j = i
      BY <2>7, <3>2, <3>3
    <3>5. q[qat[b - 1] + j] = qss[b][j]
      <4>1. j \in 1 .. Len(qss[b])
        BY <2>3
      <4> QED BY <2>4, <2>6, <4>1 DEF Places
    <3>6. q[i] = IF b = a THEN ts[b][j] ELSE none
      BY <2>5, <3>4, <3>5
    <3>7. o[i] = IF w[i].group = gs[a] THEN w[i].text ELSE none
      <4>1. DOMAIN w = 1 .. Len(w)
        BY <1>7, ListIs
      <4> QED BY <4>1 DEF Of, none
    <3> QED BY <2>1, <3>2, <3>6, <3>7
  <2>10. o = q
    <3>1. DOMAIN w = 1 .. Len(w)
      BY <1>7, ListIs
    <3>2. o = [i \in 1 .. Len(w) |-> o[i]]
      BY <3>1 DEF Of
    <3>3. q = [i \in 1 .. Len(w) |-> q[i]]
      <4> HIDE DEF q
      <4>1. q = [i \in 1 .. Len(q) |-> q[i]]
        BY <2>8, ListIs
      <4> QED BY <2>8, <4>1
    <3> HIDE DEF o, q
    <3> QED BY <2>9, <3>2, <3>3
  <2>11. Join(q) = Join(js) /\ js \in Lists(Lists(Atom)) /\ Len(js) = G
    <3>1. qss \in Lists(Lists(Lists(Atom)))
      BY <2>4, TextIs
    <3> QED BY <2>4, <3>1, JoinJoin
  <2>12. Join(js) = js[a]
    <3>1. \A b \in 1 .. G : b # a => js[b] = none
      BY <2>3, <2>4
    <3>2. \A b \in 1 .. Len(js) : b # a => js[b] = <<>>
      BY <2>11, <3>1 DEF none
    <3>3. a \in 1 .. Len(js)
      BY <2>11
    <3> HIDE DEF js, G
    <3> QED BY <2>11, <3>2, <3>3, JoinSingle
  <2>13. js[a] = GroupText(ss, gs[a])
    BY <2>3, <2>4
  <2> QED BY <2>10, <2>11, <2>12, <2>13
<1>14. (\A i \in 1 .. Len(w) : w[i].text # <<>>)
         => \A a \in 1 .. G : Join(Of(w, gs[a])) = GroupText(ss, gs[a])
  BY <1>13
<1> HIDE DEF G
<1> QED BY <1>12, <1>14 DEF w, gs, G

-----------------------------------------------------------------------------
(* The plan of a document.                                                 *)

LEMMA SourceSingle ==
  ASSUME NEW s \in Sections
  PROVE  <<s>> \in Lists(Sections) /\ Len(<<s>>) = 1 /\ <<s>>[1] = s /\ Source(<<s>>) = s.text
<1>1. <<s>> \in Lists(Sections) /\ Len(<<s>>) = 1 /\ <<s>>[1] = s
  BY OneIs
<1>2. <<>> \in Lists(Sections)
  BY NoneIs
<1>3. Append(<<>>, s) = <<s>>
  OBVIOUS
<1>4. Source(Append(<<>>, s)) = Source(<<>>) \o s.text
  BY <1>2, SourceAppend
<1>5. s.text \in Lists(Atom)
  BY TextIs DEF Sections
<1>6. <<>> \o s.text = s.text
  BY <1>5, ConcatNone
<1> QED BY <1>1, <1>3, <1>4, <1>6, SourceNone

LEMMA SegsAre ==
  ASSUME NEW ts \in Lists(Budget), NEW g \in Lists(Nat)
  PROVE  /\ Grouped(ts, g) \in Lists(Segs) /\ Len(Grouped(ts, g)) = Len(ts)
         /\ \A i \in 1 .. Len(ts) : Grouped(ts, g)[i].text = ts[i] /\ Grouped(ts, g)[i].group = g
<1> DEFINE s == Grouped(ts, g)
<1>1. DOMAIN ts = 1 .. Len(ts) /\ Len(ts) \in Nat /\ \A i \in 1 .. Len(ts) : ts[i] \in Budget
  BY ListIs
<1>2. s = [i \in 1 .. Len(ts) |-> [text |-> ts[i], group |-> g]]
  BY <1>1 DEF Grouped
<1> HIDE DEF s
<1>3. ASSUME NEW i \in 1 .. Len(ts) PROVE s[i] \in Segs /\ s[i].text = ts[i] /\ s[i].group = g
  BY <1>1, <1>2 DEF Segs
<1>4. s \in Lists(Segs) /\ Len(s) = Len(ts)
  <2>1. PICK n \in Nat : n = Len(ts)
    BY <1>1
  <2>2. s = [i \in 1 .. n |-> s[i]] /\ \A i \in 1 .. n : s[i] \in Segs
    BY <1>2, <1>3, <2>1
  <2> QED BY <2>1, <2>2, ListOf
<1> QED BY <1>3, <1>4 DEF s

LEMMA JsonPieces ==
  ASSUME NEW t \in Text, IsJson(t)
  PROVE  LET ts == IF Len(t) > Available THEN <<(<<>>)>> ELSE Fit(t)
         IN /\ ts \in Lists(Budget) /\ ts \in Lists({t, <<>>}) /\ ts # <<>>
            /\ ts \in Lists(Some) => Join(ts) = t
<1> DEFINE none == <<>>
           ts == IF Len(t) > Available THEN <<none>> ELSE Fit(t)
<1>0. PICK avail \in Nat \ {0} : avail = Available
  BY AvailableIs
<1>1. Len(t) \in Nat
  BY RequestIs
<1>2. CASE Len(t) > Available
  <2>1. ts = <<none>>
    BY <1>2
  <2>2. none \in Budget
    <3>1. none \in Text /\ Len(none) = 0 /\ Request(none) < Capacity /\ Request(none) = Framing
      BY RequestEmpty, NoneIs
    <3>2. 0 <= avail
      OBVIOUS
    <3>3. Request(none) <= Capacity
      BY <3>1, PlanAssumption
    <3> HIDE DEF none
    <3> QED BY <1>0, <3>1, <3>2, <3>3 DEF Budget
  <2>3. none \in {t, <<>>}
    OBVIOUS
  <2>4. none \notin Some
    BY DEF Some
  <2> HIDE DEF none, ts
  <2>5. <<none>> \in Lists(Budget) /\ <<none>> \in Lists({t, <<>>}) /\ Len(<<none>>) = 1 /\ <<none>>[1] = none
    BY <2>2, <2>3, OneIs
  <2>6. <<none>> # <<>>
    BY <2>5, ListIs
  <2>7. <<none>> \notin Lists(Some)
    <3>1. ASSUME <<none>> \in Lists(Some) PROVE <<none>>[1] \in Some
      <4>1. 1 \in 1 .. Len(<<none>>)
        BY <2>5
      <4> QED BY <3>1, <4>1, ListIs
    <3> QED BY <2>4, <2>5, <3>1
  <2>8. /\ ts \in Lists(Budget) /\ ts \in Lists({t, <<>>}) /\ ts # <<>>
        /\ ts \in Lists(Some) => Join(ts) = t
    BY <2>1, <2>5, <2>6, <2>7
  <2> QED BY <2>8 DEF ts, none
<1>3. CASE ~(Len(t) > Available)
  <2>1. ts = Fit(t) /\ Len(t) <= avail
    BY <1>0, <1>1, <1>3
  <2> HIDE DEF ts
  <2>2. /\ Fit(t) \in Lists({v \in Text : Len(v) <= Len(t) /\ Request(v) <= Capacity})
        /\ Fit(t) # <<>> /\ (Fit(t) \in Lists(Some) => Join(Fit(t)) = t)
    BY FitJoins
  <2>3. {v \in Text : Len(v) <= Len(t) /\ Request(v) <= Capacity} \subseteq Budget
    <3>1. ASSUME NEW v \in Text, Len(v) <= Len(t) PROVE Len(v) <= Available
      <4>1. Len(v) \in Nat /\ Len(t) \in Nat
        BY RequestIs
      <4> QED BY <1>0, <2>1, <3>1, <4>1
    <3> QED BY <3>1 DEF Budget
  <2>4. Fit(t) \in Lists(Budget)
    BY <2>2, <2>3, ListWider
  <2>5. Fit(t) \in Lists({t, <<>>})
    BY FitJson
  <2>6. /\ ts \in Lists(Budget) /\ ts \in Lists({t, <<>>}) /\ ts # <<>>
        /\ ts \in Lists(Some) => Join(ts) = t
    BY <2>1, <2>2, <2>4, <2>5
  <2> QED BY <2>6 DEF ts, none
<1> QED BY <1>2, <1>3

\* The plan p of the document d, its groups gs and the group home[i] of segment i.
Planned(d, p, gs, home) ==
  /\ p.sections \in Lists(Sections) /\ Source(p.sections) = p.explicit
  /\ Grouping(gs, p.sections, Len(p.sections)) /\ Segmented(p.segments, gs, home)
  /\ Plannable(p) => \A a \in 1 .. Len(gs) : Join(Of(p.segments, gs[a])) = GroupText(p.sections, gs[a])
  /\ IsJson(d) /\ Plannable(p) => \A i \in 1 .. Len(p.segments) : p.segments[i].text = d
  /\ ~IsJson(d) => /\ Laid(p.sections)
                   /\ \A k \in 1 .. Len(p.sections) : p.sections[k].para # 0 =>
                        \E a \in Nat, b \in Nat :
                          p.originals[p.sections[k].para] = <<a + 1, b>> /\ a <= b /\ b <= Len(d)

LEMMA OriginalsAre ==
  ASSUME NEW ss \in Lists(Sections), NEW k \in 1 .. Len(ss), ss[k].para # 0
  PROVE  \E a \in Nat, b \in Nat :
           Originals(ss)[ss[k].para] = <<a + 1, b>> /\ a <= b /\ b <= Len(Source(ss))
<1> DEFINE q == ss[k].para
           i == CHOOSE j \in DOMAIN ss : ss[j].para = q
           a == Offset(ss, i)
           b == Offset(ss, i + 1)
<1>1. DOMAIN ss = 1 .. Len(ss) /\ Len(ss) \in Nat
  BY ListIs
<1>2. i \in 1 .. Len(ss)
  BY <1>1
<1>3. q \in {ss[j].para : j \in DOMAIN ss} \ {0}
  BY <1>1
<1>4. Originals(ss)[q] = <<a + 1, b>>
  BY <1>3 DEF Originals
<1> HIDE DEF q
<1> HIDE DEF i
<1>6. PICK n \in 1 .. Len(ss) : n = i
  BY <1>2
<1>5. PICK m \in Nat : m = n - 1 /\ m + 1 = n /\ m = i - 1 /\ m + 1 <= Len(ss) /\ i + 1 - 1 = n /\ n \in Nat
  BY <1>1, <1>6
<1>7. PICK x \in Text, y \in Text :
        Source(SubSeq(ss, 1, n)) = x \o y /\ x = Source(SubSeq(ss, 1, m))
  <2>1. 1 \in Nat /\ 1 <= 1 /\ 1 <= m + 1 /\ m <= n /\ n <= Len(ss)
    BY <1>5, <1>6
  <2>2. /\ Source(SubSeq(ss, 1, n)) = Source(SubSeq(ss, 1, m)) \o Source(SubSeq(ss, m + 1, n))
        /\ Source(SubSeq(ss, 1, m)) \in Text /\ Source(SubSeq(ss, m + 1, n)) \in Text
    BY <1>5, <2>1, SourceCut
  <2> QED BY <2>2
<1>8. PICK z \in Text, r \in Text :
        Source(SubSeq(ss, 1, Len(ss))) = z \o r /\ z = Source(SubSeq(ss, 1, n))
  <2>1. PICK l \in Nat : l = Len(ss)
    BY <1>1
  <2>2. 1 \in Nat /\ 1 <= 1 /\ 1 <= n + 1 /\ n <= l /\ l <= Len(ss)
    BY <1>5, <1>6, <2>1
  <2>3. /\ Source(SubSeq(ss, 1, l)) = Source(SubSeq(ss, 1, n)) \o Source(SubSeq(ss, n + 1, l))
        /\ Source(SubSeq(ss, 1, n)) \in Text /\ Source(SubSeq(ss, n + 1, l)) \in Text
    BY <2>2, SourceCut
  <2> QED BY <2>1, <2>3
<1>9. a = Len(x) /\ b = Len(z)
  BY <1>5, <1>6, <1>7, <1>8 DEF Offset
<1> HIDE DEF a, b
<1>10. Len(x) \in Nat /\ Len(y) \in Nat /\ Len(r) \in Nat
  BY RequestIs
<1>11. Len(z) = Len(x) + Len(y)
  BY <1>7, <1>8, TextIs, ConcatIs
<1>12. Len(Source(ss)) = Len(z) + Len(r)
  BY <1>8, TextIs, ConcatIs, SourceAll
<1>13. a \in Nat /\ b \in Nat /\ a <= b /\ b <= Len(Source(ss))
  BY <1>9, <1>10, <1>11, <1>12
<1> QED BY <1>4, <1>13 DEF q

LEMMA PlanIs ==
  ASSUME NEW d \in Text
  PROVE  \E gs, home : Planned(d, Plan(d), gs, home)
<1> DEFINE first == PlanSections(d)
           explicit == Each(ExplicitReferences, first)
           p == Plan(d)
<1>1. first \in Lists(Sections) /\ Source(first) = d /\ Ranked(first)
  BY PlanSectionsAre
<1>2. p = PlanFrom(d, first, explicit)
  BY DEF Plan
<1> HIDE DEF first, p
<1>3. /\ explicit \in Lists(Sections) /\ Len(explicit) = Len(first)
      /\ \A i \in 1 .. Len(first) : /\ explicit[i].para = first[i].para
                                    /\ explicit[i].kind = first[i].kind
                                    /\ explicit[i].go = first[i].go
  BY <1>1, ExplicitAre
<1> HIDE DEF explicit
<1>4. Len(first) \in Nat /\ DOMAIN first = 1 .. Len(first) /\ \A i \in 1 .. Len(first) : first[i] \in Sections
  BY <1>1, ListIs
<1>5. CASE IsJson(d)
  <2> DEFINE go == \E i \in DOMAIN first : first[i].go
             s == [Head(first) EXCEPT !.text = d, !.go = go]
             ts == IF Len(d) > Available THEN <<(<<>>)>> ELSE Fit(d)
             none == <<>>
             g == <<1>>
             gs == IF go THEN <<g>> ELSE none
             home == [i \in 1 .. Len(p.segments) |-> 1]
  <2>1. p.sections = <<s>> /\ p.segments = (IF s.go THEN Grouped(ts, g) ELSE none) /\ p.explicit = d
    BY <1>2, <1>5 DEF PlanFrom, JsonPlan
  <2>2. s \in Sections /\ s.text = d /\ s.go = go
    <3>1. d # <<>>
      <4>1. ASSUME d = <<>> PROVE FALSE
        <5>1. DOMAIN d = {}
          BY <4>1
        <5> QED BY <1>5, <5>1 DEF IsJson
      <4> QED BY <4>1
    <3>2. first # <<>>
      BY <1>1, <3>1, SourceNone
    <3>3. Len(first) # 0
      BY <1>1, <3>2, ListIs
    <3>4. Head(first) = first[1] /\ 1 \in 1 .. Len(first)
      BY <1>4, <3>3 DEF Head
    <3>5. Head(first) \in Sections
      BY <1>4, <3>4
    <3>6. go \in BOOLEAN
      OBVIOUS
    <3> HIDE DEF go
    <3> QED BY <3>5, <3>6 DEF Sections
  <2> HIDE DEF go, s
  <2>3. p.sections \in Lists(Sections) /\ Len(p.sections) = 1 /\ p.sections[1] = s /\ Source(p.sections) = d
    BY <2>1, <2>2, SourceSingle
  <2>4. g \in Lists(Nat) /\ Len(g) = 1 /\ g[1] = 1
    BY OneIs
  <2>5. /\ gs \in Lists(Lists(Nat)) /\ (go => Len(gs) = 1 /\ gs[1] = g) /\ (~go => Len(gs) = 0)
    <3> HIDE DEF g
    <3>1. <<g>> \in Lists(Lists(Nat)) /\ Len(<<g>>) = 1 /\ <<g>>[1] = g
      BY <2>4, OneIs
    <3>2. none \in Lists(Lists(Nat)) /\ Len(none) = 0
      BY NoneIs
    <3> HIDE DEF none
    <3> QED BY <3>1, <3>2
  <2> HIDE DEF g, gs
  <2>12. \A a \in 1 .. Len(gs) : a = 1 /\ go
    <3>1. CASE go
      <4>1. Len(gs) = 1
        BY <2>5, <3>1
      <4>2. \A a \in 1 .. 1 : a = 1
        OBVIOUS
      <4> HIDE DEF ts, none, home
      <4>3. \A a \in 1 .. Len(gs) : a = 1
        BY <4>1, <4>2
      <4> QED BY <3>1, <4>3
    <3>2. CASE ~go
      <4>1. 1 .. Len(gs) = {}
        BY <2>5, <3>2
      <4> QED BY <4>1
    <3> QED BY <3>1, <3>2
  <2>6. Grouping(gs, p.sections, Len(p.sections))
    <3>1. \A a \in 1 .. Len(gs) : a = 1 /\ go /\ gs[a] = g
      BY <2>5, <2>12
    <3>2. \A j \in 1 .. Len(g) : j = 1 /\ g[j] = 1
      BY <2>4
    <3>3. \A a \in 1 .. Len(gs) :
            /\ Len(gs[a]) # 0
            /\ \A j \in 1 .. Len(gs[a]) :
                 /\ gs[a][j] \in 1 .. Len(p.sections) /\ gs[a][j] = gs[a][1] + j - 1
                 /\ p.sections[gs[a][j]].go /\ p.sections[gs[a][j]].para = p.sections[gs[a][1]].para
      BY <2>2, <2>3, <2>4, <3>1, <3>2
    <3>4. \A a, b \in 1 .. Len(gs) : ~(a < b)
      BY <3>1
    <3>5. \A k \in 1 .. Len(p.sections) : p.sections[k].go =>
             \E a \in 1 .. Len(gs) : \E j \in 1 .. Len(gs[a]) : gs[a][j] = k
      <4>1. ASSUME NEW k \in 1 .. Len(p.sections), p.sections[k].go
            PROVE \E a \in 1 .. Len(gs) : \E j \in 1 .. Len(gs[a]) : gs[a][j] = k
        <5>1. k = 1 /\ go
          BY <2>2, <2>3, <4>1
        <5>2. 1 \in 1 .. Len(gs) /\ 1 \in 1 .. Len(gs[1]) /\ gs[1][1] = 1
          BY <2>4, <2>5, <5>1
        <5> QED BY <5>1, <5>2
      <4> QED BY <4>1
    <3> QED BY <2>5, <3>3, <3>4, <3>5 DEF Grouping
  <2>7. ts \in Lists(Budget) /\ ts \in Lists({d, <<>>}) /\ ts # <<>> /\ (ts \in Lists(Some) => Join(ts) = d)
    BY <1>5, JsonPieces
  <2> HIDE DEF ts
  <2>8. Len(ts) \in Nat /\ Len(ts) # 0 /\ \A i \in 1 .. Len(ts) : ts[i] \in {d, <<>>} /\ ts[i] \in Budget
    BY <2>7, ListIs
  <2>9. /\ p.segments \in Lists(Segs)
        /\ \A i \in 1 .. Len(p.segments) : i \in 1 .. Len(ts) /\ go /\ p.segments[i].text = ts[i] /\ p.segments[i].group = g
        /\ go => Len(p.segments) = Len(ts)
    <3>1. CASE go
      <4>1. p.segments = Grouped(ts, g)
        BY <2>1, <2>2, <3>1
      <4>2. /\ Grouped(ts, g) \in Lists(Segs) /\ Len(Grouped(ts, g)) = Len(ts)
            /\ \A i \in 1 .. Len(ts) : Grouped(ts, g)[i].text = ts[i] /\ Grouped(ts, g)[i].group = g
        BY <2>4, <2>7, SegsAre
      <4> QED BY <3>1, <4>1, <4>2
    <3>2. CASE ~go
      <4>1. p.segments = none
        BY <2>1, <2>2, <3>2
      <4>2. none \in Lists(Segs) /\ Len(none) = 0
        BY NoneIs
      <4> HIDE DEF none
      <4>3. \A i \in 1 .. Len(p.segments) : FALSE
        BY <4>1, <4>2
      <4> QED BY <3>2, <4>1, <4>2, <4>3
    <3> QED BY <3>1, <3>2
  <2>10. Segmented(p.segments, gs, home)
    <3>1. \A i \in 1 .. Len(p.segments) : home[i] \in 1 .. Len(gs) /\ p.segments[i].group = gs[home[i]]
      BY <2>5, <2>9
    <3>2. \A i, j \in 1 .. Len(p.segments) : i <= j => home[i] <= home[j]
      OBVIOUS
    <3>3. \A a \in 1 .. Len(gs) : \E i \in 1 .. Len(p.segments) : home[i] = a
      <4>1. ASSUME NEW a \in 1 .. Len(gs) PROVE \E i \in 1 .. Len(p.segments) : home[i] = a
        <5>1. a = 1 /\ go
          BY <2>12, <4>1
        <5>2. 1 \in 1 .. Len(p.segments)
          BY <2>8, <2>9, <5>1
        <5> QED BY <5>1, <5>2
      <4> QED BY <4>1
    <3> HIDE DEF home
    <3> QED BY <2>9, <3>1, <3>2, <3>3 DEF Segmented
  <2>11. ASSUME Plannable(p)
         PROVE  /\ \A i \in 1 .. Len(p.segments) : p.segments[i].text = d
                /\ \A a \in 1 .. Len(gs) : Join(Of(p.segments, gs[a])) = GroupText(p.sections, gs[a])
    <3>1. DOMAIN p.segments = 1 .. Len(p.segments)
      BY <2>9, ListIs
    <3>2. \A i \in 1 .. Len(p.segments) : p.segments[i].text # <<>>
      BY <2>11, <3>1 DEF Plannable
    <3>3. \A i \in 1 .. Len(p.segments) : p.segments[i].text = d
      BY <2>8, <2>9, <3>2
    <3>4. ASSUME NEW a \in 1 .. Len(gs)
          PROVE  Join(Of(p.segments, gs[a])) = GroupText(p.sections, gs[a])
      <4>1. a = 1 /\ go /\ gs[a] = g /\ Len(p.segments) = Len(ts)
        <5>1. a = 1 /\ go
          BY <2>12, <3>4
        <5> QED BY <2>5, <2>9, <5>1
      <4> DEFINE o == Of(p.segments, g)
      <4>2. o = [i \in 1 .. Len(ts) |-> ts[i]]
        BY <2>9, <3>1, <4>1 DEF Of
      <4>3. ts = [i \in 1 .. Len(ts) |-> ts[i]]
        BY <2>7, ListIs
      <4> HIDE DEF o
      <4>4. o = ts
        BY <4>2, <4>3
      <4>5. ts \in Lists(Some)
        <5>1. PICK n \in Nat : n = Len(ts)
          BY <2>8
        <5>2. \A i \in 1 .. n : ts[i] \in Some
          BY <2>8, <2>9, <3>2, <4>1, <5>1 DEF Some
        <5>3. ts = [i \in 1 .. n |-> ts[i]]
          BY <4>3, <5>1
        <5> QED BY <5>2, <5>3, ListOf
      <4>6. Join(o) = d
        BY <2>7, <4>4, <4>5
      <4>7. GroupText(p.sections, g) = d
        <5>1. DOMAIN g = 1 .. 1
          BY <2>4, ListIs
        <5>2. [i \in DOMAIN g |-> p.sections[g[i]].text] = [i \in 1 .. 1 |-> d]
          BY <2>2, <2>3, <2>4, <5>1
        <5>3. [i \in 1 .. 1 |-> d] = <<d>>
          OBVIOUS
        <5>4. Join(<<d>>) = d
          BY JoinOne, TextIs
        <5> QED BY <5>2, <5>3, <5>4 DEF GroupText
      <4> QED BY <4>1, <4>6, <4>7 DEF o
    <3> QED BY <3>3, <3>4
  <2>13. Planned(d, p, gs, home)
    <3> HIDE DEF home
    <3> QED BY <1>5, <2>1, <2>3, <2>6, <2>10, <2>11 DEF Planned
  <2> QED BY <2>13 DEF p
<1>6. CASE ~IsJson(d)
  <2> DEFINE ss == SplitOwned(explicit, Coherent(first))
  <2>1. p.sections = ss /\ p.segments = Segments(ss) /\ p.explicit = Source(explicit) /\ p.originals = Originals(first)
    BY <1>2, <1>6 DEF PlanFrom, WithSegments
  <2>2. ss \in Lists(Sections) /\ Source(ss) = Source(explicit)
    BY <1>3, SplitOwnedIs
  <2>3. PICK from : From(ss, explicit, from)
    BY <1>3, SplitOwnedIs
  <2> HIDE DEF ss
  <2>4. Ranked(explicit)
    <3>1. \A i \in 1 .. Len(first) : \A j \in 1 .. i - 1 : j \in 1 .. Len(first)
      BY <1>4
    <3> QED BY <1>1, <1>3, <3>1 DEF Ranked
  <2>5. Laid(ss)
    BY <1>3, <2>2, <2>3, <2>4, LaidFrom
  <2>6. PICK home :
           /\ Segmented(Segments(ss), Groups(ss), home)
           /\ (\A i \in 1 .. Len(Segments(ss)) : Segments(ss)[i].text # <<>>)
                => \A a \in 1 .. Len(Groups(ss)) :
                     Join(Of(Segments(ss), Groups(ss)[a])) = GroupText(ss, Groups(ss)[a])
    BY <2>2, SegmentsAre
  <2>7. Grouping(Groups(ss), ss, Len(ss))
    BY <2>2, GroupsAre
  <2>8. ASSUME Plannable(p)
        PROVE  \A a \in 1 .. Len(Groups(ss)) : Join(Of(Segments(ss), Groups(ss)[a])) = GroupText(ss, Groups(ss)[a])
    <3>1. Segments(ss) \in Lists(Segs)
      BY <2>6 DEF Segmented
    <3>2. DOMAIN Segments(ss) = 1 .. Len(Segments(ss))
      BY <3>1, ListIs
    <3> QED BY <2>1, <2>6, <2>8, <3>2 DEF Plannable
  <2>9. ASSUME NEW k \in 1 .. Len(ss), ss[k].para # 0
        PROVE  \E a \in Nat, b \in Nat :
                 p.originals[ss[k].para] = <<a + 1, b>> /\ a <= b /\ b <= Len(d)
    <3>1. PICK i \in 1 .. Len(first) : ss[k].para = first[i].para
      BY <1>3, <2>3 DEF From
    <3>2. first[i].para # 0
      BY <2>9, <3>1
    <3>3. \E a \in Nat, b \in Nat :
             Originals(first)[first[i].para] = <<a + 1, b>> /\ a <= b /\ b <= Len(Source(first))
      BY <1>1, <3>2, OriginalsAre
    <3> QED BY <1>1, <2>1, <3>1, <3>3
  <2>10. Planned(d, p, Groups(ss), home)
    BY <1>6, <2>1, <2>2, <2>5, <2>6, <2>7, <2>8, <2>9 DEF Planned
  <2> QED BY <2>10 DEF p
<1> QED BY <1>5, <1>6

=============================================================================
