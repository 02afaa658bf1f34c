----------------------------- MODULE CodecProofs -----------------------------
(***************************************************************************)
(* The two parts of the code that undo what another program has encoded,   *)
(* proved for every input: the path of an OSD picture (OsdPicture) and the *)
(* play list of a movie (MovieList).  Both formats are the codes of their  *)
(* elements one after the other, which the models write with FlattenSeq,   *)
(* so that the proofs share what the first part says about it.             *)
(*                                                                         *)
(* The induction theorems of the library speak of an operator; here the    *)
(* same is said of a set of numbers, which the provers can instantiate.    *)
(***************************************************************************)
EXTENDS OsdPicture, MovieList, SequenceTheorems, WellFoundedInduction, TLAPS

-----------------------------------------------------------------------------
(* Induction, flattened sequences, quotients *)

\* The pairs of a number and a larger one.
Below == {p \in Nat \X Nat : p[1] < p[2]}

\* The order of the numbers is well founded.
LEMMA BelowWellFounded == IsWellFoundedOn(Below, Nat)
  BY NatLessThanWellFounded DEF OpToRel, Below

\* Induction over the natural numbers, for sets instead of predicates: a set
\* that has 0 and the successors of its elements has every number.  The
\* smallest number missing from it would have a predecessor that is not
\* missing.
LEMMA NatSetInduction ==
  ASSUME NEW S, 0 \in S, \A n \in Nat : n \in S => n + 1 \in S
  PROVE  \A n \in Nat : n \in S
<1> DEFINE T == Nat \ S
<1>1. SUFFICES ASSUME T # {} PROVE FALSE
  OBVIOUS
<1>2. PICK n \in T : \A m \in T : ~ (<<m, n>> \in Below)
  <2>1. T \subseteq Nat
    OBVIOUS
  <2>2. QED
    BY BelowWellFounded, <1>1, <2>1, WFMin
<1>3. n # 0 /\ n - 1 \in Nat /\ n - 1 < n
  OBVIOUS
<1>4. n - 1 \in S
  BY <1>2, <1>3 DEF Below
<1>5. QED
  BY <1>2, <1>3, <1>4

\* The same up to a bound: a set with 0 that is closed under the successor
\* within 0..n has all of 0..n.
LEMMA IntervalInduction ==
  ASSUME NEW n \in Nat, NEW S, 0 \in S,
         \A k \in 0..(n - 1) : k \in S => k + 1 \in S
  PROVE  \A k \in 0..n : k \in S
<1> DEFINE U == {k \in Nat : k \in 0..n => k \in S}
<1>1. 0 \in U
  OBVIOUS
<1>2. \A k \in Nat : k \in U => k + 1 \in U
  <2>1. ASSUME NEW k \in Nat, k \in 0..n => k \in S, k + 1 \in 0..n
        PROVE  k + 1 \in S
    <3>1. k \in 0..(n - 1) /\ k \in 0..n
      BY <2>1
    <3>2. QED
      BY <2>1, <3>1
  <2>2. QED
    BY <2>1
<1>3. \A k \in Nat : k \in U
  <2> HIDE DEF U
  <2>1. QED
    BY <1>1, <1>2, NatSetInduction
<1>4. QED
  BY <1>3

\* The function FlattenSeq chooses exists, for every sequence.
LEMMA FlatteningExists ==
  ASSUME NEW s, NEW n \in Nat
  PROVE  \E f : f = [k \in 1..n |-> IF k = 1 THEN s[k] ELSE f[k - 1] \o s[k]]
<1> DEFINE Step(f, k) == IF k = 1 THEN s[k] ELSE f[k - 1] \o s[k]
           S == {m \in Nat : \E f : f = [k \in 1..m |-> Step(f, k)]}
<1>1. 0 \in S
  <2>1. <<>> = [k \in 1..0 |-> Step(<<>>, k)]
    OBVIOUS
  <2>2. QED
    BY <2>1
<1>2. ASSUME NEW m \in Nat, m \in S PROVE m + 1 \in S
  <2>1. PICK f : f = [k \in 1..m |-> Step(f, k)]
    BY <1>2
  <2> DEFINE g == [k \in 1..(m + 1) |-> IF k <= m THEN f[k] ELSE Step(f, k)]
  <2>2. ASSUME NEW k \in 1..(m + 1) PROVE g[k] = Step(g, k)
    <3>1. \A l \in 1..m : f[l] = Step(f, l)
      <4> HIDE DEF Step
      <4>1. QED
        BY <2>1, Zenon
    <3>2. g[k] = Step(f, k)
      <4> HIDE DEF Step
      <4>1. QED
        BY <3>1
    <3>3. CASE k = 1
      BY <3>2, <3>3
    <3>4. CASE k # 1
      <4>1. k - 1 \in 1..m /\ g[k - 1] = f[k - 1]
        BY <3>4
      <4>2. QED
        BY <3>2, <3>4, <4>1
    <3>5. QED
      BY <3>3, <3>4
  <2>3. g = [k \in 1..(m + 1) |-> Step(g, k)]
    <3> HIDE DEF Step
    <3>1. QED
      BY <2>2
  <2>4. QED
    <3> HIDE DEF g, Step
    <3>1. QED
      BY <2>3
<1>3. \A m \in Nat : m \in S
  <2> HIDE DEF S
  <2>1. QED
    BY <1>1, <1>2, NatSetInduction
<1>4. QED
  BY <1>3

\* FlattenSeq joins its elements from the left: there are intermediate results,
\* each the one before it and one element more, and the last one is the result.
LEMMA FlattenByPrefix ==
  ASSUME NEW T, NEW s \in Seq(Seq(T))
  PROVE  \E f \in [0..Len(s) -> Seq(T)] :
           /\ f[0] = <<>>
           /\ \A k \in 1..Len(s) : f[k] = f[k - 1] \o s[k]
           /\ FlattenSeq(s) = f[Len(s)]
<1>1. CASE Len(s) = 0
  <2>1. s = <<>>
    BY <1>1
  <2>2. FlattenSeq(s) = <<>>
    BY <1>1, <2>1 DEF FlattenSeq
  <2> DEFINE f == [k \in 0..Len(s) |-> <<>>]
  <2>3. /\ f \in [0..Len(s) -> Seq(T)] /\ f[0] = <<>> /\ f[Len(s)] = <<>>
    BY <1>1
  <2>4. \A k \in 1..Len(s) : f[k] = f[k - 1] \o s[k]
    BY <1>1
  <2>5. QED
    BY <2>2, <2>3, <2>4
<1>2. CASE Len(s) # 0
  <2>0. Len(s) \in Nat /\ Len(s) >= 1
    BY <1>2
  <2> DEFINE n == Len(s)
             Rec(g) == g = [k \in 1..n |-> IF k = 1 THEN s[k] ELSE g[k - 1] \o s[k]]
             h == CHOOSE g : Rec(g)
  <2>1. FlattenSeq(s) = h[n]
    BY <1>2, Zenon DEF FlattenSeq
  <2>2. \E g : Rec(g)
    BY <2>0, FlatteningExists
  <2>3. Rec(h)
    <3> HIDE DEF Rec
    <3>1. QED
      BY <2>2
  <2>4. h[1] = s[1] /\ \A k \in 2..n : h[k] = h[k - 1] \o s[k]
    <3> HIDE DEF h
    <3>1. \A k \in 1..n : h[k] = IF k = 1 THEN s[k] ELSE h[k - 1] \o s[k]
      BY <2>3, Zenon
    <3>2. 1 \in 1..n /\ \A k \in 2..n : k \in 1..n /\ k # 1
      BY <2>0
    <3> HIDE DEF n
    <3>3. QED
      BY <3>1, <3>2, Zenon
  <2> HIDE DEF h
  <2> DEFINE f == [k \in 0..n |-> IF k = 0 THEN <<>> ELSE h[k]]
  <2>5. \A k \in 1..n : s[k] \in Seq(T)
    OBVIOUS
  <2>6. ASSUME NEW k \in 1..n PROVE f[k] = f[k - 1] \o s[k]
    <3>1. CASE k = 1
      <4>1. f[k] = h[1] /\ f[k - 1] = <<>>
        BY <3>1
      <4> HIDE DEF f
      <4>2. f[k] = s[k] /\ s[k] \in Seq(T)
        BY <2>4, <2>5, <3>1, <4>1, Zenon
      <4>3. QED
        BY <4>1, <4>2, ConcatEmptySeq, Zenon
    <3>2. CASE k # 1
      <4>1. k \in 2..n /\ f[k] = h[k] /\ f[k - 1] = h[k - 1]
        BY <3>2
      <4>2. QED
        BY <2>4, <4>1, Zenon
    <3>3. QED
      BY <3>1, <3>2
  <2>7. f[0] = <<>> /\ f[n] = h[n] /\ DOMAIN f = 0..n
    BY <2>0
  <2>7a. f = [k \in 0..n |-> f[k]]
    OBVIOUS
  <2> HIDE DEF f
  <2>8. \A k \in Nat : k \in 0..n => f[k] \in Seq(T)
    <3> DEFINE S == {k \in Nat : k \in 0..n => f[k] \in Seq(T)}
    <3>1. 0 \in S
      <4>1. f[0] \in Seq(T) /\ 0 \in Nat
        BY <2>7, EmptySeq
      <4>2. QED
        BY <4>1, Zenon
    <3>2. ASSUME NEW k \in Nat, k \in S, k + 1 \in 0..n
          PROVE  f[k + 1] \in Seq(T)
      <4>1. k + 1 \in 1..n /\ f[k] \in Seq(T) /\ s[k + 1] \in Seq(T)
        BY <2>5, <3>2
      <4>2. f[k + 1] = f[(k + 1) - 1] \o s[k + 1]
        BY <2>6, <4>1, Zenon
      <4>3. (k + 1) - 1 = k
        OBVIOUS
      <4>4. f[k] \o s[k + 1] \in Seq(T)
        BY <4>1, ConcatProperties
      <4>5. QED
        BY <4>2, <4>3, <4>4, Zenon
    <3>3. \A k \in Nat : k \in S => k + 1 \in S
      BY <3>2
    <3>4. \A k \in Nat : k \in S
      <4> HIDE DEF S
      <4>1. QED
        BY <3>1, <3>3, NatSetInduction
    <3>5. QED
      BY <3>4
  <2>9. f \in [0..n -> Seq(T)]
    BY <2>7a, <2>8
  <2>10. QED
    BY <2>1, <2>6, <2>7, <2>9, Zenon
<1>3. QED
  BY <1>1, <1>2

\* A flattened sequence of sequences over T is a sequence over T.
LEMMA FlattenTyped ==
  ASSUME NEW T, NEW s \in Seq(Seq(T))
  PROVE  FlattenSeq(s) \in Seq(T)
<1>1. PICK f \in [0..Len(s) -> Seq(T)] : FlattenSeq(s) = f[Len(s)]
  BY FlattenByPrefix
<1>2. Len(s) \in 0..Len(s)
  OBVIOUS
<1>3. QED
  BY <1>1, <1>2

\* Flattening nothing gives nothing.
LEMMA FlattenEmpty == FlattenSeq(<<>>) = <<>>
  BY DEF FlattenSeq

\* Flattening one element gives the element.
LEMMA FlattenSingle ==
  ASSUME NEW T, NEW e \in Seq(T)
  PROVE  FlattenSeq(<<e>>) = e
<1>1. <<e>> \in Seq(Seq(T)) /\ Len(<<e>>) = 1 /\ <<e>>[1] = e
  OBVIOUS
<1>2. PICK f \in [0..1 -> Seq(T)] :
        /\ f[0] = <<>>
        /\ \A k \in 1..1 : f[k] = f[k - 1] \o <<e>>[k]
        /\ FlattenSeq(<<e>>) = f[1]
  BY <1>1, FlattenByPrefix
<1>3. f[1] = f[0] \o e
  BY <1>2
<1>4. QED
  BY <1>2, <1>3, ConcatEmptySeq

\* FlattenSeq is a homomorphism: the parts of a sequence may be flattened one
\* by one.
LEMMA FlattenConcat ==
  ASSUME NEW T, NEW s \in Seq(Seq(T)), NEW t \in Seq(Seq(T))
  PROVE  FlattenSeq(s \o t) = FlattenSeq(s) \o FlattenSeq(t)
<1> DEFINE u == s \o t
           m == Len(s)
           n == Len(t)
<1>1. m \in Nat /\ n \in Nat
  OBVIOUS
<1>2. /\ \A k \in 1..m : s[k] \in Seq(T)
      /\ \A k \in 1..n : t[k] \in Seq(T)
  OBVIOUS
<1>3. /\ u \in Seq(Seq(T)) /\ Len(u) = m + n
      /\ \A k \in 1..(m + n) : u[k] = IF k <= m THEN s[k] ELSE t[k - m]
  BY ConcatProperties
<1>4. PICK f \in [0..m -> Seq(T)] :
        /\ f[0] = <<>>
        /\ \A k \in 1..m : f[k] = f[k - 1] \o s[k]
        /\ FlattenSeq(s) = f[m]
  BY FlattenByPrefix
<1>5. PICK g \in [0..n -> Seq(T)] :
        /\ g[0] = <<>>
        /\ \A k \in 1..n : g[k] = g[k - 1] \o t[k]
        /\ FlattenSeq(t) = g[n]
  BY FlattenByPrefix
<1> HIDE DEF u, m, n
<1>6. PICK h \in [0..(m + n) -> Seq(T)] :
        /\ h[0] = <<>>
        /\ \A k \in 1..(m + n) : h[k] = h[k - 1] \o u[k]
        /\ FlattenSeq(u) = h[m + n]
  <2>1. \E h \in [0..Len(u) -> Seq(T)] :
          /\ h[0] = <<>>
          /\ \A k \in 1..Len(u) : h[k] = h[k - 1] \o u[k]
          /\ FlattenSeq(u) = h[Len(u)]
    BY <1>3, FlattenByPrefix
  <2>2. QED
    BY <1>3, <2>1, Zenon
<1>7. h[m] = f[m]
  <2> DEFINE S == {k \in 0..m : h[k] = f[k]}
  <2>1. 0 \in S
    BY <1>1, <1>4, <1>6
  <2>2. ASSUME NEW k \in 0..(m - 1), k \in S
        PROVE  k + 1 \in S
    <3>1. /\ k + 1 \in 1..m /\ k + 1 \in 1..(m + n) /\ k + 1 \in 0..m
          /\ k + 1 <= m /\ (k + 1) - 1 = k
      BY <1>1
    <3>2. u[k + 1] = s[k + 1]
      BY <1>3, <3>1, Zenon
    <3>3. h[k + 1] = h[k] \o u[k + 1] /\ f[k + 1] = f[k] \o s[k + 1]
      BY <1>4, <1>6, <3>1, Zenon
    <3>4. QED
      BY <2>2, <3>1, <3>2, <3>3, Zenon
  <2>3. m \in S
    <3> HIDE DEF S
    <3>1. \A k \in 0..m : k \in S
      BY <1>1, <2>1, <2>2, IntervalInduction
    <3>2. QED
      BY <1>1, <3>1
  <2>4. QED
    BY <2>3
<1>8. h[m + n] = f[m] \o g[n]
  <2> DEFINE S == {k \in 0..n : h[m + k] = f[m] \o g[k]}
  <2>0. f[m] \in Seq(T)
    BY <1>1
  <2>1. 0 \in S
    <3>1. m + 0 = m /\ g[0] = <<>> /\ 0 \in 0..n
      BY <1>1, <1>5
    <3>2. f[m] \o <<>> = f[m]
      BY <2>0, ConcatEmptySeq
    <3>3. QED
      BY <1>7, <3>1, <3>2, Zenon
  <2>2. ASSUME NEW k \in 0..(n - 1), k \in S
        PROVE  k + 1 \in S
    <3>1. /\ k + 1 \in 1..n /\ k + 1 \in 0..n /\ k \in 0..n
          /\ m + (k + 1) \in 1..(m + n) /\ ~ (m + (k + 1) <= m)
          /\ (m + (k + 1)) - m = k + 1
          /\ (k + 1) - 1 = k /\ (m + (k + 1)) - 1 = m + k
      BY <1>1
    <3>2. u[m + (k + 1)] = t[k + 1]
      BY <1>3, <3>1, Zenon
    <3>3. h[m + (k + 1)] = h[m + k] \o u[m + (k + 1)]
      BY <1>6, <3>1, Zenon
    <3>4. g[k + 1] = g[k] \o t[k + 1]
      BY <1>5, <3>1, Zenon
    <3>5. g[k] \in Seq(T) /\ t[k + 1] \in Seq(T)
      BY <1>2, <3>1
    <3>6. (f[m] \o g[k]) \o t[k + 1] = f[m] \o (g[k] \o t[k + 1])
      <4> DEFINE p == f[m]
                 q == g[k]
                 r == t[k + 1]
      <4>1. p \in Seq(T) /\ q \in Seq(T) /\ r \in Seq(T)
        BY <2>0, <3>5
      <4> HIDE DEF p, q, r
      <4>2. (p \o q) \o r = p \o (q \o r)
        BY <4>1, ConcatAssociative
      <4>3. QED
        BY <4>2 DEF p, q, r
    <3>7. QED
      BY <2>2, <3>1, <3>2, <3>3, <3>4, <3>6, Zenon
  <2>3. n \in S
    <3> HIDE DEF S
    <3>1. \A k \in 0..n : k \in S
      BY <1>1, <2>1, <2>2, IntervalInduction
    <3>2. QED
      BY <1>1, <3>1
  <2>4. QED
    BY <2>3
<1>9. QED
  BY <1>4, <1>5, <1>6, <1>7, <1>8, Zenon DEF u

\* Quotient and remainder of a * d + c are a and c.
LEMMA DivMod ==
  ASSUME NEW a \in Nat, NEW c \in Nat, NEW d \in Nat \ {0}, c < d
  PROVE  /\ (a * d + c) \div d = a
         /\ (a * d + c) % d = c
  OBVIOUS

\* A number is its quotient times the divisor and the remainder.
LEMMA DivModOf ==
  ASSUME NEW n \in Nat, NEW d \in Nat \ {0}
  PROVE  \E q \in Nat, r \in Nat :
           n \div d = q /\ n % d = r /\ r < d /\ n = q * d + r
<1>1. PICK q \in Nat, r \in Nat : q = n \div d /\ r = n % d
  OBVIOUS
<1>2. PICK p \in Nat : p = q * d
  OBVIOUS
<1>3. n % d = n - p
  BY <1>1, <1>2
<1>4. r = n - p
  BY <1>1, <1>3, Zenon
<1>5. n = p + r
  BY <1>4
<1>6. r < d
  BY <1>1
<1>7. QED
  BY <1>1, <1>2, <1>5, <1>6, Zenon

\* The index before one of the first n + 1.
LEMMA OneLess ==
  ASSUME NEW n \in Nat, NEW k \in 1..(n + 1)
  PROVE  k - 1 \in 0..n
  OBVIOUS

\* A prefix of a sequence over T is one.
LEMMA PrefixTyped ==
  ASSUME NEW T, NEW s \in Seq(T), NEW n \in 0..Len(s)
  PROVE  SubSeq(s, 1, n) \in Seq(T)
  OBVIOUS

\* Where element k of a flattened sequence is: after the elements before it,
\* and all of it.
LEMMA FlattenAt ==
  ASSUME NEW T, NEW s \in Seq(Seq(T)), NEW k \in 1..Len(s)
  PROVE  LET before == Len(FlattenSeq(SubSeq(s, 1, k - 1))) IN
         /\ before \in Nat
         /\ Len(FlattenSeq(SubSeq(s, 1, k))) = before + Len(s[k])
         /\ before + Len(s[k]) <= Len(FlattenSeq(s))
         /\ \A m \in 1..Len(s[k]) : FlattenSeq(s)[before + m] = s[k][m]
<1> DEFINE p == SubSeq(s, 1, k - 1)
           e == s[k]
           r == SubSeq(s, k + 1, Len(s))
           fp == FlattenSeq(p)
           fr == FlattenSeq(r)
<1>1. /\ p \in Seq(Seq(T)) /\ r \in Seq(Seq(T)) /\ e \in Seq(T)
      /\ <<e>> \in Seq(Seq(T)) /\ p \o <<e>> \in Seq(Seq(T))
  OBVIOUS
<1>2. SubSeq(s, 1, k) = p \o <<e>>
  <2>1. 1 \in 1..Len(s) /\ k \in 1..Len(s)
    OBVIOUS
  <2>2. QED
    BY <2>1, SubSeqRecursiveSecond, Zenon
<1>3. s = (p \o <<e>>) \o r
  <2>1. SubSeq(s, 1, k) \o SubSeq(s, k + 1, Len(s)) = SubSeq(s, 1, Len(s))
    BY ConcatAdjacentSubSeq
  <2>2. SubSeq(s, 1, Len(s)) = s
    BY SubSeqFull
  <2>3. QED
    BY <1>2, <2>1, <2>2, Zenon
<1> HIDE DEF p, e, r
<1>4. FlattenSeq(p \o <<e>>) = fp \o e
  <2>1. FlattenSeq(<<e>>) = e
    BY <1>1, FlattenSingle
  <2>2. FlattenSeq(p \o <<e>>) = FlattenSeq(p) \o FlattenSeq(<<e>>)
    BY <1>1, FlattenConcat
  <2>3. QED
    BY <2>1, <2>2
<1>5. FlattenSeq(s) = (fp \o e) \o fr
  BY <1>1, <1>3, <1>4, FlattenConcat
<1>6. fp \in Seq(T) /\ fr \in Seq(T) /\ fp \o e \in Seq(T)
  BY <1>1, FlattenTyped, ConcatProperties
<1> HIDE DEF fp, fr
<1>7. Len(fp \o e) = Len(fp) + Len(e) /\ Len(fp) \in Nat /\ Len(e) \in Nat
  BY <1>1, <1>6
<1>8. Len((fp \o e) \o fr) = Len(fp) + Len(e) + Len(fr) /\ Len(fr) \in Nat
  BY <1>6, <1>7
<1>9. ASSUME NEW m \in 1..Len(e) PROVE ((fp \o e) \o fr)[Len(fp) + m] = e[m]
  <2>1. ((fp \o e) \o fr)[Len(fp) + m] = (fp \o e)[Len(fp) + m]
    BY <1>6, <1>7, <1>8
  <2>2. (fp \o e)[Len(fp) + m] = e[m]
    BY <1>1, <1>6, <1>7
  <2>3. QED
    BY <2>1, <2>2
<1>10. /\ Len(fp) \in Nat
       /\ Len(FlattenSeq(SubSeq(s, 1, k))) = Len(fp) + Len(e)
       /\ Len(fp) + Len(e) <= Len(FlattenSeq(s))
       /\ \A m \in 1..Len(e) : FlattenSeq(s)[Len(fp) + m] = e[m]
  <2>1. Len(FlattenSeq(SubSeq(s, 1, k))) = Len(fp) + Len(e)
    BY <1>2, <1>4, <1>7 DEF fp
  <2>2. Len(FlattenSeq(s)) = Len(fp) + Len(e) + Len(fr)
    BY <1>5, <1>8
  <2>3. QED
    BY <1>5, <1>7, <1>8, <1>9, <2>1, <2>2
<1>11. QED
  BY <1>10 DEF fp, p, e

\* A flattened sequence begins with its first element.
LEMMA FlattenFirst ==
  ASSUME NEW T, NEW s \in Seq(Seq(T)), s # <<>>
  PROVE  FlattenSeq(s) = s[1] \o FlattenSeq(Tail(s))
<1>1. /\ s[1] \in Seq(T) /\ <<s[1]>> \in Seq(Seq(T)) /\ Tail(s) \in Seq(Seq(T))
  OBVIOUS
<1>2. s = <<s[1]>> \o Tail(s)
  OBVIOUS
<1>3. FlattenSeq(<<s[1]>>) = s[1]
  BY <1>1, FlattenSingle
<1>4. FlattenSeq(<<s[1]>> \o Tail(s)) = FlattenSeq(<<s[1]>>) \o FlattenSeq(Tail(s))
  BY <1>1, FlattenConcat
<1>5. QED
  BY <1>2, <1>3, <1>4, Zenon

\* The elements of a sequence after its n-th.
LEMMA SubSeqAfter ==
  ASSUME NEW T, NEW s \in Seq(T), NEW n \in 0..Len(s)
  PROVE  /\ SubSeq(s, n + 1, Len(s)) \in Seq(T)
         /\ Len(SubSeq(s, n + 1, Len(s))) = Len(s) - n
         /\ \A k \in 1..(Len(s) - n) : SubSeq(s, n + 1, Len(s))[k] = s[n + k]
  OBVIOUS

\* The first of them, and the others.
LEMMA TailAfter ==
  ASSUME NEW T, NEW s \in Seq(T), NEW n \in 0..(Len(s) - 1)
  PROVE  /\ SubSeq(s, n + 1, Len(s)) # <<>>
         /\ SubSeq(s, n + 1, Len(s))[1] = s[n + 1]
         /\ Tail(SubSeq(s, n + 1, Len(s))) = SubSeq(s, (n + 1) + 1, Len(s))
<1> DEFINE t == SubSeq(s, n + 1, Len(s))
           u == SubSeq(s, (n + 1) + 1, Len(s))
           m == Len(s) - (n + 1)
<1>1. m \in Nat /\ n \in 0..Len(s) /\ n + 1 \in 0..Len(s)
  OBVIOUS
<1>2. t \in Seq(T) /\ Len(t) = m + 1 /\ \A k \in 1..(m + 1) : t[k] = s[n + k]
  <2>1. m + 1 = Len(s) - n
    OBVIOUS
  <2>2. QED
    BY <1>1, <2>1, SubSeqAfter
<1>3. u \in Seq(T) /\ Len(u) = m /\ \A k \in 1..m : u[k] = s[(n + 1) + k]
  BY <1>1, SubSeqAfter
<1> HIDE DEF t, u, m
<1>4. t # <<>> /\ Tail(t) \in Seq(T) /\ Len(Tail(t)) = m
      /\ \A k \in 1..m : Tail(t)[k] = t[k + 1]
  BY <1>1, <1>2
<1>5. \A k \in 1..m : k + 1 \in 1..(m + 1) /\ n + (k + 1) = (n + 1) + k
  BY <1>1
<1>6. \A k \in 1..m : Tail(t)[k] = u[k]
  <2>1. TAKE k \in 1..m
  <2>2. Tail(t)[k] = t[k + 1] /\ t[k + 1] = s[n + (k + 1)]
    BY <1>2, <1>4, <1>5, Zenon
  <2>3. QED
    BY <1>3, <1>5, <2>2, Zenon
<1>7. Tail(t) = u
  BY <1>3, <1>4, <1>6, SeqEqual
<1>8. t[1] = s[n + 1]
  BY <1>1, <1>2
<1>9. QED
  BY <1>4, <1>7, <1>8, Zenon DEF t, u

\* A function on 1..n is the one on 1..(n - 1) with its last value appended.
LEMMA AppendLast ==
  ASSUME NEW T, NEW n \in Nat \ {0}, NEW g \in [1..n -> T]
  PROVE  /\ [k \in 1..(n - 1) |-> g[k]] \in Seq(T)
         /\ Append([k \in 1..(n - 1) |-> g[k]], g[n]) = g
<1> DEFINE p == [k \in 1..(n - 1) |-> g[k]]
<1>1. n - 1 \in Nat /\ p \in [1..(n - 1) -> T] /\ \A k \in 1..(n - 1) : p[k] = g[k]
  OBVIOUS
<1>2. g \in Seq(T) /\ Len(g) = n /\ g[n] \in T
  OBVIOUS
<1> HIDE DEF p
<1>3. p \in Seq(T) /\ Len(p) = n - 1
  BY <1>1
<1>4. Append(p, g[n]) \in Seq(T) /\ Len(Append(p, g[n])) = n
  BY <1>2, <1>3
<1>5. ASSUME NEW k \in 1..n PROVE Append(p, g[n])[k] = g[k]
  <2>1. CASE k = n
    BY <1>2, <1>3, <2>1
  <2>2. CASE k # n
    <3>1. k \in 1..(n - 1)
      BY <2>2
    <3>2. Append(p, g[n])[k] = p[k]
      BY <1>2, <1>3, <3>1
    <3>3. QED
      BY <1>1, <3>1, <3>2
  <2>3. QED
    BY <2>1, <2>2
<1>6. QED
  BY <1>2, <1>3, <1>4, <1>5, SeqEqual DEF p

-----------------------------------------------------------------------------
(* OsdPicture: uncompress_osd_net and hud_fill_img_memory *)

Byte == 0..(2 * Half - 1)

\* The code of a run is a sequence of bytes: no length of 15 bits overflows.
LEMMA EncodeRunType ==
  ASSUME NEW r \in Run
  PROVE  EncodeRun(r) \in Seq(Byte)
<1>1. /\ r.len \in Nat /\ r.len < 2 * Half * Half /\ r.color \in Byte
      /\ Half \in Nat \ {0}
  BY SizesAssumption DEF Run, Byte
<1>2. CASE r.len < Half
  <2>1. <<r.len>> \in Seq(Byte) /\ <<r.color>> \in Seq(Byte)
    BY <1>1, <1>2 DEF Byte
  <2>2. EncodeRun(r) = <<r.len>> \o <<r.color>>
    BY <1>2 DEF EncodeRun
  <2>3. QED
    BY <2>1, <2>2, ConcatProperties
<1>3. CASE ~ (r.len < Half)
  <2>1. PICK q \in Nat, m \in Nat : /\ r.len \div (2 * Half) = q
                                    /\ r.len % (2 * Half) = m
                                    /\ m < 2 * Half
                                    /\ r.len = q * (2 * Half) + m
    <3>1. 2 * Half \in Nat \ {0}
      BY <1>1
    <3>2. QED
      BY <1>1, <3>1, DivModOf
  <2>2. q < Half
    <3>1. SUFFICES ASSUME q >= Half PROVE FALSE
      BY <1>1, <2>1
    <3>2. q * (2 * Half) >= Half * (2 * Half)
      BY <1>1, <2>1, <3>1
    <3>3. QED
      BY <1>1, <2>1, <3>2
  <2>3. Byte2(r.len) = <<Half + q, m>>
    BY <2>1 DEF Byte2
  <2>4. <<Half + q, m>> \in Seq(Byte) /\ <<r.color>> \in Seq(Byte)
    BY <1>1, <2>1, <2>2 DEF Byte
  <2>5. EncodeRun(r) = <<Half + q, m>> \o <<r.color>>
    BY <1>3, <2>3 DEF EncodeRun
  <2>6. QED
    BY <2>4, <2>5, ConcatProperties
<1>4. QED
  BY <1>2, <1>3

\* The three bytes of a long run.
LEMMA LongForm ==
  ASSUME NEW a \in Nat, NEW b \in Nat, NEW c \in Nat
  PROVE  LET e == <<a, b>> \o <<c>> IN
         Len(e) = 3 /\ e[1] = a /\ e[2] = b /\ e[3] = c
<1>1. Len(<<a, b>> \o <<c>>) = 3
  OBVIOUS
<1>2. (<<a, b>> \o <<c>>)[1] = a /\ (<<a, b>> \o <<c>>)[2] = b
  OBVIOUS
<1>3. (<<a, b>> \o <<c>>)[3] = c
  OBVIOUS
<1>4. QED
  BY <1>1, <1>2, <1>3

\* The code a run begins with tells its form apart, and the decoder gets the
\* length back, for every length of 15 bits.
LEMMA DecodeRun ==
  ASSUME NEW r \in Run
  PROVE  LET e == EncodeRun(r) IN
         \/ /\ r.len < Half /\ Len(e) = 2
            /\ e[1] = r.len /\ e[2] = r.color
         \/ /\ ~ (r.len < Half) /\ Len(e) = 3 /\ e[1] >= Half
            /\ LongLength(e[1], e[2]) = r.len /\ e[3] = r.color
<1>1. r.len \in Nat /\ Half \in Nat \ {0} /\ 2 * Half \in Nat \ {0}
  BY SizesAssumption DEF Run
<1>2. CASE r.len < Half
  BY <1>2 DEF EncodeRun
<1>3. CASE ~ (r.len < Half)
  <2>1. PICK q \in Nat, m \in Nat : /\ r.len \div (2 * Half) = q
                                    /\ r.len % (2 * Half) = m
                                    /\ m < 2 * Half
                                    /\ r.len = q * (2 * Half) + m
    BY <1>1, DivModOf
  <2>2. EncodeRun(r) = <<Half + q, m>> \o <<r.color>>
    BY <1>3, <2>1 DEF EncodeRun, Byte2
  <2>3. /\ Len(EncodeRun(r)) = 3 /\ EncodeRun(r)[1] = Half + q
        /\ EncodeRun(r)[2] = m /\ EncodeRun(r)[3] = r.color
    <3>1. r.color \in Nat /\ Half + q \in Nat
      BY <1>1, SizesAssumption DEF Run
    <3>2. LET e == <<Half + q, m>> \o <<r.color>> IN
          Len(e) = 3 /\ e[1] = Half + q /\ e[2] = m /\ e[3] = r.color
      BY <3>1, LongForm
    <3>3. QED
      BY <2>2, <3>2, Zenon
  <2>4. LongLength(Half + q, m) = r.len
    <3>1. (Half + q) - Half = q
      BY <1>1
    <3>2. QED
      BY <2>1, <3>1, Zenon DEF LongLength
  <2>5. Half + q >= Half
    BY <1>1
  <2>6. QED
    BY <1>3, <2>3, <2>4, <2>5
<1>4. QED
  BY <1>2, <1>3

\* Where the code of run k is in the message: after the codes of the runs
\* before it, and all of it.
LEMMA EncodeAt ==
  ASSUME NEW rs \in Seq(Run), NEW k \in 1..Len(rs)
  PROVE  LET before == Len(Encode(SubSeq(rs, 1, k - 1)))
             e      == EncodeRun(rs[k]) IN
         /\ before \in Nat
         /\ Len(Encode(SubSeq(rs, 1, k))) = before + Len(e)
         /\ before + Len(e) <= Len(Encode(rs))
         /\ \A m \in 1..Len(e) : Encode(rs)[before + m] = e[m]
<1> DEFINE s == [n \in DOMAIN rs |-> EncodeRun(rs[n])]
<1>1. s \in Seq(Seq(Byte)) /\ Len(s) = Len(rs) /\ s[k] = EncodeRun(rs[k])
  <2>1. \A n \in 1..Len(rs) : EncodeRun(rs[n]) \in Seq(Byte)
    BY EncodeRunType
  <2>2. DOMAIN rs = 1..Len(rs) /\ Len(rs) \in Nat
    OBVIOUS
  <2>3. s \in [1..Len(rs) -> Seq(Byte)]
    BY <2>1, <2>2
  <2>4. s[k] = EncodeRun(rs[k])
    BY <2>2
  <2> HIDE DEF s
  <2>5. QED
    BY <2>2, <2>3, <2>4
<1>2. ASSUME NEW n \in 0..Len(rs)
      PROVE  Encode(SubSeq(rs, 1, n)) = FlattenSeq(SubSeq(s, 1, n))
  <2>1. [m \in DOMAIN SubSeq(rs, 1, n) |-> EncodeRun(SubSeq(rs, 1, n)[m])]
          = SubSeq(s, 1, n)
    OBVIOUS
  <2>2. QED
    BY <2>1 DEF Encode
<1>3. Encode(rs) = FlattenSeq(s)
  BY DEF Encode
<1>4. k - 1 \in 0..Len(rs) /\ k \in 0..Len(rs) /\ k \in 1..Len(s)
  BY <1>1
<1> HIDE DEF s
<1>5. LET before == Len(FlattenSeq(SubSeq(s, 1, k - 1))) IN
      /\ before \in Nat
      /\ Len(FlattenSeq(SubSeq(s, 1, k))) = before + Len(s[k])
      /\ before + Len(s[k]) <= Len(FlattenSeq(s))
      /\ \A m \in 1..Len(s[k]) : FlattenSeq(s)[before + m] = s[k][m]
  BY <1>1, <1>4, FlattenAt
<1>6. QED
  BY <1>1, <1>2, <1>3, <1>4, <1>5, Zenon

\* A message has a length.
LEMMA EncodeTyped ==
  ASSUME NEW rs \in Seq(Run)
  PROVE  Len(Encode(rs)) \in Nat
<1> DEFINE s == [n \in DOMAIN rs |-> EncodeRun(rs[n])]
<1>1. DOMAIN rs = 1..Len(rs) /\ Len(rs) \in Nat
  OBVIOUS
<1>2. \A n \in 1..Len(rs) : EncodeRun(rs[n]) \in Seq(Byte)
  BY EncodeRunType
<1>3. s \in [1..Len(rs) -> Seq(Byte)]
  BY <1>1, <1>2
<1>4. Encode(rs) = FlattenSeq(s)
  BY DEF Encode
<1> HIDE DEF s
<1>5. s \in Seq(Seq(Byte))
  BY <1>1, <1>3
<1>6. FlattenSeq(s) \in Seq(Byte)
  BY <1>5, FlattenTyped
<1>7. QED
  BY <1>4, <1>6

\* Between two rounds of the decoder: the runs before i are in data, and ptr is
\* behind their code; afterwards all runs are, and ptr is behind the message.
DecodeInv ==
  /\ runs \in Seq(Run) /\ raw = Encode(runs)
  /\ pc \in {"decode", "fill", "stretch", "done"}
  /\ pc = "decode" => /\ i \in 1..(Len(runs) + 1)
                      /\ data = SubSeq(runs, 1, i - 1)
                      /\ ptr = Len(Encode(data)) + 1
  /\ pc # "decode" => data = runs /\ ptr = Len(raw) + 1

\* One round of the decoder's loop takes exactly the code of one run.
LEMMA DecodeStep ==
  ASSUME DecodeInv, DecodeElement PROVE DecodeInv'
<1>1. /\ runs \in Seq(Run) /\ raw = Encode(runs)
      /\ pc = "decode" /\ i \in 1..Len(runs)
      /\ data = SubSeq(runs, 1, i - 1) /\ ptr = Len(Encode(data)) + 1
  BY DEF DecodeInv, DecodeElement
<1> DEFINE r == runs[i]
           e == EncodeRun(r)
           before == Len(Encode(data))
<1>2. r \in Run
  BY <1>1
<1>3. /\ before \in Nat
      /\ Len(Encode(SubSeq(runs, 1, i))) = before + Len(e)
      /\ \A m \in 1..Len(e) : raw[before + m] = e[m]
  BY <1>1, EncodeAt
<1>4. r.len \in Nat /\ Half \in Nat \ {0} /\ r = [len |-> r.len, color |-> r.color]
  BY <1>2, SizesAssumption DEF Run
<1> HIDE DEF r, e, before
<1>5. ptr = before + 1
  BY <1>1 DEF before
<1>6. /\ data' = Append(data, r) /\ ptr' = before + Len(e) + 1
  <2>1. CASE r.len < Half /\ Len(e) = 2 /\ e[1] = r.len /\ e[2] = r.color
    <3>1. /\ raw[ptr] = r.len /\ raw[ptr + 1] = r.color
          /\ ~ (raw[ptr] >= Half)
      <4>1. 1 \in 1..Len(e) /\ 2 \in 1..Len(e)
            /\ ptr = before + 1 /\ ptr + 1 = before + 2
        BY <1>3, <1>5, <2>1
      <4>2. raw[ptr] = r.len /\ raw[ptr + 1] = r.color
        BY <1>3, <2>1, <4>1, Zenon
      <4>3. QED
        BY <1>4, <2>1, <4>2
    <3>2. /\ data' = Append(data, [len |-> raw[ptr], color |-> raw[ptr + 1]])
          /\ ptr' = (ptr + 1) + 1
      BY <3>1, Zenon DEF DecodeElement
    <3>3. QED
      BY <1>3, <1>4, <1>5, <2>1, <3>1, <3>2
  <2>2. CASE /\ ~ (r.len < Half) /\ Len(e) = 3 /\ e[1] >= Half
             /\ LongLength(e[1], e[2]) = r.len /\ e[3] = r.color
    <3>1. /\ raw[ptr] = e[1] /\ raw[ptr + 1] = e[2] /\ raw[ptr + 2] = r.color
          /\ raw[ptr] >= Half
      <4>1. 1 \in 1..Len(e) /\ 2 \in 1..Len(e) /\ 3 \in 1..Len(e)
            /\ ptr = before + 1 /\ ptr + 1 = before + 2 /\ ptr + 2 = before + 3
        BY <1>3, <1>5, <2>2
      <4>2. QED
        BY <1>3, <2>2, <4>1, Zenon
    <3>2. /\ data' = Append(data, [len |-> LongLength(raw[ptr], raw[ptr + 1]),
                                   color |-> raw[ptr + 2]])
          /\ ptr' = (ptr + 2) + 1
      BY <3>1, Zenon DEF DecodeElement
    <3>3. LongLength(raw[ptr], raw[ptr + 1]) = r.len
      BY <2>2, <3>1, Zenon
    <3>4. QED
      BY <1>3, <1>4, <1>5, <2>2, <3>1, <3>2, <3>3
  <2>3. QED
    BY <1>2, <2>1, <2>2, DecodeRun DEF e
<1>7. Append(data, r) = SubSeq(runs, 1, i)
  BY <1>1 DEF r
<1>8. /\ runs' = runs /\ raw' = raw /\ pc' = pc /\ i' = i + 1
  BY DEF DecodeElement
<1>9. i' - 1 = i /\ i' \in 1..(Len(runs) + 1)
  BY <1>1, <1>8
<1>10. data' = SubSeq(runs, 1, i) /\ ptr' = Len(Encode(data')) + 1
  BY <1>3, <1>6, <1>7 DEF before
<1>11. QED
  BY <1>1, <1>8, <1>9, <1>10, Zenon DEF DecodeInv

\* At the start nothing is decoded and the reader is at the first byte.
LEMMA DecodeInit == Init => DecodeInv
<1> SUFFICES ASSUME Init PROVE DecodeInv
  OBVIOUS
<1>1. /\ runs \in Seq(Run) /\ raw = Encode(runs) /\ pc = "decode"
      /\ i = 1 /\ ptr = 1 /\ data = <<>>
  BY PicturesAssumption DEF Init
<1>2. SubSeq(runs, 1, i - 1) = <<>> /\ i \in 1..(Len(runs) + 1)
  BY <1>1
<1>3. Encode(<<>>) = <<>>
  <2>1. [k \in DOMAIN <<>> |-> EncodeRun(<<>>[k])] = <<>>
    OBVIOUS
  <2>2. QED
    BY <2>1, FlattenEmpty DEF Encode
<1>4. ptr = Len(Encode(data)) + 1
  BY <1>1, <1>3
<1>5. QED
  BY <1>1, <1>2, <1>4 DEF DecodeInv

\* Every step keeps the decoder's invariant.
LEMMA DecodeNext == DecodeInv /\ [Next]_vars => DecodeInv'
<1> SUFFICES ASSUME DecodeInv, [Next]_vars PROVE DecodeInv'
  OBVIOUS
<1>1. CASE DecodeElement
  BY <1>1, DecodeStep
<1>2. CASE StartFill
  <2>1. /\ runs \in Seq(Run) /\ i \in 1..(Len(runs) + 1) /\ i > Len(runs)
        /\ data = SubSeq(runs, 1, i - 1) /\ ptr = Len(Encode(data)) + 1
        /\ raw = Encode(runs)
    BY <1>2 DEF StartFill, DecodeInv
  <2>2. i - 1 = Len(runs) /\ data = runs
    <3>1. i - 1 = Len(runs)
      BY <2>1
    <3>2. SubSeq(runs, 1, Len(runs)) = runs
      BY <2>1, SubSeqFull
    <3>3. QED
      BY <2>1, <3>1, <3>2
  <2>3. ptr = Len(raw) + 1
    BY <2>1, <2>2
  <2>4. /\ runs' = runs /\ raw' = raw /\ ptr' = ptr /\ data' = data
        /\ pc' = "fill"
    BY <1>2 DEF StartFill
  <2>5. QED
    BY <2>1, <2>2, <2>3, <2>4 DEF DecodeInv
<1>3. CASE FillPixel \/ NextRun \/ EndFill \/ Stretch
  BY <1>3 DEF FillPixel, NextRun, EndFill, Stretch, DecodeInv
<1>4. CASE UNCHANGED vars
  BY <1>4 DEF vars, DecodeInv
<1>5. QED
  BY <1>1, <1>2, <1>3, <1>4 DEF Next

\* The decoder is always between two runs of the message: what it has decoded
\* is a prefix of the picture, and it reads on where that prefix ends.
THEOREM DecodeInductive == Spec => []DecodeInv
  BY DecodeInit, DecodeNext, PTL DEF Spec

\* uncompress_osd_net gives back the runs the server has encoded and reads
\* exactly the bytes of the message, for every picture and every split into
\* runs.
THEOREM DecodingRestoresRuns == Spec => []DecodeRestoresRuns
<1>1. DecodeInv => DecodeRestoresRuns
  BY DEF DecodeInv, DecodeRestoresRuns
<1>2. QED
  BY <1>1, DecodeInductive, PTL

-----------------------------------------------------------------------------
(* The painter *)

\* The pixels of a run.
LEMMA RunColors ==
  ASSUME NEW r \in Run
  PROVE  r.len \in Nat /\ [m \in 1..r.len |-> r.color] \in Seq(Byte)
<1>1. r.len \in Nat /\ r.color \in Byte
  BY SizesAssumption DEF Run, Byte
<1>2. [m \in 1..r.len |-> r.color] \in [1..r.len -> Byte]
  BY <1>1
<1>3. QED
  BY <1>1, <1>2

\* Where the pixels of run k are in the picture.
LEMMA UnrollAt ==
  ASSUME NEW rs \in Seq(Run), NEW k \in 1..Len(rs)
  PROVE  /\ Total(SubSeq(rs, 1, k - 1)) \in Nat
         /\ rs[k].len \in Nat
         /\ Total(SubSeq(rs, 1, k)) = Total(SubSeq(rs, 1, k - 1)) + rs[k].len
         /\ \A m \in 1..rs[k].len :
              Unroll(rs)[Total(SubSeq(rs, 1, k - 1)) + m] = rs[k].color
<1> DEFINE Colors(r) == [m \in 1..r.len |-> r.color]
           s == [n \in DOMAIN rs |-> Colors(rs[n])]
<1>1. rs[k].len \in Nat
  <2>1. rs[k] \in Run
    OBVIOUS
  <2>2. QED
    BY <2>1, RunColors
<1>2. /\ Len(Colors(rs[k])) = rs[k].len
      /\ \A m \in 1..rs[k].len : Colors(rs[k])[m] = rs[k].color
  BY <1>1
<1>3. \A n \in 1..Len(rs) : Colors(rs[n]) \in Seq(Byte)
  BY RunColors
<1>4. Unroll(rs) = FlattenSeq(s)
  BY DEF Unroll
<1>5. ASSUME NEW n \in 0..Len(rs)
      PROVE  Total(SubSeq(rs, 1, n)) = Len(FlattenSeq(SubSeq(s, 1, n)))
  <2> HIDE DEF Colors
  <2>1. [m \in DOMAIN SubSeq(rs, 1, n) |-> Colors(SubSeq(rs, 1, n)[m])]
          = SubSeq(s, 1, n)
    OBVIOUS
  <2>2. QED
    BY <2>1, Zenon DEF Total, Unroll, Colors
<1> HIDE DEF Colors
<1>6. s \in Seq(Seq(Byte)) /\ Len(s) = Len(rs) /\ s[k] = Colors(rs[k])
  <2>1. DOMAIN rs = 1..Len(rs) /\ Len(rs) \in Nat
    OBVIOUS
  <2>2. s \in [1..Len(rs) -> Seq(Byte)]
    BY <1>3, <2>1
  <2>3. s[k] = Colors(rs[k])
    BY <2>1
  <2> HIDE DEF s
  <2>4. QED
    BY <2>1, <2>2, <2>3
<1>7. k - 1 \in 0..Len(rs) /\ k \in 0..Len(rs) /\ k \in 1..Len(s)
  BY <1>6
<1> HIDE DEF s
<1>8. LET before == Len(FlattenSeq(SubSeq(s, 1, k - 1))) IN
      /\ before \in Nat
      /\ Len(FlattenSeq(SubSeq(s, 1, k))) = before + Len(s[k])
      /\ before + Len(s[k]) <= Len(FlattenSeq(s))
      /\ \A m \in 1..Len(s[k]) : FlattenSeq(s)[before + m] = s[k][m]
  BY <1>6, <1>7, FlattenAt
<1>9. QED
  BY <1>1, <1>2, <1>4, <1>5, <1>6, <1>7, <1>8, Zenon

\* A picture is a sequence of palette indexes.
LEMMA UnrollTyped ==
  ASSUME NEW rs \in Seq(Run)
  PROVE  Unroll(rs) \in Seq(Byte)
<1> DEFINE s == [k \in DOMAIN rs |-> [m \in 1..rs[k].len |-> rs[k].color]]
<1>1. DOMAIN rs = 1..Len(rs) /\ Len(rs) \in Nat
  OBVIOUS
<1>2. \A k \in 1..Len(rs) : [m \in 1..rs[k].len |-> rs[k].color] \in Seq(Byte)
  BY RunColors
<1>3. s \in [1..Len(rs) -> Seq(Byte)]
  BY <1>1, <1>2
<1>4. Unroll(rs) = FlattenSeq(s)
  BY DEF Unroll
<1> HIDE DEF s
<1>5. s \in Seq(Seq(Byte))
  BY <1>1, <1>3
<1>6. QED
  BY <1>4, <1>5, FlattenTyped

\* No runs have no pixels.
LEMMA UnrollEmpty == Total(<<>>) = 0
<1>1. [k \in DOMAIN <<>> |-> [m \in 1..<<>>[k].len |-> <<>>[k].color]] = <<>>
  OBVIOUS
<1>2. QED
  BY <1>1, FlattenEmpty DEF Total, Unroll

\* The part of IsWindow the painter depends on: a row of the window fits into a
\* row of the surface.
WindowFits ==
  /\ cmd.x \in Nat /\ cmd.y \in Nat /\ cmd.w \in Nat \ {0} /\ cmd.h \in Nat
  /\ cmd.x + cmd.w <= HudWidth /\ HudWidth \in Nat \ {0}

\* The place of a pixel from its row and column.
LEMMA PositionOf ==
  ASSUME WindowFits, NEW row \in Nat, NEW col \in Nat, col < cmd.w
  PROVE  Position(row * cmd.w + col) = (cmd.y + row) * HudWidth + cmd.x + col
<1>1. /\ (row * cmd.w + col) \div cmd.w = row
      /\ (row * cmd.w + col) % cmd.w = col
  BY DivMod DEF WindowFits
<1>2. QED
  BY <1>1, Zenon DEF Position

\* Two pixels of the picture never have the same place in the surface: a row of
\* the window does not reach into the next row of the surface.
LEMMA PositionInjective ==
  ASSUME WindowFits, NEW k \in Nat, NEW l \in Nat, Position(k) = Position(l)
  PROVE  k = l
<1>1. PICK q \in Nat, c \in Nat : /\ k \div cmd.w = q /\ k % cmd.w = c
                                  /\ c < cmd.w /\ k = q * cmd.w + c
  BY DivModOf DEF WindowFits
<1>2. PICK p \in Nat, d \in Nat : /\ l \div cmd.w = p /\ l % cmd.w = d
                                  /\ d < cmd.w /\ l = p * cmd.w + d
  BY DivModOf DEF WindowFits
<1>3. c < cmd.w /\ d < cmd.w
  BY <1>1, <1>2
<1>4. /\ cmd.y + q \in Nat /\ cmd.x + c \in Nat /\ cmd.x + c < HudWidth
      /\ cmd.y + p \in Nat /\ cmd.x + d \in Nat /\ cmd.x + d < HudWidth
      /\ HudWidth \in Nat \ {0} /\ cmd.x \in Nat /\ cmd.y \in Nat
  BY <1>3 DEF WindowFits
<1>5. /\ Position(k) = (cmd.y + q) * HudWidth + (cmd.x + c)
      /\ Position(l) = (cmd.y + p) * HudWidth + (cmd.x + d)
  <2>1. /\ Position(k) = (cmd.y + q) * HudWidth + cmd.x + c
        /\ Position(l) = (cmd.y + p) * HudWidth + cmd.x + d
    BY <1>1, <1>2, Zenon DEF Position
  <2>2. PICK a \in Nat, b \in Nat :
          a = (cmd.y + q) * HudWidth /\ b = (cmd.y + p) * HudWidth
    BY <1>4
  <2>3. a + cmd.x + c = a + (cmd.x + c) /\ b + cmd.x + d = b + (cmd.x + d)
    BY <1>4
  <2>4. QED
    BY <2>1, <2>2, <2>3, Zenon
<1>6. /\ Position(k) \div HudWidth = cmd.y + q /\ Position(k) % HudWidth = cmd.x + c
      /\ Position(l) \div HudWidth = cmd.y + p /\ Position(l) % HudWidth = cmd.x + d
  <2>1. /\ ((cmd.y + q) * HudWidth + (cmd.x + c)) \div HudWidth = cmd.y + q
        /\ ((cmd.y + q) * HudWidth + (cmd.x + c)) % HudWidth = cmd.x + c
    BY <1>4, DivMod
  <2>2. /\ ((cmd.y + p) * HudWidth + (cmd.x + d)) \div HudWidth = cmd.y + p
        /\ ((cmd.y + p) * HudWidth + (cmd.x + d)) % HudWidth = cmd.x + d
    BY <1>4, DivMod
  <2>3. QED
    BY <1>5, <2>1, <2>2, Zenon
<1>7. cmd.y + q = cmd.y + p /\ cmd.x + c = cmd.x + d
  BY <1>6, Zenon
<1>8. q = p /\ c = d
  BY <1>4, <1>7
<1>9. QED
  BY <1>1, <1>2, <1>8, Zenon

\* The cursor is behind the last painted pixel: pixelcounter pixels into a row
\* of the window, or at the end of a full one that has not been wrapped yet.
Cursor ==
  /\ pixelcounter \in 0..cmd.w
  /\ \E row \in Nat :
       /\ Painted = row * cmd.w + pixelcounter
       /\ idx = (cmd.y + row) * HudWidth + cmd.x + pixelcounter

\* The inductive invariant of the painter, on top of the decoder's.
PaintInv ==
  /\ DecodeInv /\ TypeOK
  /\ cmd \in Windows /\ cmd.w * cmd.h = Total(runs)
  /\ pc = "decode" => surface = <<>>
  /\ pc = "fill" => /\ i \in 1..(Len(runs) + 1)
                    /\ i <= Len(runs) => j <= runs[i].len
                    /\ i > Len(runs) => j = 0
                    /\ Cursor /\ ShowsFirst(Painted)
  /\ pc \in {"stretch", "done"} => ShowsFirst(Total(runs))

\* The window of the command is not empty and fits into the surface.
LEMMA WindowOf ==
  ASSUME PaintInv PROVE WindowFits /\ cmd.h \in Nat \ {0}
<1>1. /\ IsWindow(cmd) /\ cmd.osdWidth <= HudWidth /\ HudWidth \in Nat \ {0}
  BY WindowsAssumption, SizesAssumption DEF PaintInv
<1>2. /\ cmd.x \in Nat /\ cmd.y \in Nat /\ cmd.w \in Nat /\ cmd.h \in Nat
      /\ cmd.x2 \in Nat /\ cmd.y2 \in Nat /\ cmd.osdWidth \in Nat
      /\ cmd.x + cmd.w <= cmd.osdWidth /\ cmd.x2 < cmd.w /\ cmd.y2 < cmd.h
  BY <1>1 DEF IsWindow
<1>3. QED
  BY <1>1, <1>2 DEF WindowFits

\* The multiple after a * d.
LEMMA NextMultiple ==
  ASSUME NEW a \in Nat, NEW d \in Nat
  PROVE  (a + 1) * d = a * d + d
  OBVIOUS

\* Multiples keep their order.
LEMMA Monotone ==
  ASSUME NEW a \in Nat, NEW b \in Nat, NEW d \in Nat, a <= b
  PROVE  a * d <= b * d
  OBVIOUS

\* The two cases of the wrap.
LEMMA RowFullOrNot ==
  ASSUME WindowFits, pixelcounter \in 0..cmd.w
  PROVE  \/ RowFull /\ pixelcounter = cmd.w
         \/ /\ ~ RowFull /\ pixelcounter \in Nat /\ pixelcounter < cmd.w
            /\ pixelcounter + 1 \in 0..cmd.w
  BY DEF WindowFits, RowFull

\* The pixel the loop writes next is the next one of the picture, and the
\* cursor moves past it, within a row and at the end of one.
LEMMA NextPixel ==
  ASSUME WindowFits, NEW n \in Nat, NEW row \in Nat, pixelcounter \in 0..cmd.w,
         n = row * cmd.w + pixelcounter, idx \in Nat,
         idx = (cmd.y + row) * HudWidth + cmd.x + pixelcounter
  PROVE  LET at == IF RowFull THEN idx + HudWidth - pixelcounter ELSE idx
             pix == (IF RowFull THEN 0 ELSE pixelcounter) + 1 IN
         /\ at = Position(n) /\ at \in Nat
         /\ pix \in 0..cmd.w
         /\ \E r \in Nat :
              /\ n + 1 = r * cmd.w + pix
              /\ at + 1 = (cmd.y + r) * HudWidth + cmd.x + pix
<1>1. /\ cmd.x \in Nat /\ cmd.y \in Nat /\ cmd.w \in Nat \ {0}
      /\ HudWidth \in Nat \ {0}
  BY DEF WindowFits
<1>2. CASE ~ RowFull
  <2>1. pixelcounter < cmd.w /\ pixelcounter \in Nat
    BY <1>2, RowFullOrNot, Zenon
  <2>2. idx = Position(n)
    BY <2>1, PositionOf
  <2>3. pixelcounter + 1 \in 0..cmd.w
    BY <1>2, RowFullOrNot, Zenon
  <2>4. n + 1 = row * cmd.w + (pixelcounter + 1)
    <3>1. PICK a \in Nat : a = row * cmd.w
      BY <1>1
    <3>2. n + 1 = a + (pixelcounter + 1)
      BY <2>1, <3>1
    <3>3. QED
      BY <3>1, <3>2, Zenon
  <2>5. idx + 1 = (cmd.y + row) * HudWidth + cmd.x + (pixelcounter + 1)
    <3>1. PICK a \in Nat : a = (cmd.y + row) * HudWidth
      BY <1>1
    <3>2. idx + 1 = a + cmd.x + (pixelcounter + 1)
      BY <1>1, <2>1, <3>1
    <3>3. QED
      BY <3>1, <3>2, Zenon
  <2>6. QED
    BY <1>2, <2>2, <2>3, <2>4, <2>5, Zenon
<1>3. CASE RowFull
  <2>1. pixelcounter = cmd.w
    BY <1>3, RowFullOrNot, Zenon
  <2>2. PICK a \in Nat, b \in Nat : /\ a = row * cmd.w
                                    /\ b = (cmd.y + row) * HudWidth
    BY <1>1
  <2>3. /\ (row + 1) * cmd.w = a + cmd.w
        /\ (cmd.y + (row + 1)) * HudWidth = b + HudWidth
    <3>1. (row + 1) * cmd.w = row * cmd.w + cmd.w
      BY <1>1, NextMultiple
    <3>2. (cmd.y + row) \in Nat /\ cmd.y + (row + 1) = (cmd.y + row) + 1
      BY <1>1
    <3>3. ((cmd.y + row) + 1) * HudWidth = (cmd.y + row) * HudWidth + HudWidth
      BY <1>1, <3>2, NextMultiple
    <3>4. QED
      BY <2>2, <3>1, <3>2, <3>3, Zenon
  <2>4. /\ n = a + cmd.w /\ idx = b + cmd.x + cmd.w
    BY <2>1, <2>2, Zenon
  <2>5. /\ idx + HudWidth - pixelcounter = (b + HudWidth) + cmd.x + 0
        /\ idx + HudWidth - pixelcounter + 1 = (b + HudWidth) + cmd.x + 1
        /\ idx + HudWidth - pixelcounter \in Nat
        /\ n = (a + cmd.w) + 0 /\ n + 1 = (a + cmd.w) + 1
        /\ 0 + 1 \in 0..cmd.w /\ 0 + 1 = 1
    BY <1>1, <2>1, <2>4
  <2>6. Position((row + 1) * cmd.w + 0)
          = (cmd.y + (row + 1)) * HudWidth + cmd.x + 0
    <3>1. row + 1 \in Nat /\ 0 \in Nat /\ 0 < cmd.w
      BY <1>1
    <3>2. QED
      BY <3>1, PositionOf
  <2>7. idx + HudWidth - pixelcounter = Position(n)
    BY <2>3, <2>5, <2>6, Zenon
  <2>8. row + 1 \in Nat
    OBVIOUS
  <2>9. QED
    BY <1>3, <2>3, <2>5, <2>7, <2>8, Zenon
<1>4. QED
  BY <1>2, <1>3

\* One pixel more is painted.
LEMMA FillPixelStep ==
  ASSUME PaintInv, FillPixel PROVE PaintInv'
<1> DEFINE n == Painted
           at == IF RowFull THEN idx + HudWidth - pixelcounter ELSE idx
           before == Total(SubSeq(runs, 1, i - 1))
<1>1. /\ DecodeInv /\ TypeOK /\ pc = "fill"
      /\ cmd \in Windows /\ cmd.w * cmd.h = Total(runs)
      /\ i \in 1..(Len(runs) + 1) /\ Cursor /\ ShowsFirst(n)
  BY DEF PaintInv, FillPixel
<1>2. /\ runs \in Seq(Run) /\ data = runs /\ i \in 1..Len(runs) /\ j \in Nat
      /\ j < runs[i].len /\ idx \in Nat /\ i <= Len(runs)
  BY <1>1 DEF DecodeInv, TypeOK, FillPixel
<1>3. WindowFits
  BY WindowOf
<1>4. /\ before \in Nat /\ runs[i].len \in Nat
      /\ Unroll(runs)[before + (j + 1)] = runs[i].color
  <2>1. /\ before \in Nat /\ runs[i].len \in Nat
        /\ \A m \in 1..runs[i].len : Unroll(runs)[before + m] = runs[i].color
    BY <1>2, UnrollAt
  <2>2. j + 1 \in 1..runs[i].len
    BY <1>2, <2>1
  <2>3. QED
    BY <2>1, <2>2
<1>5. n = before + j
  BY <1>2 DEF Painted
<1>6. n \in Nat /\ Unroll(runs)[n + 1] = runs[i].color
  <2> HIDE DEF before, n
  <2>1. n \in Nat /\ before + (j + 1) = n + 1
    BY <1>2, <1>4, <1>5
  <2>2. QED
    BY <1>4, <2>1, Zenon
<1>7. /\ runs' = runs /\ raw' = raw /\ ptr' = ptr /\ data' = data /\ pc' = pc
      /\ cmd' = cmd /\ i' = i /\ j' = j + 1 /\ idx' = at + 1
      /\ pixelcounter' = (IF RowFull THEN 0 ELSE pixelcounter) + 1
      /\ surface' = [k \in DOMAIN surface \cup {at} |->
                       IF k = at THEN runs[i].color ELSE surface[k]]
  BY <1>2 DEF FillPixel
<1>8. Painted' = n + 1
  <2>1. Painted' = before + (j + 1)
    BY <1>2, <1>7 DEF Painted
  <2> HIDE DEF before, n
  <2>2. QED
    BY <1>2, <1>4, <1>5, <2>1
<1>9. /\ at = Position(n) /\ at \in Nat /\ pixelcounter' \in 0..cmd.w
      /\ \E r \in Nat :
           /\ n + 1 = r * cmd.w + pixelcounter'
           /\ idx' = (cmd.y + r) * HudWidth + cmd.x + pixelcounter'
  <2> DEFINE pix == (IF RowFull THEN 0 ELSE pixelcounter) + 1
  <2>1. PICK row \in Nat :
          /\ n = row * cmd.w + pixelcounter
          /\ idx = (cmd.y + row) * HudWidth + cmd.x + pixelcounter
    BY <1>1 DEF Cursor
  <2>2. pixelcounter \in 0..cmd.w
    BY <1>1 DEF Cursor
  <2> HIDE DEF n
  <2>3. /\ at = Position(n) /\ at \in Nat /\ pix \in 0..cmd.w
        /\ \E r \in Nat : /\ n + 1 = r * cmd.w + pix
                          /\ at + 1 = (cmd.y + r) * HudWidth + cmd.x + pix
    <3> HIDE DEF at, pix
    <3>1. LET a == IF RowFull THEN idx + HudWidth - pixelcounter ELSE idx
              p == (IF RowFull THEN 0 ELSE pixelcounter) + 1 IN
          /\ a = Position(n) /\ a \in Nat /\ p \in 0..cmd.w
          /\ \E r \in Nat : /\ n + 1 = r * cmd.w + p
                            /\ a + 1 = (cmd.y + r) * HudWidth + cmd.x + p
      BY <1>2, <1>3, <1>6, <2>1, <2>2, NextPixel
    <3>2. QED
      BY <3>1 DEF at, pix
  <2>4. QED
    BY <1>7, <2>3, Zenon
<1>10. pixelcounter' \in 0..HudWidth
  BY <1>3, <1>9 DEF WindowFits
<1> HIDE DEF n, at, before
<1>11. Cursor'
  BY <1>7, <1>8, <1>9, Zenon DEF Cursor
<1>12. \A k \in Nat : Position(k)' = Position(k)
  BY <1>7 DEF Position
<1>13. /\ 0..((n + 1) - 1) = 0..(n - 1) \cup {n}
       /\ \A k \in 0..(n - 1) : k \in Nat /\ k # n
  BY <1>6
<1>14. DOMAIN surface = {Position(k) : k \in 0..(n - 1)}
       /\ \A k \in 0..(n - 1) : surface[Position(k)] = Unroll(runs)[k + 1]
  BY <1>1 DEF ShowsFirst
<1>15. \A k \in 0..(n - 1) : Position(k) \in DOMAIN surface /\ Position(k) # at
  <2>1. ASSUME NEW k \in 0..(n - 1), Position(k) = at PROVE FALSE
    <3>1. k \in Nat /\ n \in Nat /\ Position(k) = Position(n) /\ k # n
      BY <1>6, <1>9, <1>13, <2>1
    <3>2. k = n
      BY <1>3, <3>1, PositionInjective
    <3>3. QED
      BY <3>1, <3>2
  <2>2. QED
    BY <1>14, <2>1
<1>16. DOMAIN surface' = {Position(k) : k \in 0..((n + 1) - 1)}
  <2>1. DOMAIN surface' = DOMAIN surface \cup {at}
    BY <1>7
  <2>2. QED
    BY <1>9, <1>13, <1>14, <2>1
<1>17. ASSUME NEW k \in 0..((n + 1) - 1)
       PROVE  surface'[Position(k)] = Unroll(runs)[k + 1]
  <2>1. CASE k = n
    BY <1>6, <1>7, <1>9, <2>1, Zenon
  <2>2. CASE k \in 0..(n - 1)
    <3>1. surface'[Position(k)] = surface[Position(k)]
      BY <1>7, <1>15, <2>2, Zenon
    <3>2. QED
      BY <1>14, <2>2, <3>1, Zenon
  <2>3. QED
    BY <1>13, <2>1, <2>2
<1>18. ShowsFirst(Painted)'
  <2>1. {Position(k)' : k \in 0..((n + 1) - 1)}
          = {Position(k) : k \in 0..((n + 1) - 1)}
    BY <1>6, <1>12
  <2>2. \A k \in 0..((n + 1) - 1) : Position(k)' = Position(k)
    BY <1>6, <1>12
  <2>3. Unroll(runs)' = Unroll(runs)
    BY <1>7 DEF Unroll
  <2>4. /\ DOMAIN surface' = {Position(k)' : k \in 0..(Painted' - 1)}
        /\ \A k \in 0..(Painted' - 1) :
             surface'[Position(k)'] = Unroll(runs)'[k + 1]
    BY <1>8, <1>16, <1>17, <2>1, <2>2, <2>3, Zenon
  <2>5. QED
    BY <2>4 DEF ShowsFirst
<1>19. DecodeInv'
  BY <1>1, <1>7 DEF DecodeInv
<1>20. TypeOK'
  BY <1>1, <1>2, <1>7, <1>9, <1>10 DEF TypeOK
<1>21. /\ j' <= runs[i].len /\ i <= Len(runs) /\ ~ (i > Len(runs))
  BY <1>2, <1>4, <1>7
<1>22. QED
  <2>1. pc' = "fill"
    BY <1>1, <1>7
  <2>2. Total(runs)' = Total(runs)
    BY <1>7
  <2>3. /\ i' \in 1..(Len(runs') + 1)
        /\ i' <= Len(runs') => j' <= runs'[i'].len
        /\ i' > Len(runs') => j' = 0
    BY <1>1, <1>7, <1>21, Zenon
  <2>4. /\ cmd' \in Windows /\ cmd'.w * cmd'.h = Total(runs)'
        /\ pc' # "decode" /\ pc' \notin {"stretch", "done"}
    BY <1>1, <1>7, <2>1, <2>2
  <2>5. QED
    BY <1>11, <1>18, <1>19, <1>20, <2>1, <2>3, <2>4, Zenon DEF PaintInv

\* Before the first pixel nothing is painted.
LEMMA StartFillStep ==
  ASSUME PaintInv, StartFill, DecodeInv' PROVE PaintInv'
<1>1. /\ TypeOK /\ pc = "decode" /\ surface = <<>>
      /\ cmd \in Windows /\ cmd.w * cmd.h = Total(runs)
  BY DEF PaintInv, StartFill
<1>2. /\ runs' = runs /\ ptr' = ptr /\ data' = data /\ pc' = "fill"
      /\ cmd' = cmd /\ i' = 1 /\ j' = 0 /\ pixelcounter' = 0
      /\ idx' = cmd.y * HudWidth + cmd.x /\ surface' = surface
  BY DEF StartFill
<1>3. /\ cmd.x \in Nat /\ cmd.y \in Nat /\ cmd.w \in Nat /\ HudWidth \in Nat
  BY WindowOf DEF WindowFits
<1>4. runs' \in Seq(Run) /\ Len(runs) \in Nat
  BY <1>2 DEF DecodeInv
<1>5. Painted' = 0
  <2>1. SubSeq(data, 1, 1 - 1) = <<>>
    BY <1>1 DEF TypeOK
  <2>2. Painted' = Total(SubSeq(data, 1, 1 - 1)) + 0
    BY <1>2 DEF Painted
  <2>3. Painted' = 0 + 0
    BY <2>1, <2>2, UnrollEmpty, Zenon
  <2>4. QED
    BY <2>3
<1>6. Cursor'
  <2>1. pixelcounter' \in 0..cmd'.w
    BY <1>2, <1>3
  <2>2. /\ 0 = 0 * cmd.w + 0
        /\ cmd.y * HudWidth + cmd.x = (cmd.y + 0) * HudWidth + cmd.x + 0
    <3>1. cmd.y + 0 = cmd.y /\ 0 * cmd.w = 0
      BY <1>3
    <3>2. PICK a \in Nat : a = cmd.y * HudWidth
      BY <1>3
    <3>3. a + cmd.x = a + cmd.x + 0
      BY <1>3
    <3>4. QED
      BY <3>1, <3>2, <3>3
  <2>3. /\ Painted' = 0 * cmd'.w + pixelcounter'
        /\ idx' = (cmd'.y + 0) * HudWidth + cmd'.x + pixelcounter'
    BY <1>2, <1>5, <2>2, Zenon
  <2>4. QED
    BY <2>1, <2>3, Zenon DEF Cursor
<1>7. ShowsFirst(Painted)'
  <2>1. surface' = <<>>
    BY <1>1, <1>2
  <2>2. DOMAIN <<>> = {} /\ 0..(0 - 1) = {}
    OBVIOUS
  <2>3. QED
    BY <1>5, <2>1, <2>2 DEF ShowsFirst
<1>8. TypeOK'
  <2>1. idx' \in Nat
    BY <1>2, <1>3
  <2>2. pixelcounter' \in 0..HudWidth
    BY <1>2, <1>3
  <2>3. QED
    BY <1>1, <1>2, <2>1, <2>2 DEF TypeOK
<1>9. /\ i' \in 1..(Len(runs') + 1)
      /\ i' <= Len(runs') => j' <= runs'[i'].len
      /\ i' > Len(runs') => j' = 0
  <2>1. ASSUME 1 <= Len(runs) PROVE 0 <= runs[1].len
    <3>1. runs[1] \in Run
      BY <1>2, <1>4, <2>1
    <3>2. runs[1].len \in Nat
      BY <3>1, RunColors
    <3>3. QED
      BY <3>2
  <2>2. QED
    BY <1>2, <1>4, <2>1
<1>10. /\ cmd' \in Windows /\ cmd'.w * cmd'.h = Total(runs)'
       /\ pc' # "decode" /\ pc' \notin {"stretch", "done"}
  BY <1>1, <1>2
<1>11. QED
  BY <1>6, <1>7, <1>8, <1>9, <1>10, Zenon DEF PaintInv

\* The next run begins where the last one ends.
LEMMA NextRunStep ==
  ASSUME PaintInv, NextRun PROVE PaintInv'
<1>1. /\ DecodeInv /\ TypeOK /\ pc = "fill"
      /\ cmd \in Windows /\ cmd.w * cmd.h = Total(runs)
      /\ i \in 1..(Len(runs) + 1) /\ Cursor /\ ShowsFirst(Painted)
      /\ i <= Len(runs) => j <= runs[i].len
  BY DEF PaintInv, NextRun
<1>2. /\ runs \in Seq(Run) /\ data = runs /\ i \in 1..Len(runs) /\ j \in Nat
      /\ j >= runs[i].len /\ i <= Len(runs) /\ Len(runs) \in Nat
  BY <1>1 DEF DecodeInv, TypeOK, NextRun
<1>3. /\ runs' = runs /\ raw' = raw /\ ptr' = ptr /\ data' = data /\ pc' = pc
      /\ cmd' = cmd /\ i' = i + 1 /\ j' = 0 /\ idx' = idx
      /\ pixelcounter' = pixelcounter /\ surface' = surface
  BY DEF NextRun
<1>4. Painted' = Painted
  <2>1. /\ Total(SubSeq(runs, 1, i - 1)) \in Nat /\ runs[i].len \in Nat
        /\ Total(SubSeq(runs, 1, i)) = Total(SubSeq(runs, 1, i - 1)) + runs[i].len
    BY <1>2, UnrollAt
  <2>2. j = runs[i].len
    BY <1>1, <1>2, <2>1
  <2>3. Painted = Total(SubSeq(runs, 1, i - 1)) + runs[i].len
    BY <1>2, <2>2 DEF Painted
  <2>4. Painted' = Total(SubSeq(runs, 1, i)) + 0
    <3>1. (i + 1) - 1 = i
      BY <1>2
    <3>2. QED
      BY <1>2, <1>3, <3>1 DEF Painted
  <2>5. QED
    BY <2>1, <2>3, <2>4
<1>5. Cursor' /\ ShowsFirst(Painted)'
  BY <1>1, <1>3, <1>4 DEF Cursor, ShowsFirst, Position
<1>6. /\ i' \in 1..(Len(runs') + 1)
      /\ i' <= Len(runs') => j' <= runs'[i'].len
      /\ i' > Len(runs') => j' = 0
  <2>1. ASSUME i + 1 <= Len(runs) PROVE 0 <= runs[i + 1].len
    <3>1. runs[i + 1] \in Run
      BY <1>2, <2>1
    <3>2. runs[i + 1].len \in Nat
      BY <3>1, RunColors
    <3>3. QED
      BY <3>2
  <2>2. QED
    BY <1>2, <1>3, <2>1
<1>7. DecodeInv' /\ TypeOK'
  BY <1>1, <1>2, <1>3 DEF DecodeInv, TypeOK
<1>8. /\ cmd' \in Windows /\ cmd'.w * cmd'.h = Total(runs)'
      /\ pc' = "fill" /\ pc' # "decode" /\ pc' \notin {"stretch", "done"}
  BY <1>1, <1>3
<1>9. QED
  BY <1>5, <1>6, <1>7, <1>8, Zenon DEF PaintInv

\* After the last run all of the picture is painted.
LEMMA EndFillStep ==
  ASSUME PaintInv, EndFill PROVE PaintInv'
<1>1. /\ DecodeInv /\ TypeOK /\ pc = "fill"
      /\ cmd \in Windows /\ cmd.w * cmd.h = Total(runs)
      /\ i \in 1..(Len(runs) + 1) /\ ShowsFirst(Painted)
      /\ i > Len(runs) => j = 0
  BY DEF PaintInv, EndFill
<1>2. runs \in Seq(Run) /\ data = runs /\ i > Len(runs) /\ j = 0
  BY <1>1 DEF DecodeInv, EndFill
<1>3. Painted = Total(runs)
  <2>1. i - 1 = Len(runs) /\ SubSeq(runs, 1, Len(runs)) = runs
    BY <1>1, <1>2, SubSeqFull
  <2>2. Total(runs) \in Nat
    <3>1. Unroll(runs) \in Seq(Byte)
      BY <1>2, UnrollTyped
    <3>2. QED
      BY <3>1 DEF Total
  <2>3. Painted = Total(runs) + 0
    BY <1>2, <2>1 DEF Painted
  <2>4. QED
    BY <2>2, <2>3
<1>4. /\ runs' = runs /\ raw' = raw /\ ptr' = ptr /\ data' = data
      /\ pc' = "stretch" /\ cmd' = cmd /\ i' = i /\ j' = j /\ idx' = idx
      /\ pixelcounter' = pixelcounter /\ surface' = surface
  BY DEF EndFill
<1>5. DecodeInv' /\ TypeOK'
  BY <1>1, <1>4 DEF DecodeInv, TypeOK
<1>6. ShowsFirst(Total(runs))'
  BY <1>1, <1>3, <1>4 DEF ShowsFirst, Position
<1>7. QED
  BY <1>1, <1>4, <1>5, <1>6 DEF PaintInv

\* The painter's invariant.
THEOREM PaintInductive == Spec => []PaintInv
<1>1. Init => PaintInv
  <2> SUFFICES ASSUME Init PROVE PaintInv
    OBVIOUS
  <2>1. DecodeInv
    BY DecodeInit
  <2>2. TypeOK
    BY SizesAssumption DEF Init, TypeOK
  <2>3. QED
    BY <2>1, <2>2 DEF Init, PaintInv
<1>2. PaintInv /\ [Next]_vars => PaintInv'
  <2> SUFFICES ASSUME PaintInv, [Next]_vars PROVE PaintInv'
    OBVIOUS
  <2>1. DecodeInv /\ DecodeInv'
    BY DecodeNext DEF PaintInv
  <2>2. CASE DecodeElement
    <3>1. /\ runs' = runs /\ cmd' = cmd /\ surface' = surface /\ pc = "decode"
          /\ pc' = "decode"
      BY <2>2 DEF DecodeElement
    <3>2. TypeOK'
      <4>1. /\ runs \in Seq(Run) /\ i \in Nat /\ data' = SubSeq(runs, 1, i' - 1)
            /\ i' \in 1..(Len(runs) + 1) /\ ptr' = Len(Encode(data')) + 1
        BY <2>1, <3>1 DEF DecodeInv
      <4>2. data' \in Seq(Run)
        <5>1. i' - 1 \in 0..Len(runs)
          <6>1. Len(runs) \in Nat /\ i' \in 1..(Len(runs) + 1)
            BY <4>1
          <6>2. QED
            BY <6>1, OneLess
        <5>2. SubSeq(runs, 1, i' - 1) \in Seq(Run)
          BY <4>1, <5>1, PrefixTyped
        <5>3. QED
          BY <4>1, <5>2, Zenon
      <4>3. ptr' \in Nat
        BY <4>1, <4>2, EncodeTyped
      <4>4. QED
        BY <2>2, <3>1, <4>1, <4>2, <4>3 DEF DecodeElement, PaintInv, TypeOK
    <3>3. QED
      BY <2>1, <3>1, <3>2 DEF PaintInv
  <2>3. CASE StartFill
    BY <2>1, <2>3, StartFillStep
  <2>4. CASE FillPixel
    BY <2>4, FillPixelStep
  <2>5. CASE NextRun
    BY <2>5, NextRunStep
  <2>6. CASE EndFill
    BY <2>6, EndFillStep
  <2>7. CASE Stretch
    <3>1. /\ runs' = runs /\ ptr' = ptr /\ data' = data /\ pc = "stretch"
          /\ pc' = "done" /\ cmd' = cmd /\ i' = i /\ j' = j /\ idx' = idx
          /\ pixelcounter' = pixelcounter /\ surface' = surface
      BY <2>7 DEF Stretch
    <3>2. ShowsFirst(Total(runs)) /\ TypeOK
      BY <3>1 DEF PaintInv
    <3>3. ShowsFirst(Total(runs))' /\ TypeOK'
      BY <3>1, <3>2 DEF ShowsFirst, Position, TypeOK
    <3>4. QED
      BY <2>1, <3>1, <3>3 DEF PaintInv
  <2>8. CASE UNCHANGED vars
    BY <2>1, <2>8 DEF vars, PaintInv, TypeOK, Cursor, Painted, ShowsFirst, Position
  <2>9. QED
    BY <2>2, <2>3, <2>4, <2>5, <2>6, <2>7, <2>8 DEF Next
<1>3. QED
  BY <1>1, <1>2, PTL DEF Spec

\* pixelcounter stays within a row, the indexes are numbers, and what is
\* decoded is a sequence of runs.
THEOREM TypeCorrect == Spec => []TypeOK
<1>1. PaintInv => TypeOK
  BY DEF PaintInv
<1>2. QED
  BY <1>1, PaintInductive, PTL

\* The places of the pixels are the cells of the window: all, and no other.
LEMMA WholeWindow ==
  ASSUME PaintInv
  PROVE  {Position(k) : k \in 0..(Total(runs) - 1)} = WindowCells
<1>1. WindowFits /\ cmd.h \in Nat \ {0} /\ Total(runs) = cmd.w * cmd.h
  BY WindowOf DEF PaintInv
<1>2. cmd.w \in Nat \ {0}
  BY <1>1 DEF WindowFits
<1>3. ASSUME NEW k \in 0..(Total(runs) - 1) PROVE Position(k) \in WindowCells
  <2>1. k \in Nat /\ k < cmd.w * cmd.h
    BY <1>1, <1>2
  <2>2. PICK q \in Nat, c \in Nat : /\ k \div cmd.w = q /\ k % cmd.w = c
                                    /\ c < cmd.w /\ k = q * cmd.w + c
    BY <1>2, <2>1, DivModOf
  <2>3. q < cmd.h
    <3>1. ASSUME q >= cmd.h PROVE FALSE
      <4>1. PICK a \in Nat, b \in Nat : a = q * cmd.w /\ b = cmd.h * cmd.w
        BY <1>1, <1>2
      <4>2. cmd.h <= q
        BY <1>1, <3>1
      <4>3. b <= a
        BY <1>1, <1>2, <4>1, <4>2, Monotone
      <4>4. k = a + c
        BY <2>2, <4>1, Zenon
      <4>5. cmd.w * cmd.h = b
        BY <1>1, <1>2, <4>1
      <4>6. k < b
        BY <2>1, <4>5, Zenon
      <4>7. QED
        BY <2>1, <4>3, <4>4, <4>6
    <3>2. QED
      BY <1>1, <3>1
  <2>4. Position(k) = (cmd.y + q) * HudWidth + cmd.x + c
    BY <2>2, Zenon DEF Position
  <2>5. q \in 0..(cmd.h - 1) /\ c \in 0..(cmd.w - 1)
    <3>1. c < cmd.w
      BY <2>2
    <3>2. QED
      BY <1>1, <1>2, <2>3, <3>1
  <2>6. QED
    BY <2>4, <2>5 DEF WindowCells
<1>4. ASSUME NEW row \in 0..(cmd.h - 1), NEW col \in 0..(cmd.w - 1)
      PROVE  \E k \in 0..(Total(runs) - 1) :
               Position(k) = (cmd.y + row) * HudWidth + cmd.x + col
  <2>1. row \in Nat /\ col \in Nat /\ col < cmd.w /\ row + 1 <= cmd.h
    BY <1>1, <1>2
  <2>2. PICK k \in Nat : k = row * cmd.w + col
    BY <1>2, <2>1
  <2>3. k < cmd.w * cmd.h
    <3>1. (row + 1) * cmd.w <= cmd.h * cmd.w
      BY <1>1, <1>2, <2>1, Monotone
    <3>2. (row + 1) * cmd.w = row * cmd.w + cmd.w
      BY <1>2, <2>1, NextMultiple
    <3>3. PICK a \in Nat, b \in Nat : a = row * cmd.w /\ b = cmd.h * cmd.w
      BY <1>1, <1>2, <2>1
    <3>4. a + cmd.w <= b /\ k = a + col /\ cmd.w * cmd.h = b
      BY <1>1, <1>2, <2>2, <3>1, <3>2, <3>3
    <3>5. k < b
      BY <1>2, <2>1, <3>4
    <3>6. QED
      BY <3>4, <3>5
  <2>4. k \in 0..(Total(runs) - 1)
    BY <1>1, <1>2, <2>3
  <2>5. Position(k) = (cmd.y + row) * HudWidth + cmd.x + col
    BY <1>1, <2>1, <2>2, PositionOf
  <2>6. QED
    BY <2>4, <2>5
<1>5. QED
  BY <1>3, <1>4 DEF WindowCells

\* hud_fill_img_memory paints the pixels of the picture in order, each at its
\* place, none twice and none skipped, and at the end exactly the window, for
\* every picture, every split into runs and every window that fits into the
\* surface.
THEOREM PaintsInOrder == Spec => []PaintsPictureInOrder
<1>1. PaintInv => PaintsPictureInOrder
  BY WholeWindow DEF PaintInv, PaintsPictureInOrder, ShowsFirst
<1>2. QED
  BY <1>1, PaintInductive, PTL

-----------------------------------------------------------------------------
(* OsdPicture: the geometry of OSD_Set_RLE, for every size of surface and  *)
(* screen, every window and every dirty area                               *)

\* Move two pixels out, keep the far edge: one direction of the rectangle
\* covers the n pixels from lo to hi and stays inside the OSD.
LEMMA Widened ==
  ASSUME NEW lo \in Nat, NEW hi \in Nat, NEW n \in Nat, NEW osd \in Nat,
         lo <= hi, hi < osd, n = hi - lo + 1
  PROVE  /\ Low(lo) \in Nat /\ Size(n, osd) \in Nat
         /\ Low(lo) <= lo /\ hi < Low(lo) + Size(n, osd)
         /\ Low(lo) + Size(n, osd) <= osd
  BY DEF Low, Size

\* Scaling a rectangle keeps it inside: the integer parts add up to at most
\* the integer part of the sum.
LEMMA DivAdds ==
  ASSUME NEW p \in Nat, NEW q \in Nat, NEW d \in Nat \ {0}
  PROVE  (p \div d) + (q \div d) <= (p + q) \div d
  OBVIOUS

\* So a scaled rectangle inside the OSD is inside the screen.
LEMMA ScaledInside ==
  ASSUME NEW low \in Nat, NEW size \in Nat, NEW screen \in Nat \ {0},
         NEW d \in Nat \ {0}, low + size <= d
  PROVE  ((low * screen) \div d) + ((size * screen) \div d) <= screen
<1> DEFINE p == low * screen
           q == size * screen
<1>1. p \in Nat /\ q \in Nat
  OBVIOUS
<1>2. p + q = (low + size) * screen
  OBVIOUS
<1>3. (low + size) * screen <= d * screen
  OBVIOUS
<1>4. (p \div d) + (q \div d) <= (p + q) \div d
  BY <1>1, DivAdds
<1>5. (p + q) \div d <= screen
  BY <1>1, <1>2, <1>3
<1>6. QED
  BY <1>1, <1>4, <1>5

-----------------------------------------------------------------------------
(* The invariant: the command stays one of Windows, and blit, once set, is *)
(* the rectangle of that command.                                          *)

BlitOf ==
  LET x == Low(cmd.x + cmd.x1)
      y == Low(cmd.y + cmd.y1)
      w == Size(cmd.x2 - cmd.x1 + 1, cmd.osdWidth)
      h == Size(cmd.y2 - cmd.y1 + 1, cmd.osdHeight)
  IN [x |-> x, y |-> y, w |-> w, h |-> h, xs |-> ScaleX(x), ys |-> ScaleY(y),
      ws |-> ScaleX(w), hs |-> ScaleY(h)]

BlitInv == cmd \in Windows /\ (pc = "done" => blit = BlitOf)

\* Only Stretch sets blit, and no step changes the command.
THEOREM BlitInductive == Spec => []BlitInv
<1>1. Init => BlitInv
  BY DEF Init, BlitInv
<1>2. BlitInv /\ [Next]_vars => BlitInv'
  <2> SUFFICES ASSUME BlitInv, [Next]_vars PROVE BlitInv'
    OBVIOUS
  <2>1. cmd' = cmd
    BY DEF Next, DecodeElement, StartFill, FillPixel, NextRun, EndFill,
           Stretch, vars
  <2>2. CASE Stretch
    BY <2>1, <2>2 DEF Stretch, BlitInv, BlitOf
  <2>3. CASE pc' # "done"
    BY <2>1, <2>3 DEF BlitInv
  <2>4. CASE UNCHANGED <<pc, blit>>
    BY <2>1, <2>4 DEF BlitInv, BlitOf
  <2>5. QED
    BY <2>2, <2>3, <2>4
       DEF Next, DecodeElement, StartFill, FillPixel, NextRun, EndFill, vars
<1>3. QED
  BY <1>1, <1>2, PTL DEF Spec

\* What the invariant says of the rectangle, one direction at a time.
LEMMA BlitFacts ==
  ASSUME BlitInv, pc = "done"
  PROVE  /\ blit.x \in Nat /\ blit.w \in Nat /\ cmd.osdWidth \in Nat
         /\ blit.x <= cmd.x + cmd.x1 /\ cmd.x + cmd.x2 < blit.x + blit.w
         /\ blit.x + blit.w <= cmd.osdWidth
         /\ blit.y \in Nat /\ blit.h \in Nat /\ cmd.osdHeight \in Nat
         /\ blit.y <= cmd.y + cmd.y1 /\ cmd.y + cmd.y2 < blit.y + blit.h
         /\ blit.y + blit.h <= cmd.osdHeight
<1>1. IsWindow(cmd) /\ blit = BlitOf
  BY WindowsAssumption DEF BlitInv
<1>2. /\ cmd.x \in Nat /\ cmd.w \in Nat /\ cmd.x1 \in Nat /\ cmd.x2 \in Nat
      /\ cmd.osdWidth \in Nat
      /\ cmd.y \in Nat /\ cmd.h \in Nat /\ cmd.y1 \in Nat /\ cmd.y2 \in Nat
      /\ cmd.osdHeight \in Nat
  BY <1>1 DEF IsWindow
<1>3. /\ cmd.x1 <= cmd.x2 /\ cmd.x + cmd.x2 < cmd.osdWidth
      /\ cmd.y1 <= cmd.y2 /\ cmd.y + cmd.y2 < cmd.osdHeight
  BY <1>1, <1>2 DEF IsWindow
<1>4. /\ blit.x = Low(cmd.x + cmd.x1)
      /\ blit.w = Size(cmd.x2 - cmd.x1 + 1, cmd.osdWidth)
      /\ blit.y = Low(cmd.y + cmd.y1)
      /\ blit.h = Size(cmd.y2 - cmd.y1 + 1, cmd.osdHeight)
  BY <1>1 DEF BlitOf
<1>5. /\ blit.x \in Nat /\ blit.w \in Nat
      /\ blit.x <= cmd.x + cmd.x1 /\ cmd.x + cmd.x2 < blit.x + blit.w
      /\ blit.x + blit.w <= cmd.osdWidth
  <2>1. PICK lo \in Nat, hi \in Nat, n \in Nat :
          /\ lo = cmd.x + cmd.x1 /\ hi = cmd.x + cmd.x2
          /\ n = cmd.x2 - cmd.x1 + 1
    BY <1>2, <1>3
  <2>2. lo <= hi /\ hi < cmd.osdWidth /\ n = hi - lo + 1
    BY <2>1, <1>2, <1>3
  <2>3. blit.x = Low(lo) /\ blit.w = Size(n, cmd.osdWidth)
    BY <2>1, <1>4
  <2>4. /\ Low(lo) \in Nat /\ Size(n, cmd.osdWidth) \in Nat
        /\ Low(lo) <= lo /\ hi < Low(lo) + Size(n, cmd.osdWidth)
        /\ Low(lo) + Size(n, cmd.osdWidth) <= cmd.osdWidth
    BY <1>2, <2>2, Widened
  <2>5. QED
    BY <2>1, <2>3, <2>4
<1>6. /\ blit.y \in Nat /\ blit.h \in Nat
      /\ blit.y <= cmd.y + cmd.y1 /\ cmd.y + cmd.y2 < blit.y + blit.h
      /\ blit.y + blit.h <= cmd.osdHeight
  <2>1. PICK lo \in Nat, hi \in Nat, n \in Nat :
          /\ lo = cmd.y + cmd.y1 /\ hi = cmd.y + cmd.y2
          /\ n = cmd.y2 - cmd.y1 + 1
    BY <1>2, <1>3
  <2>2. lo <= hi /\ hi < cmd.osdHeight /\ n = hi - lo + 1
    BY <2>1, <1>2, <1>3
  <2>3. blit.y = Low(lo) /\ blit.h = Size(n, cmd.osdHeight)
    BY <2>1, <1>4
  <2>4. /\ Low(lo) \in Nat /\ Size(n, cmd.osdHeight) \in Nat
        /\ Low(lo) <= lo /\ hi < Low(lo) + Size(n, cmd.osdHeight)
        /\ Low(lo) + Size(n, cmd.osdHeight) <= cmd.osdHeight
    BY <1>2, <2>2, Widened
  <2>5. QED
    BY <2>1, <2>3, <2>4
<1>7. QED
  BY <1>2, <1>5, <1>6

\* The stretched rectangle covers the dirty area and stays inside the OSD,
\* whatever the window, the dirty area and the size of the OSD.
THEOREM BlitCovers == Spec => []BlitCoversDirtyArea
<1>1. BlitInv => BlitCoversDirtyArea
  BY BlitFacts DEF BlitCoversDirtyArea
<1>2. QED
  BY <1>1, BlitInductive, PTL

\* With an OSD up to the default size the destination never leaves the
\* screen, whatever the size of the screen.
THEOREM BlitOnScreen == Spec => []BlitStaysOnScreen
<1>1. BlitInv => BlitStaysOnScreen
  <2> SUFFICES ASSUME BlitInv, pc = "done",
                      cmd.osdWidth <= DefWidth, cmd.osdHeight <= DefHeight
               PROVE  InsideScreen
    BY DEF BlitStaysOnScreen
  <2>1. /\ DefWidth \in Nat \ {0} /\ DefHeight \in Nat \ {0}
        /\ ScreenWidth \in Nat \ {0} /\ ScreenHeight \in Nat \ {0}
    BY SizesAssumption
  <2>2. /\ blit.x \in Nat /\ blit.w \in Nat /\ blit.x + blit.w <= DefWidth
        /\ blit.y \in Nat /\ blit.h \in Nat /\ blit.y + blit.h <= DefHeight
    BY <2>1, BlitFacts
  <2>3. /\ blit.xs = ScaleX(blit.x) /\ blit.ws = ScaleX(blit.w)
        /\ blit.ys = ScaleY(blit.y) /\ blit.hs = ScaleY(blit.h)
    BY DEF BlitInv, BlitOf
  <2>4. blit.xs + blit.ws <= ScreenWidth
    BY <2>1, <2>2, <2>3, ScaledInside DEF ScaleX
  <2>5. blit.ys + blit.hs <= ScreenHeight
    BY <2>1, <2>2, <2>3, ScaledInside DEF ScaleY
  <2>6. QED
    BY <2>4, <2>5 DEF InsideScreen
<1>2. QED
  BY <1>1, BlitInductive, PTL

-----------------------------------------------------------------------------
(* MovieList: escape_string, split_list and do_playlist *)

\* One character as escape_string writes it.
EscapeChar(c) == IF c \in Escaped THEN <<Backslash, c>> ELSE <<c>>

\* The part of the play string that has the names.
ListString(list) ==
  FlattenSeq([k \in DOMAIN list |-> <<Space>> \o EscapeString(list[k])])

\* An escaped character is a sequence of characters.
LEMMA EscapeCharType ==
  ASSUME NEW c \in Chars
  PROVE  EscapeChar(c) \in Seq(Chars)
  BY DEF EscapeChar, Chars

\* Nothing to escape.
LEMMA EscapeEmpty == EscapeString(<<>>) = <<>>
<1>1. [k \in DOMAIN <<>> |-> IF <<>>[k] \in Escaped THEN <<Backslash, <<>>[k]>>
                             ELSE <<<<>>[k]>>] = <<>>
  OBVIOUS
<1>2. QED
  BY <1>1, FlattenEmpty DEF EscapeString

\* escape_string works from the left, one character at a time.
LEMMA EscapeFirst ==
  ASSUME NEW name \in Seq(Chars)
  PROVE  /\ EscapeString(name) \in Seq(Chars)
         /\ name # <<>> =>
              EscapeString(name) = EscapeChar(name[1]) \o EscapeString(Tail(name))
<1> DEFINE s == [k \in DOMAIN name |-> EscapeChar(name[k])]
           u == [k \in DOMAIN Tail(name) |-> EscapeChar(Tail(name)[k])]
<1>1. EscapeString(name) = FlattenSeq(s) /\ EscapeString(Tail(name)) = FlattenSeq(u)
  BY Zenon DEF EscapeString, EscapeChar
<1>2. DOMAIN name = 1..Len(name) /\ Len(name) \in Nat
  OBVIOUS
<1>3. \A k \in 1..Len(name) : EscapeChar(name[k]) \in Seq(Chars)
  BY EscapeCharType
<1>4. s \in [1..Len(name) -> Seq(Chars)]
  BY <1>2, <1>3
<1>5. s \in Seq(Seq(Chars)) /\ Len(s) = Len(name)
  <2> HIDE DEF s
  <2>1. QED
    BY <1>2, <1>4
<1>6. ASSUME name # <<>> PROVE s # <<>> /\ s[1] = EscapeChar(name[1]) /\ Tail(s) = u
  <2>1. Len(name) >= 1 /\ s # <<>>
    BY <1>2, <1>5, <1>6
  <2>2. s[1] = EscapeChar(name[1])
    BY <1>2, <2>1
  <2>3. Tail(s) = u
    <3>1. /\ Tail(name) \in Seq(Chars) /\ Len(Tail(name)) = Len(name) - 1
          /\ DOMAIN Tail(name) = 1..(Len(name) - 1)
          /\ \A k \in 1..(Len(name) - 1) : Tail(name)[k] = name[k + 1]
      BY <1>6
    <3>2. /\ Tail(s) \in Seq(Seq(Chars)) /\ DOMAIN Tail(s) = 1..(Len(name) - 1)
          /\ \A k \in 1..(Len(name) - 1) : Tail(s)[k] = s[k + 1]
      <4> HIDE DEF s
      <4>1. QED
        BY <1>5, <2>1
    <3>3. \A k \in 1..(Len(name) - 1) : s[k + 1] = EscapeChar(name[k + 1])
      BY <1>2
    <3> HIDE DEF s
    <3>4. Tail(s) = [k \in 1..(Len(name) - 1) |-> Tail(s)[k]]
      <4>1. \A t \in Seq(Seq(Chars)) : t = [k \in DOMAIN t |-> t[k]]
        OBVIOUS
      <4>2. QED
        BY <3>2, <4>1
    <3>5. ASSUME NEW k \in 1..(Len(name) - 1)
          PROVE  Tail(s)[k] = EscapeChar(Tail(name)[k])
      BY <3>1, <3>2, <3>3, Zenon
    <3>6. QED
      BY <3>1, <3>4, <3>5, Zenon
  <2>4. QED
    BY <2>1, <2>2, <2>3
<1> HIDE DEF s, u
<1>7. QED
  BY <1>1, <1>5, <1>6, FlattenFirst, FlattenTyped

\* The list begins with a space and its first name.
LEMMA ListFirst ==
  ASSUME NEW list \in Seq(Seq(Chars))
  PROVE  /\ ListString(list) \in Seq(Chars)
         /\ list # <<>> =>
              ListString(list) = (<<Space>> \o EscapeString(list[1]))
                                   \o ListString(Tail(list))
<1> DEFINE Piece(name) == <<Space>> \o EscapeString(name)
           s == [k \in DOMAIN list |-> Piece(list[k])]
           u == [k \in DOMAIN Tail(list) |-> Piece(Tail(list)[k])]
<1>1. ListString(list) = FlattenSeq(s) /\ ListString(Tail(list)) = FlattenSeq(u)
  BY Zenon DEF ListString
<1>2. DOMAIN list = 1..Len(list) /\ Len(list) \in Nat
  OBVIOUS
<1>3. \A k \in 1..Len(list) : Piece(list[k]) \in Seq(Chars)
  <2>1. <<Space>> \in Seq(Chars)
    BY DEF Chars
  <2>2. \A k \in 1..Len(list) : EscapeString(list[k]) \in Seq(Chars)
    BY EscapeFirst
  <2>3. QED
    BY <2>1, <2>2, ConcatProperties
<1> HIDE DEF Piece
<1>4. s \in [1..Len(list) -> Seq(Chars)]
  BY <1>2, <1>3
<1>5. s \in Seq(Seq(Chars)) /\ Len(s) = Len(list)
  <2> HIDE DEF s
  <2>1. QED
    BY <1>2, <1>4
<1>6. ASSUME list # <<>> PROVE s # <<>> /\ s[1] = Piece(list[1]) /\ Tail(s) = u
  <2>1. Len(list) >= 1 /\ s # <<>>
    BY <1>2, <1>5, <1>6
  <2>2. s[1] = Piece(list[1])
    BY <1>2, <2>1
  <2>3. Tail(s) = u
    <3>1. /\ Tail(list) \in Seq(Seq(Chars)) /\ Len(Tail(list)) = Len(list) - 1
          /\ DOMAIN Tail(list) = 1..(Len(list) - 1)
          /\ \A k \in 1..(Len(list) - 1) : Tail(list)[k] = list[k + 1]
      BY <1>6
    <3>2. /\ Tail(s) \in Seq(Seq(Chars)) /\ DOMAIN Tail(s) = 1..(Len(list) - 1)
          /\ \A k \in 1..(Len(list) - 1) : Tail(s)[k] = s[k + 1]
      <4> HIDE DEF s
      <4>1. QED
        BY <1>5, <2>1
    <3>3. \A k \in 1..(Len(list) - 1) : s[k + 1] = Piece(list[k + 1])
      BY <1>2
    <3> HIDE DEF s
    <3>4. Tail(s) = [k \in 1..(Len(list) - 1) |-> Tail(s)[k]]
      <4>1. \A t \in Seq(Seq(Chars)) : t = [k \in DOMAIN t |-> t[k]]
        OBVIOUS
      <4>2. QED
        BY <3>2, <4>1
    <3>5. ASSUME NEW k \in 1..(Len(list) - 1)
          PROVE  Tail(s)[k] = Piece(Tail(list)[k])
      BY <3>1, <3>2, <3>3, Zenon
    <3>6. QED
      BY <3>1, <3>4, <3>5, Zenon
  <2>4. QED
    BY <2>1, <2>2, <2>3
<1> HIDE DEF s, u
<1>7. FlattenSeq(s) \in Seq(Chars)
  BY <1>5, FlattenTyped
<1>8. ASSUME list # <<>> PROVE FlattenSeq(s) = Piece(list[1]) \o FlattenSeq(u)
  BY <1>5, <1>6, <1>8, FlattenFirst
<1>9. QED
  BY <1>1, <1>7, <1>8 DEF Piece

-----------------------------------------------------------------------------
(* Where split_list is in the string of a movie *)

\* The file that " -playlist " leaves in the list, if it is there.
FlagFiles == IF isPls THEN <<File(Flag)>> ELSE <<>>

\* The play list with the first n files of the movie.
FilesTo(n) == FlagFiles \o [k \in 1..n |-> File(names[k])]

\* In front of the flag, behind its first space, or behind its letters.
InFlag ==
  /\ isPls /\ files = <<>>
  /\ \/ element = <<>> /\ rest = <<Space>> \o (<<Letter>> \o (<<Space>> \o ListString(names)))
     \/ element = <<>> /\ rest = <<Letter>> \o (<<Space>> \o ListString(names))
     \/ element = Flag /\ rest = <<Space>> \o ListString(names)

\* In front of the first name.
BeforeNames ==
  element = <<>> /\ files = FlagFiles /\ rest = ListString(names)

\* The names after the n-th.
After(n) == SubSeq(names, n + 1, Len(names))

\* In name n: element has what was read of it, todo is still to come.
InName(n, todo) ==
  /\ element \in Seq(Chars) /\ element \o todo = names[n]
  /\ files = FilesTo(n - 1)
  /\ rest = EscapeString(todo) \o ListString(After(n))

InNames == \E n \in 1..Len(names), todo \in Seq(Chars) : InName(n, todo)

\* What a movie is: some files, none without a name.
Movie ==
  /\ names \in Seq(Seq(Chars)) /\ names # <<>>
  /\ \A n \in DOMAIN names : names[n] # <<>>
  /\ isPls \in BOOLEAN

\* The inductive invariant of split_list.
SplitInv ==
  /\ Movie
  /\ mode \in {"split", "play", "done"}
  /\ mode = "split" => isString = FALSE /\ (InFlag \/ BeforeNames \/ InNames)
  /\ mode # "split" => files = FilesTo(Len(names))

-----------------------------------------------------------------------------
(* Strings and lists *)

\* The string that begins with a character.
LEMMA HeadOfOne ==
  ASSUME NEW c \in Chars, NEW r \in Seq(Chars)
  PROVE  /\ <<c>> \o r \in Seq(Chars) /\ <<c>> \o r # <<>>
         /\ Head(<<c>> \o r) = c /\ Tail(<<c>> \o r) = r
  OBVIOUS

\* The string that begins with two characters.
LEMMA HeadOfTwo ==
  ASSUME NEW c \in Chars, NEW d \in Chars, NEW r \in Seq(Chars), NEW s,
         s = <<c, d>> \o r
  PROVE  /\ s # <<>> /\ Len(s) > 1 /\ Head(s) = c /\ s[2] = d
         /\ SubSeq(s, 3, Len(s)) = r
<1>1. s \in Seq(Chars) /\ Len(s) = Len(r) + 2 /\ Len(r) \in Nat
  OBVIOUS
<1>2. s[1] = c /\ s[2] = d /\ \A k \in 1..Len(r) : s[k + 2] = r[k]
  OBVIOUS
<1>3. SubSeq(s, 3, Len(s)) = r
  <2>1. /\ SubSeq(s, 3, Len(s)) \in Seq(Chars) /\ Len(SubSeq(s, 3, Len(s))) = Len(r)
        /\ \A k \in 1..Len(r) : SubSeq(s, 3, Len(s))[k] = s[k + 2]
    BY <1>1
  <2>2. \A k \in 1..Len(r) : SubSeq(s, 3, Len(s))[k] = r[k]
    BY <1>2, <2>1, Zenon
  <2>3. QED
    BY <2>1, <2>2, SeqEqual
<1>4. QED
  BY <1>1, <1>2, <1>3

\* Moving the first character of todo to the end of e keeps the two together.
LEMMA MoveChar ==
  ASSUME NEW e \in Seq(Chars), NEW todo \in Seq(Chars), todo # <<>>
  PROVE  /\ todo[1] \in Chars /\ Tail(todo) \in Seq(Chars)
         /\ Append(e, todo[1]) \in Seq(Chars)
         /\ Append(e, todo[1]) \o Tail(todo) = e \o todo
  OBVIOUS

\* What the string has after name n: nothing, or a space, the next name and
\* what is after that.
LEMMA AfterFirst ==
  ASSUME Movie, NEW n \in 0..Len(names)
  PROVE  /\ After(n) \in Seq(Seq(Chars))
         /\ ListString(After(n)) \in Seq(Chars)
         /\ n = Len(names) => ListString(After(n)) = <<>>
         /\ n # Len(names) =>
              /\ n + 1 \in 1..Len(names)
              /\ names[n + 1] \in Seq(Chars) /\ names[n + 1] # <<>>
              /\ EscapeString(names[n + 1]) \in Seq(Chars)
              /\ ListString(After(n + 1)) \in Seq(Chars)
              /\ ListString(After(n)) =
                   <<Space>> \o (EscapeString(names[n + 1]) \o ListString(After(n + 1)))
<1>1. names \in Seq(Seq(Chars)) /\ Len(names) \in Nat /\ n \in Nat
  BY DEF Movie
<1>2. After(n) \in Seq(Seq(Chars)) /\ Len(After(n)) = Len(names) - n
  BY <1>1 DEF After
<1>3. ASSUME n = Len(names) PROVE ListString(After(n)) = <<>>
  <2>1. After(n) = <<>>
    BY <1>1, <1>2, <1>3
  <2>2. [k \in DOMAIN <<>> |-> <<Space>> \o EscapeString(<<>>[k])] = <<>>
    OBVIOUS
  <2>3. QED
    BY <2>1, <2>2, FlattenEmpty DEF ListString
<1>4. ASSUME n # Len(names)
      PROVE  /\ n + 1 \in 1..Len(names)
             /\ names[n + 1] \in Seq(Chars) /\ names[n + 1] # <<>>
             /\ EscapeString(names[n + 1]) \in Seq(Chars)
             /\ ListString(After(n + 1)) \in Seq(Chars)
             /\ ListString(After(n)) =
                  <<Space>> \o (EscapeString(names[n + 1]) \o ListString(After(n + 1)))
  <2>1. n + 1 \in 1..Len(names) /\ names[n + 1] \in Seq(Chars)
    BY <1>1, <1>4
  <2>2. names[n + 1] # <<>>
    BY <1>1, <2>1 DEF Movie
  <2>3. n \in 0..(Len(names) - 1) /\ n + 1 \in 0..Len(names)
    BY <1>1, <1>4
  <2>4. /\ After(n) # <<>> /\ After(n)[1] = names[n + 1]
        /\ Tail(After(n)) = After(n + 1)
    BY <1>1, <2>3, TailAfter DEF After
  <2>5. After(n + 1) \in Seq(Seq(Chars))
    BY <1>1, <2>3, SubSeqAfter DEF After
  <2> DEFINE p == EscapeString(names[n + 1])
             q == ListString(After(n + 1))
  <2>6. p \in Seq(Chars) /\ q \in Seq(Chars)
    BY <2>1, <2>5, EscapeFirst, ListFirst
  <2>7. ListString(After(n)) = (<<Space>> \o p) \o q
    BY <1>2, <2>4, ListFirst
  <2>8. (<<Space>> \o p) \o q = <<Space>> \o (p \o q)
    <3> HIDE DEF p, q
    <3>1. <<Space>> \in Seq(Chars)
      BY DEF Chars
    <3>2. QED
      BY <2>6, <3>1, ConcatAssociative
  <2>9. QED
    BY <2>1, <2>2, <2>6, <2>7, <2>8
<1>5. QED
  BY <1>2, <1>3, <1>4, ListFirst

\* The play list grows by the next file.
LEMMA FilesNext ==
  ASSUME NEW n \in Nat \ {0}
  PROVE  Append(FilesTo(n - 1), File(names[n])) = FilesTo(n)
<1> DEFINE T == {File(Flag)} \cup {File(names[k]) : k \in 1..n}
           g == [k \in 1..n |-> File(names[k])]
           p == [k \in 1..(n - 1) |-> g[k]]
<1>1. FlagFiles \in Seq(T)
  <2>1. File(Flag) \in T
    OBVIOUS
  <2> HIDE DEF T
  <2>2. <<File(Flag)>> \in Seq(T) /\ <<>> \in Seq(T)
    <3> DEFINE f == File(Flag)
    <3> HIDE DEF f
    <3>1. QED
      BY <2>1 DEF f
  <2>3. QED
    BY <2>2, Zenon DEF FlagFiles
<1>2. g \in [1..n -> T] /\ g[n] = File(names[n]) /\ g[n] \in T
  OBVIOUS
<1>3. p = [k \in 1..(n - 1) |-> File(names[k])]
  OBVIOUS
<1>4. FilesTo(n) = FlagFiles \o g /\ FilesTo(n - 1) = FlagFiles \o p
  BY <1>3, Zenon DEF FilesTo
<1> HIDE DEF g, T
<1>5. p \in Seq(T) /\ Append(p, g[n]) = g
  BY <1>2, AppendLast
<1> HIDE DEF p
<1>6. Append(FlagFiles \o p, g[n]) = FlagFiles \o g
  <2>1. Append(FlagFiles \o p, g[n]) = FlagFiles \o Append(p, g[n])
    <3> DEFINE v == FlagFiles
               w == g[n]
    <3>1. v \in Seq(T) /\ w \in T /\ p \in Seq(T)
      BY <1>1, <1>2, <1>5, Zenon
    <3> HIDE DEF v, w
    <3>2. Append(v \o p, w) = v \o Append(p, w)
      BY <3>1
    <3>3. QED
      BY <3>2 DEF v, w
  <2>2. QED
    BY <1>5, <2>1, Zenon
<1>7. QED
  BY <1>2, <1>4, <1>6, Zenon

-----------------------------------------------------------------------------
(* The steps of split_list *)

\* What no step of split_list changes.
MovieSame == UNCHANGED <<names, isPls, fileIdx, keyed, played>>

\* What split_list does with a space outside of a string.
LEMMA OnSpace ==
  ASSUME mode = "split", isString = FALSE, rest # <<>>, Head(rest) = Space, Split
  PROVE  /\ files' = AddElement /\ element' = <<>> /\ rest' = Tail(rest)
         /\ mode' = "split" /\ isString' = FALSE /\ MovieSame
  BY DEF Split, EndsElement, TakeEscaped, TakeChar, EndSplit, IsEscape, MovieSame,
         Space, Backslash

\* What it does with a character that is not special.
LEMMA OnPlain ==
  ASSUME mode = "split", isString = FALSE, rest # <<>>, Head(rest) \in Chars \ Escaped,
         Split
  PROVE  /\ element' = Append(element, Head(rest)) /\ rest' = Tail(rest)
         /\ files' = files /\ mode' = "split" /\ isString' = FALSE /\ MovieSame
  BY DEF Split, EndsElement, TakeEscaped, TakeChar, EndSplit, IsEscape, MovieSame, Escaped

\* What it does with a backslash and the character it escapes.
LEMMA OnEscape ==
  ASSUME mode = "split", isString = FALSE, rest # <<>>, Head(rest) = Backslash,
         Len(rest) > 1, Split
  PROVE  /\ element' = Append(element, rest[2]) /\ rest' = SubSeq(rest, 3, Len(rest))
         /\ files' = files /\ mode' = "split" /\ isString' = FALSE /\ MovieSame
  BY DEF Split, EndsElement, TakeEscaped, TakeChar, EndSplit, IsEscape, MovieSame,
         Space, Backslash

\* What it does at the end of the string.
LEMMA OnEnd ==
  ASSUME mode = "split", rest = <<>>, Split
  PROVE  mode' = "play" /\ files' = AddElement /\ MovieSame
  BY DEF Split, EndsElement, TakeEscaped, TakeChar, EndSplit, MovieSame

\* A step inside of " -playlist ".
LEMMA FlagStep ==
  ASSUME Movie, mode = "split", isString = FALSE, InFlag, Split
  PROVE  mode' = "split" /\ isString' = FALSE /\ (InFlag \/ BeforeNames)' /\ MovieSame
<1> DEFINE r == ListString(names)
           sr == <<Space>> \o r
           lsr == <<Letter>> \o sr
<1>1. r \in Seq(Chars) /\ Space \in Chars /\ Letter \in Chars \ Escaped
  <2>1. r \in Seq(Chars)
    BY ListFirst DEF Movie
  <2>2. QED
    BY <2>1 DEF Chars, Escaped, Space, Letter, Quote, Backslash
<1> HIDE DEF r
<1>2. /\ sr \in Seq(Chars) /\ sr # <<>> /\ Head(sr) = Space /\ Tail(sr) = r
  BY <1>1, HeadOfOne
<1> HIDE DEF sr
<1>3. /\ lsr \in Seq(Chars) /\ lsr # <<>> /\ Head(lsr) = Letter /\ Tail(lsr) = sr
  BY <1>1, <1>2, HeadOfOne
<1> HIDE DEF lsr
<1>4. <<Space>> \o lsr # <<>> /\ Head(<<Space>> \o lsr) = Space /\ Tail(<<Space>> \o lsr) = lsr
  BY <1>1, <1>3, HeadOfOne
<1>5. /\ isPls /\ files = <<>>
      /\ \/ element = <<>> /\ rest = <<Space>> \o lsr
         \/ element = <<>> /\ rest = lsr
         \/ element = Flag /\ rest = sr
  BY DEF InFlag, lsr, sr, r
<1>6. ASSUME NEW e, NEW s, files' = <<>>, element' = e, rest' = s, names' = names,
             isPls' = isPls, (e = <<>> /\ s = lsr) \/ (e = Flag /\ s = sr)
      PROVE  InFlag'
  BY <1>5, <1>6, Zenon DEF InFlag, lsr, sr, r
<1>7. CASE element = <<>> /\ rest = <<Space>> \o lsr
  <2>1. /\ files' = files /\ element' = <<>> /\ rest' = lsr
        /\ mode' = "split" /\ isString' = FALSE /\ MovieSame
    BY <1>4, <1>7, OnSpace, Zenon DEF AddElement
  <2>2. QED
    BY <1>5, <1>6, <2>1, Zenon DEF MovieSame
<1>8. CASE element = <<>> /\ rest = lsr
  <2>1. /\ files' = files /\ element' = Append(element, Letter) /\ rest' = sr
        /\ mode' = "split" /\ isString' = FALSE /\ MovieSame
    BY <1>1, <1>3, <1>8, OnPlain, Zenon
  <2>2. Append(<<>>, Letter) = Flag
    BY DEF Flag
  <2>3. element' = Flag /\ files' = <<>> /\ names' = names /\ isPls' = isPls
    BY <1>5, <1>8, <2>1, <2>2 DEF MovieSame
  <2>4. QED
    BY <1>6, <2>1, <2>3, Zenon
<1>9. CASE element = Flag /\ rest = sr
  <2>1. /\ files' = AddElement /\ element' = <<>> /\ rest' = r
        /\ mode' = "split" /\ isString' = FALSE /\ MovieSame
    BY <1>2, <1>9, OnSpace, Zenon
  <2>2. Flag # <<>> /\ Append(<<>>, File(Flag)) = <<File(Flag)>>
    BY DEF Flag
  <2>3. AddElement = <<File(Flag)>>
    BY <1>5, <1>9, <2>2, Zenon DEF AddElement
  <2>4. BeforeNames'
    BY <1>5, <2>1, <2>3 DEF BeforeNames, FlagFiles, MovieSame, r
  <2>5. QED
    BY <2>1, <2>4
<1>10. QED
  BY <1>5, <1>7, <1>8, <1>9

\* A step between two names, or at the end of the list.
LEMMA NextName ==
  ASSUME Movie, mode = "split", isString = FALSE, Split,
         NEW n \in 0..Len(names), rest = ListString(After(n)),
         AddElement = FilesTo(n)
  PROVE  \/ /\ mode' = "split" /\ isString' = FALSE /\ InNames' /\ MovieSame
         \/ /\ mode' = "play" /\ files' = FilesTo(Len(names)) /\ MovieSame
<1>1. CASE n = Len(names)
  <2>1. rest = <<>>
    BY <1>1, AfterFirst
  <2>2. QED
    BY <1>1, <2>1, OnEnd
<1>2. CASE n # Len(names)
  <2> DEFINE m == n + 1
             s == EscapeString(names[m]) \o ListString(After(m))
  <2>1. /\ m \in 1..Len(names) /\ names[m] \in Seq(Chars)
        /\ EscapeString(names[m]) \in Seq(Chars) /\ ListString(After(m)) \in Seq(Chars)
        /\ rest = <<Space>> \o s
    BY <1>2, AfterFirst
  <2>2. m - 1 = n
    OBVIOUS
  <2>3. s \in Seq(Chars) /\ Space \in Chars
    BY <2>1, ConcatProperties DEF Chars
  <2> HIDE DEF s, m
  <2>4. rest # <<>> /\ Head(rest) = Space /\ Tail(rest) = s
    BY <2>1, <2>3, HeadOfOne
  <2>5. /\ files' = FilesTo(n) /\ element' = <<>> /\ rest' = s
        /\ mode' = "split" /\ isString' = FALSE /\ MovieSame
    BY <2>4, OnSpace, Zenon
  <2>6. <<>> \in Seq(Chars) /\ <<>> \o names[m] = names[m]
    BY <2>1, ConcatEmptySeq, EmptySeq
  <2>7. InName(m, names[m])'
    BY <2>2, <2>5, <2>6 DEF InName, FilesTo, FlagFiles, After, MovieSame, s
  <2>8. InNames'
    BY <2>1, <2>5, <2>7 DEF InNames, MovieSame
  <2>9. QED
    BY <2>5, <2>8
<1>3. QED
  BY <1>1, <1>2

\* A step inside of a name or at its end.
LEMMA NameStep ==
  ASSUME Movie, mode = "split", isString = FALSE, Split, InNames
  PROVE  \/ /\ mode' = "split" /\ isString' = FALSE /\ InNames' /\ MovieSame
         \/ /\ mode' = "play" /\ files' = FilesTo(Len(names)) /\ MovieSame
<1>1. PICK n \in 1..Len(names), todo \in Seq(Chars) : InName(n, todo)
  BY DEF InNames
<1>2. /\ element \in Seq(Chars) /\ element \o todo = names[n]
      /\ files = FilesTo(n - 1)
      /\ rest = EscapeString(todo) \o ListString(After(n))
  BY <1>1 DEF InName
<1>3. /\ n \in Nat \ {0} /\ n \in 0..Len(names) /\ Len(names) \in Nat
      /\ names[n] # <<>>
  BY DEF Movie
<1> DEFINE q == ListString(After(n))
<1>4. q \in Seq(Chars)
  BY <1>3, AfterFirst
<1>5. CASE todo = <<>>
  <2>1. element = names[n] /\ rest = q
    <3>1. element \o <<>> = element /\ <<>> \o q = q
      BY <1>2, <1>4, ConcatEmptySeq
    <3>2. QED
      BY <1>2, <1>5, <3>1, EscapeEmpty, Zenon
  <2>2. AddElement = FilesTo(n)
    BY <1>2, <1>3, <2>1, FilesNext DEF AddElement
  <2>3. QED
    BY <1>3, <2>1, <2>2, NextName
<1>6. CASE todo # <<>>
  <2> DEFINE c == todo[1]
             r == EscapeString(Tail(todo)) \o q
  <2>1. /\ c \in Chars /\ Tail(todo) \in Seq(Chars)
        /\ Append(element, c) \in Seq(Chars)
        /\ Append(element, c) \o Tail(todo) = names[n]
    BY <1>2, <1>6, MoveChar
  <2>2. EscapeString(Tail(todo)) \in Seq(Chars) /\ EscapeChar(c) \in Seq(Chars)
    BY <2>1, EscapeFirst, EscapeCharType
  <2>3. r \in Seq(Chars)
    BY <1>4, <2>2, ConcatProperties
  <2>4. rest = EscapeChar(c) \o r
    <3>1. EscapeString(todo) = EscapeChar(c) \o EscapeString(Tail(todo))
      BY <1>6, EscapeFirst
    <3> DEFINE x == EscapeChar(c)
               y == EscapeString(Tail(todo))
    <3>2. x \in Seq(Chars) /\ y \in Seq(Chars)
      BY <2>2
    <3>3. rest = (x \o y) \o q
      BY <1>2, <3>1
    <3> HIDE DEF x, y, q
    <3>4. (x \o y) \o q = x \o (y \o q)
      BY <1>4, <3>2, ConcatAssociative
    <3>5. QED
      BY <3>3, <3>4, Zenon DEF x, y
  <2>5. ASSUME element' = Append(element, c), rest' = r, files' = files, MovieSame
        PROVE  InNames'
    <3>1. InName(n, Tail(todo))'
      BY <1>2, <2>1, <2>5, Zenon DEF InName, FilesTo, FlagFiles, After, MovieSame
    <3>2. names' = names
      BY <2>5 DEF MovieSame
    <3>3. QED
      BY <2>1, <3>1, <3>2, Zenon DEF InNames
  <2> HIDE DEF r, c, q
  <2>6. CASE c \in Escaped
    <3>1. Backslash \in Chars /\ EscapeChar(c) = <<Backslash, c>>
      BY <2>6 DEF Chars, EscapeChar
    <3>2. /\ rest # <<>> /\ Len(rest) > 1 /\ Head(rest) = Backslash /\ rest[2] = c
          /\ SubSeq(rest, 3, Len(rest)) = r
      BY <2>1, <2>3, <2>4, <3>1, HeadOfTwo
    <3>3. /\ element' = Append(element, c) /\ rest' = r
          /\ files' = files /\ mode' = "split" /\ isString' = FALSE /\ MovieSame
      BY <3>2, OnEscape, Zenon
    <3>4. QED
      BY <2>5, <3>3, Zenon
  <2>7. CASE c \notin Escaped
    <3>1. EscapeChar(c) = <<c>>
      BY <2>7 DEF EscapeChar
    <3>2. rest # <<>> /\ Head(rest) = c /\ Tail(rest) = r
      BY <2>1, <2>3, <2>4, <3>1, HeadOfOne
    <3>3. /\ element' = Append(element, c) /\ rest' = r
          /\ files' = files /\ mode' = "split" /\ isString' = FALSE /\ MovieSame
      BY <2>1, <2>7, <3>2, OnPlain
    <3>4. QED
      BY <2>5, <3>3, Zenon
  <2>8. QED
    BY <2>6, <2>7
<1>7. QED
  BY <1>5, <1>6

\* No step changes the movie.
LEMMA MovieStays ==
  ASSUME Movie, UNCHANGED <<names, isPls>>
  PROVE  Movie'
  BY DEF Movie

\* split_list is always somewhere in the flag or in one of the names, with the
\* files before it in the list and the characters before it in element.
THEOREM SplitInductive == MovieSpec => []SplitInv
<1>1. MovieInit => SplitInv
  <2> SUFFICES ASSUME MovieInit PROVE SplitInv
    OBVIOUS
  <2>1. PICK n \in 1..MaxFiles : names \in [1..n -> Names]
    BY DEF MovieInit
  <2>2. Movie
    <3>1. Names \subseteq Seq(Chars) /\ \A k \in 1..n : names[k] # <<>>
      BY <2>1, NamesAssumption
    <3>2. n \in Nat \ {0}
      BY <2>1, BoundAssumption
    <3>3. names \in [1..n -> Seq(Chars)]
      BY <2>1, <3>1
    <3>4. names \in Seq(Seq(Chars)) /\ Len(names) = n /\ DOMAIN names = 1..n
      BY <3>2, <3>3
    <3>5. names # <<>>
      BY <3>2, <3>4
    <3>6. QED
      BY <3>1, <3>4, <3>5 DEF Movie, MovieInit
  <2>3. ListString(names) \in Seq(Chars)
    BY <2>2, ListFirst DEF Movie
  <2>4. rest = (IF isPls THEN (<<Space>> \o Flag) \o <<Space>> ELSE <<>>) \o ListString(names)
    BY Zenon DEF MovieInit, PlayString, ListString
  <2> DEFINE q == ListString(names)
  <2> HIDE DEF q
  <2>5. CASE isPls
    <3>1. rest = ((<<Space>> \o <<Letter>>) \o <<Space>>) \o q
      BY <2>4, <2>5, Zenon DEF q, Flag
    <3>2. Space \in Chars /\ Letter \in Chars /\ q \in Seq(Chars)
      BY <2>3 DEF Chars, q
    <3>3. rest = <<Space>> \o (<<Letter>> \o (<<Space>> \o q))
      <4>1. <<Space>> \in Seq(Chars) /\ <<Letter>> \in Seq(Chars)
        BY <3>2
      <4> DEFINE x == <<Space>>
                 y == <<Letter>>
      <4>2. x \in Seq(Chars) /\ y \in Seq(Chars)
        BY <4>1
      <4> HIDE DEF x, y
      <4>3. ((x \o y) \o x) \o q = (x \o y) \o (x \o q)
        BY <3>2, <4>2, ConcatAssociative, ConcatProperties
      <4>4. (x \o y) \o (x \o q) = x \o (y \o (x \o q))
        BY <3>2, <4>2, ConcatAssociative, ConcatProperties
      <4>5. QED
        BY <3>1, <4>3, <4>4, Zenon DEF x, y
    <3>4. InFlag
      BY <2>5, <3>3, Zenon DEF InFlag, MovieInit, q
    <3>5. QED
      BY <2>2, <3>4 DEF SplitInv, MovieInit
  <2>6. CASE ~ isPls
    <3>1. rest = <<>> \o ListString(names)
      BY <2>4, <2>6, Zenon
    <3>2. BeforeNames
      BY <2>3, <2>6, <3>1, ConcatEmptySeq, Zenon DEF BeforeNames, FlagFiles, MovieInit
    <3>3. QED
      BY <2>2, <3>2 DEF SplitInv, MovieInit
  <2>7. QED
    BY <2>5, <2>6
<1>2. SplitInv /\ [MovieNext]_movieVars => SplitInv'
  <2> SUFFICES ASSUME SplitInv, [MovieNext]_movieVars PROVE SplitInv'
    OBVIOUS
  <2>0. Movie
    BY DEF SplitInv
  <2>1. CASE Split
    <3>1. mode = "split"
      BY <2>1 DEF Split, EndsElement, TakeEscaped, TakeChar, EndSplit
    <3>2. \/ /\ mode' = "split" /\ isString' = FALSE
             /\ (InFlag \/ BeforeNames \/ InNames)' /\ MovieSame
          \/ /\ mode' = "play" /\ files' = FilesTo(Len(names)) /\ MovieSame
      <4>1. CASE InFlag
        BY <2>0, <2>1, <3>1, <4>1, FlagStep DEF SplitInv
      <4>2. CASE BeforeNames
        <5>1. /\ 0 \in 0..Len(names) /\ After(0) = names
              /\ AddElement = FilesTo(0)
          <6>1. names \in Seq(Seq(Chars)) /\ Len(names) \in Nat
            BY <2>0 DEF Movie
          <6>2. After(0) = names
            BY <6>1 DEF After
          <6>3. FlagFiles \o <<>> = FlagFiles
            <7>1. FlagFiles \in Seq({File(Flag)})
              <8> DEFINE f == File(Flag)
              <8> HIDE DEF f
              <8>1. <<f>> \in Seq({f}) /\ <<>> \in Seq({f})
                OBVIOUS
              <8>2. QED
                BY <8>1, Zenon DEF FlagFiles, f
            <7>2. QED
              BY <7>1, ConcatEmptySeq
          <6>4. [k \in 1..0 |-> File(names[k])] = <<>>
            OBVIOUS
          <6>5. QED
            <7>1. 0 \in 0..Len(names)
              BY <6>1
            <7>2. AddElement = FilesTo(0)
              BY <4>2, <6>3, <6>4, Zenon DEF BeforeNames, AddElement, FilesTo
            <7>3. QED
              BY <6>2, <7>1, <7>2
        <5>2. QED
          BY <2>0, <2>1, <3>1, <4>2, <5>1, NextName DEF SplitInv, BeforeNames
      <4>3. CASE InNames
        BY <2>0, <2>1, <3>1, <4>3, NameStep DEF SplitInv
      <4>4. QED
        BY <3>1, <4>1, <4>2, <4>3 DEF SplitInv
    <3>3. MovieSame /\ Movie'
      BY <2>0, <3>2, MovieStays DEF MovieSame
    <3>4. CASE mode' = "split"
      BY <3>2, <3>3, <3>4 DEF SplitInv
    <3>5. CASE mode' = "play" /\ files' = FilesTo(Len(names))
      BY <3>3, <3>5 DEF SplitInv, MovieSame, FilesTo, FlagFiles
    <3>6. QED
      BY <3>2, <3>4, <3>5
  <2>2. ASSUME mode # "split", mode' \in {"play", "done"},
               UNCHANGED <<names, isPls, files>>
        PROVE  SplitInv'
    BY <2>0, <2>2, MovieStays DEF SplitInv, FilesTo, FlagFiles
  <2>3. CASE Previous
    BY <2>2, <2>3 DEF Previous, Plays
  <2>4. CASE Forward
    BY <2>2, <2>4 DEF Forward, Plays
  <2>5. CASE Stop
    BY <2>2, <2>5 DEF Stop, Plays
  <2>6. CASE UNCHANGED movieVars
    BY <2>6 DEF movieVars, SplitInv, Movie, InFlag, BeforeNames, InNames, InName, FilesTo,
                FlagFiles, After
  <2>7. QED
    BY <2>1, <2>3, <2>4, <2>5, <2>6 DEF MovieNext
<1>3. QED
  BY <1>1, <1>2, PTL DEF MovieSpec

\* split_list undoes escape_string: the play list has the files of the movie
\* and no others, in order, whatever characters the names are made of.
THEOREM SplittingRestoresFiles == MovieSpec => []SplitRestoresFiles
<1>1. SplitInv => SplitRestoresFiles
  <2>1. SplitInv => DOMAIN names = 1..Len(names)
    BY DEF SplitInv, Movie
  <2>2. QED
    BY <2>1, Zenon DEF SplitInv, SplitRestoresFiles, FilesTo, FlagFiles
<1>2. QED
  BY <1>1, SplitInductive, PTL

-----------------------------------------------------------------------------
(* do_playlist *)

\* The numbers of the first n files, in order.
FirstFiles(n) == [k \in 1..n |-> k - 1]

\* The inductive invariant of do_playlist, on top of the one of split_list.
PlayInv ==
  /\ keyed \in BOOLEAN
  /\ mode = "split" => fileIdx = 0 /\ keyed = FALSE /\ played = <<>>
  /\ mode = "play" =>
       /\ fileIdx \in 0..(Len(files) - 1)
       /\ keyed = FALSE => played = FirstFiles(fileIdx)
  /\ mode = "done" => (keyed = FALSE => played = FirstFiles(Len(files)))

\* The play list is never empty.
LEMMA FilesThere ==
  ASSUME SplitInv, mode # "split"
  PROVE  Len(files) \in Nat \ {0} /\ DOMAIN files = 1..Len(files)
<1> DEFINE T == {File(Flag)} \cup {File(names[k]) : k \in 1..Len(names)}
           g == [k \in 1..Len(names) |-> File(names[k])]
<1>1. Len(names) \in Nat \ {0}
  BY DEF SplitInv, Movie
<1>2. FlagFiles \in Seq(T) /\ g \in Seq(T) /\ Len(g) = Len(names)
  <2>1. g \in [1..Len(names) -> T]
    OBVIOUS
  <2>2. File(Flag) \in T
    OBVIOUS
  <2> DEFINE f == File(Flag)
  <2> HIDE DEF T, f, g
  <2>3. <<f>> \in Seq(T) /\ <<>> \in Seq(T)
    BY <2>2 DEF f
  <2>4. FlagFiles \in Seq(T)
    BY <2>3, Zenon DEF FlagFiles, f
  <2>5. g \in Seq(T) /\ Len(g) = Len(names)
    BY <1>1, <2>1
  <2>6. QED
    BY <2>4, <2>5
<1>3. files = FlagFiles \o g
  BY Zenon DEF SplitInv, FilesTo
<1> DEFINE v == FlagFiles
<1> HIDE DEF T, g, v
<1>4. v \in Seq(T) /\ files = v \o g
  BY <1>2, <1>3 DEF v
<1>5. QED
  BY <1>1, <1>2, <1>4

\* One file more.
LEMMA FirstFilesNext ==
  ASSUME NEW n \in Nat
  PROVE  Append(FirstFiles(n), n) = FirstFiles(n + 1)
<1> DEFINE g == [k \in 1..(n + 1) |-> k - 1]
           m == n + 1
<1>1. g \in [1..m -> Int] /\ g[m] = n /\ m - 1 = n /\ m \in Nat \ {0}
  OBVIOUS
<1>2. [k \in 1..n |-> g[k]] = FirstFiles(n)
  BY DEF FirstFiles
<1>3. g = FirstFiles(n + 1)
  BY DEF FirstFiles
<1> HIDE DEF g, m
<1>4. Append([k \in 1..(m - 1) |-> g[k]], g[m]) = g
  BY <1>1, AppendLast
<1>5. QED
  BY <1>1, <1>2, <1>3, <1>4, Zenon

\* As long as no key is pressed, the files before fileIdx have been played,
\* each once and in order.
THEOREM PlayInductive == MovieSpec => []PlayInv
<1>1. MovieInit => PlayInv
  BY DEF MovieInit, PlayInv
<1> DEFINE Listed == mode # "split" => Len(files) \in Nat \ {0}
<1>0. SplitInv => Listed
  BY FilesThere
<1>2. SplitInv /\ Listed' /\ PlayInv /\ [MovieNext]_movieVars => PlayInv'
  <2> SUFFICES ASSUME SplitInv, Listed', PlayInv, [MovieNext]_movieVars
               PROVE  PlayInv'
    OBVIOUS
  <2>1. mode \in {"split", "play", "done"}
    BY DEF SplitInv
  <2>2. CASE EndsElement \/ TakeEscaped \/ TakeChar
    BY <2>2 DEF PlayInv, EndsElement, TakeEscaped, TakeChar
  <2>3. CASE EndSplit
    <3>1. /\ mode' = "play" /\ fileIdx' = 0 /\ keyed' = FALSE /\ played' = <<>>
      BY <2>3 DEF EndSplit, PlayInv
    <3>2. Len(files') \in Nat \ {0}
      BY <3>1
    <3>3. <<>> = FirstFiles(0)
      BY DEF FirstFiles
    <3>4. fileIdx' \in 0..(Len(files') - 1)
      BY <3>1, <3>2
    <3>5. played' = FirstFiles(fileIdx')
      BY <3>1, <3>3
    <3>6. QED
      BY <3>1, <3>4, <3>5 DEF PlayInv
  <2>4. ASSUME Plays PROVE Len(files) \in Nat \ {0} /\ files' = files /\ mode = "play"
    BY <2>4, FilesThere DEF Plays
  <2>5. CASE Previous
    <3>1. keyed' = TRUE /\ Plays
      BY <2>5 DEF Previous
    <3>2. \/ mode' = "play" /\ fileIdx > 0 /\ fileIdx' = fileIdx - 1
          \/ mode' = "done"
      BY <2>4, <2>5, <3>1 DEF Previous
    <3>3. fileIdx \in 0..(Len(files) - 1) /\ files' = files
      BY <2>4, <3>1 DEF PlayInv
    <3>4. mode' = "play" => fileIdx' \in 0..(Len(files') - 1)
      BY <2>4, <3>1, <3>2, <3>3
    <3>5. QED
      BY <3>1, <3>2, <3>4 DEF PlayInv
  <2>6. CASE Forward
    <3>1. /\ mode = "play" /\ files' = files /\ Len(files) \in Nat \ {0}
          /\ played' = Append(played, fileIdx)
          /\ fileIdx \in 0..(Len(files) - 1) /\ keyed' \in {keyed, TRUE}
          /\ keyed = FALSE => played = FirstFiles(fileIdx)
      BY <2>4, <2>6 DEF Forward, Plays, PlayInv
    <3>2. fileIdx \in Nat /\ keyed \in BOOLEAN
      BY <3>1 DEF PlayInv
    <3>3. keyed' = FALSE => keyed = FALSE /\ played' = FirstFiles(fileIdx + 1)
      BY <3>1, <3>2, FirstFilesNext
    <3>4. CASE HasNext
      <4>1. mode' = "play" /\ fileIdx' = fileIdx + 1
        BY <2>6, <3>1, <3>4 DEF Forward
      <4>2. fileIdx' \in 0..(Len(files') - 1)
        BY <3>1, <3>4, <4>1 DEF HasNext
      <4>3. QED
        BY <3>1, <3>2, <3>3, <4>1, <4>2 DEF PlayInv
    <3>5. CASE ~ HasNext
      <4>1. mode' = "done" /\ fileIdx + 1 = Len(files')
        BY <2>6, <3>1, <3>5 DEF Forward, HasNext
      <4>2. QED
        BY <3>1, <3>2, <3>3, <4>1 DEF PlayInv
    <3>6. QED
      BY <3>4, <3>5
  <2>7. CASE Stop
    BY <2>7 DEF Stop, PlayInv
  <2>8. CASE UNCHANGED movieVars
    BY <2>8 DEF movieVars, PlayInv
  <2>9. QED
    BY <2>2, <2>3, <2>5, <2>6, <2>7, <2>8 DEF MovieNext, Split
<1>3. QED
  BY <1>0, <1>1, <1>2, SplitInductive, PTL DEF MovieSpec

\* do_playlist reads inside the play list wherever the keys lead it, and left
\* alone plays every part of the movie once and in order, for every movie.
THEOREM PlaysParts == MovieSpec => []PlaysListedParts
<1>1. SplitInv /\ PlayInv => PlaysListedParts
  <2> SUFFICES ASSUME SplitInv, PlayInv PROVE PlaysListedParts
    OBVIOUS
  <2>1. mode = "done" => DOMAIN files = 1..Len(files)
    BY FilesThere
  <2>2. mode = "done" /\ ~ keyed => played = FirstFiles(Len(files))
    BY DEF PlayInv
  <2>3. QED
    BY <2>1, <2>2, Zenon DEF PlaysListedParts, PlayInv, FirstFiles
<1>2. QED
  BY <1>1, SplitInductive, PlayInductive, PTL
=============================================================================
