--------------------------- MODULE SequenceLemmas ---------------------------
(***************************************************************************)
(* What FlattenSeq of the community modules returns, and the recursion     *)
(* over 1..n that it and other definitions are made by.  The induction     *)
(* theorems of the library take operators as parameters; here the steps    *)
(* of a recursion are a function, and induction is the least element of a  *)
(* set of numbers.                                                         *)
(***************************************************************************)
EXTENDS SequencesExt, SequenceTheorems, WellFoundedInduction, TLAPS

LEMMA Smallest ==
  ASSUME NEW T \in SUBSET Nat, T # {}
  PROVE  \E x \in T : \A y \in T : x <= y
<1> DEFINE Less == {ss \in Nat \X Nat : ss[1] < ss[2]}
<1>1. IsWellFoundedOn(Less, Nat)
  BY NatLessThanWellFounded DEF OpToRel
<1> HIDE DEF Less
<1>2. PICK x \in T : \A y \in T : ~ (<<y, x>> \in Less)
  BY <1>1, WFMin
<1>3. \A y \in T : ~ (y < x)
  BY <1>2 DEF Less
<1> QED  BY <1>3

LEMMA MinIsLeast ==
  ASSUME NEW T \in SUBSET Nat, T # {}
  PROVE  Min(T) \in T /\ \A y \in T : Min(T) <= y
  BY Smallest DEF Min

\* Induction from m to n, over the set of the numbers that are good.
LEMMA Induction ==
  ASSUME NEW m \in Nat, NEW n \in Nat, NEW Good, m \in Good,
         \A k \in (m + 1)..n : k - 1 \in Good => k \in Good
  PROVE  \A k \in m..n : k \in Good
<1> DEFINE Bad == {k \in m..n : k \notin Good}
<1>1. SUFFICES ASSUME Bad # {}
               PROVE  FALSE
  BY <1>1
<1>2. Bad \in SUBSET Nat
  OBVIOUS
<1>3. PICK k \in Bad : \A y \in Bad : k <= y
  <2> HIDE DEF Bad
  <2> QED  BY <1>1, <1>2, Smallest
<1>4. k \in (m + 1)..n /\ k - 1 \in m..n /\ k - 1 \notin Bad
  BY <1>3
<1> QED  BY <1>3, <1>4

-----------------------------------------------------------------------------
(* Recursion over 1..n, its steps given as a function. *)

Steps(step, n, S) == \A k \in 1..n, v \in S : step[k][v] \in S

Recursion(f, base, step, n, S) ==
    /\ f \in [0..n -> S]
    /\ f[0] = base
    /\ \A k \in 1..n : f[k] = step[k][f[k - 1]]

LEMMA FiniteRecursion ==
  ASSUME NEW S, NEW n \in Nat, NEW base \in S, NEW step, Steps(step, n, S)
  PROVE  \E f : Recursion(f, base, step, n, S)
<1> DEFINE Found == {m \in 0..n : \E f : Recursion(f, base, step, m, S)}
<1>1. 0 \in Found
  <2> DEFINE f == [k \in 0..0 |-> base]
  <2>1. Recursion(f, base, step, 0, S)
    BY DEF Recursion
  <2> HIDE DEF f
  <2> QED  BY <2>1
<1>2. ASSUME NEW m \in (0 + 1)..n, m - 1 \in Found
      PROVE  m \in Found
  <2>1. PICK f : Recursion(f, base, step, m - 1, S)
    BY <1>2
  <2> DEFINE g == [k \in 0..m |-> IF k = m THEN step[m][f[m - 1]] ELSE f[k]]
  <2>2. step[m][f[m - 1]] \in S
    BY <1>2, <2>1 DEF Recursion, Steps
  <2>3. g \in [0..m -> S]
    BY <1>2, <2>1, <2>2 DEF Recursion
  <2>4. g[0] = base /\ \A k \in 1..m : g[k] = step[k][g[k - 1]]
    BY <1>2, <2>1 DEF Recursion
  <2> HIDE DEF g
  <2>5. Recursion(g, base, step, m, S)
    BY <2>3, <2>4 DEF Recursion
  <2> QED  BY <1>2, <2>5
<1>3. \A m \in 0..n : m \in Found
  <2> HIDE DEF Found
  <2> QED  BY <1>1, <1>2, Induction
<1>4. n \in Found
  BY <1>3
<1> QED  BY <1>4

LEMMA RecursionType ==
  ASSUME NEW S, NEW n \in Nat, NEW f, NEW step, Steps(step, n, S), f[0] \in S,
         \A k \in 1..n : f[k - 1] \in S => f[k] = step[k][f[k - 1]]
  PROVE  \A k \in 0..n : f[k] \in S
<1> DEFINE Typed == {k \in 0..n : f[k] \in S}
<1>1. 0 \in Typed
  OBVIOUS
<1>2. ASSUME NEW k \in (0 + 1)..n, k - 1 \in Typed
      PROVE  k \in Typed
  <2>1. k \in 1..n /\ f[k - 1] \in S /\ step[k][f[k - 1]] \in S
    BY <1>2 DEF Steps
  <2> QED  BY <2>1
<1>3. \A k \in 0..n : k \in Typed
  <2> HIDE DEF Typed
  <2> QED  BY <1>1, <1>2, Induction
<1> QED  BY <1>3

-----------------------------------------------------------------------------
(* FlattenSeq, over any set of sequences that is closed under \o. *)

Monoid(T) ==
    /\ <<>> \in T
    /\ \A s \in T : s \o <<>> = s /\ <<>> \o s = s
    /\ \A s, t \in T : s \o t \in T
    /\ \A s, t, u \in T : (s \o t) \o u = s \o (t \o u)

LEMMA SequencesMonoid == \A S : Monoid(Seq(S))
<1> SUFFICES ASSUME NEW S
             PROVE  Monoid(Seq(S))
  OBVIOUS
<1>1. <<>> \in Seq(S) /\ \A s \in Seq(S) : s \o <<>> = s /\ <<>> \o s = s
  BY EmptySeq, ConcatEmptySeq
<1>2. \A s, t \in Seq(S) : s \o t \in Seq(S)
  BY ConcatProperties
<1>3. \A s, t, u \in Seq(S) : (s \o t) \o u = s \o (t \o u)
  BY ConcatAssociative
<1> QED  BY <1>1, <1>2, <1>3 DEF Monoid

LEMMA FlattenSteps ==
  ASSUME NEW T, Monoid(T), NEW seqs \in Seq(T), seqs # <<>>
  PROVE  \E g \in [1..Len(seqs) -> T] :
            /\ g[1] = seqs[1]
            /\ \A i \in 2..Len(seqs) : g[i] = g[i - 1] \o seqs[i]
            /\ FlattenSeq(seqs) = g[Len(seqs)]
<1> DEFINE n == Len(seqs)
           body(h) == [i \in 1..n |-> IF i = 1 THEN seqs[i] ELSE h[i - 1] \o seqs[i]]
           step == [k \in 1..(n - 1) |-> [s \in T |-> s \o seqs[k + 1]]]
           F == CHOOSE h : h = body(h)
<1>1. n \in Nat \ {0} /\ \A i \in 1..n : seqs[i] \in T
  OBVIOUS
<1>2. \A s, t \in T : s \o t \in T
  BY DEF Monoid
<1>3. FlattenSeq(seqs) = F[n]
  BY <1>1 DEF FlattenSeq
<1> HIDE DEF n
<1>4. Steps(step, n - 1, T)
  <2>1. ASSUME NEW k \in 1..(n - 1), NEW s \in T
        PROVE  step[k][s] \in T
    <3>1. k + 1 \in 1..n
      BY <1>1
    <3> QED  BY <1>1, <1>2, <3>1
  <2> QED  BY <2>1 DEF Steps
<1>5. PICK f : Recursion(f, seqs[1], step, n - 1, T)
  <2>1. n - 1 \in Nat /\ seqs[1] \in T
    BY <1>1
  <2> HIDE DEF step
  <2> QED  BY <1>4, <2>1, FiniteRecursion
<1> DEFINE g == [i \in 1..n |-> f[i - 1]]
<1>6. g \in [1..n -> T] /\ g[1] = seqs[1]
  BY <1>1, <1>5 DEF Recursion
<1>7. \A i \in 2..n : g[i] = g[i - 1] \o seqs[i]
  <2> SUFFICES ASSUME NEW i \in 2..n
               PROVE  g[i] = g[i - 1] \o seqs[i]
    OBVIOUS
  <2> DEFINE k == i - 1
  <2>1. k \in 1..(n - 1) /\ k - 1 \in 0..(n - 1) /\ k + 1 = i /\ k \in 1..n /\ i \in 1..n
    BY <1>1
  <2>2. f[k - 1] \in T /\ f[k] = step[k][f[k - 1]]
    BY <1>5, <2>1 DEF Recursion
  <2>4. step[k][f[k - 1]] = f[k - 1] \o seqs[i]
    BY <2>1, <2>2
  <2>5. g[i] = f[k] /\ g[i - 1] = f[k - 1]
    BY <2>1
  <2> QED  BY <2>2, <2>4, <2>5
<1> HIDE DEF g
<1>8. g = body(g)
  <2>1. ASSUME NEW i \in 1..n
        PROVE  g[i] = IF i = 1 THEN seqs[i] ELSE g[i - 1] \o seqs[i]
    <3>1. i = 1 \/ i \in 2..n
      BY <1>1
    <3> QED  BY <1>6, <1>7, <3>1
  <2> QED  BY <1>6, <2>1
<1>9. F = body(F)
  BY <1>8
<1> HIDE DEF F
<1>10. F[1] = seqs[1] /\ \A i \in 2..n : F[i] = F[i - 1] \o seqs[i]
  <2>1. \A i \in 1..n : body(F)[i] = IF i = 1 THEN seqs[i] ELSE F[i - 1] \o seqs[i]
    OBVIOUS
  <2>2. \A i \in 1..n : F[i] = body(F)[i]
    BY <1>9
  <2> HIDE DEF body
  <2>3. 1 \in 1..n /\ \A i \in 2..n : i \in 1..n /\ i # 1
    BY <1>1
  <2> QED  BY <2>1, <2>2, <2>3
<1>11. \A i \in 1..n : F[i] = g[i]
  <2> DEFINE Same == {i \in 1..n : F[i] = g[i]}
  <2>1. 1 \in Same
    BY <1>1, <1>6, <1>10
  <2>2. ASSUME NEW i \in (1 + 1)..n, i - 1 \in Same
        PROVE  i \in Same
    <3>1. i \in 2..n /\ i \in 1..n /\ F[i - 1] = g[i - 1]
      BY <1>1, <2>2
    <3>2. g[i] = g[i - 1] \o seqs[i] /\ F[i] = F[i - 1] \o seqs[i]
      BY <1>7, <1>10, <3>1
    <3> QED  BY <3>1, <3>2
  <2>3. \A i \in 1..n : i \in Same
    <3> HIDE DEF Same
    <3> QED  BY <1>1, <2>1, <2>2, Induction
  <2> QED  BY <2>3
<1>12. FlattenSeq(seqs) = g[n]
  BY <1>1, <1>3, <1>11
<1> QED  BY <1>6, <1>7, <1>12 DEF n

LEMMA FlattenEmpty == FlattenSeq(<<>>) = <<>>
  BY DEF FlattenSeq

LEMMA FlattenType ==
  ASSUME NEW T, Monoid(T), NEW seqs \in Seq(T)
  PROVE  FlattenSeq(seqs) \in T
<1>1. CASE seqs = <<>>
  BY <1>1, FlattenEmpty DEF Monoid
<1>2. CASE seqs # <<>>
  <2>1. PICK g \in [1..Len(seqs) -> T] : FlattenSeq(seqs) = g[Len(seqs)]
    BY <1>2, FlattenSteps
  <2>2. Len(seqs) \in 1..Len(seqs)
    BY <1>2, EmptySeq
  <2> QED  BY <2>1, <2>2
<1> QED  BY <1>1, <1>2

LEMMA FlattenAppend ==
  ASSUME NEW T, Monoid(T), NEW seqs \in Seq(T), NEW last \in T
  PROVE  FlattenSeq(Append(seqs, last)) = FlattenSeq(seqs) \o last
<1> DEFINE more == Append(seqs, last)
           n == Len(seqs)
<1>1. /\ more \in Seq(T) /\ more # <<>> /\ Len(more) = n + 1 /\ n \in Nat
      /\ \A i \in 1..n : more[i] = seqs[i]
      /\ more[n + 1] = last
  BY AppendProperties
<1> HIDE DEF more
<1>2. PICK h \in [1..Len(more) -> T] :
            /\ h[1] = more[1]
            /\ \A i \in 2..Len(more) : h[i] = h[i - 1] \o more[i]
            /\ FlattenSeq(more) = h[Len(more)]
  BY <1>1, FlattenSteps
<1>3. CASE seqs = <<>>
  <2>1. n = 0
    BY <1>3
  <2>2. FlattenSeq(more) = last
    BY <1>1, <1>2, <2>1
  <2>3. <<>> \o last = last
    BY DEF Monoid
  <2> QED  BY <1>3, <2>2, <2>3, FlattenEmpty DEF more
<1>4. CASE seqs # <<>>
  <2>0. n \in 1..n
    BY <1>4, EmptySeq
  <2>1. PICK g \in [1..n -> T] :
              /\ g[1] = seqs[1]
              /\ \A i \in 2..n : g[i] = g[i - 1] \o seqs[i]
              /\ FlattenSeq(seqs) = g[n]
    BY <1>4, FlattenSteps
  <2> HIDE DEF n
  <2>2. \A i \in 1..n : g[i] = h[i]
    <3> DEFINE Same == {i \in 1..n : g[i] = h[i]}
    <3>1. 1 \in Same
      BY <1>1, <1>2, <2>0, <2>1
    <3>2. ASSUME NEW i \in (1 + 1)..n, i - 1 \in Same
          PROVE  i \in Same
      <4>1. i \in 2..n /\ i \in 1..n /\ i \in 2..Len(more)
        BY <1>1, <3>2
      <4>2. g[i] = g[i - 1] \o seqs[i] /\ h[i] = h[i - 1] \o more[i] /\ more[i] = seqs[i]
        BY <1>1, <1>2, <2>1, <4>1
      <4> QED  BY <3>2, <4>1, <4>2
    <3>3. \A i \in 1..n : i \in Same
      <4> HIDE DEF Same
      <4> QED  BY <1>1, <3>1, <3>2, Induction
    <3> QED  BY <3>3
  <2>3. h[n + 1] = h[n] \o last
    <3> DEFINE k == n + 1
    <3>1. k \in 2..Len(more) /\ k - 1 = n /\ more[k] = last
      BY <1>1, <2>0
    <3> HIDE DEF k
    <3>2. h[k] = h[k - 1] \o more[k]
      BY <1>2, <3>1
    <3> QED  BY <3>1, <3>2 DEF k
  <2> QED  BY <1>1, <1>2, <2>0, <2>1, <2>2, <2>3 DEF more
<1> QED  BY <1>3, <1>4

LEMMA ConcatAppend ==
  ASSUME NEW S, NEW s \in Seq(S), NEW t \in Seq(S), NEW e \in S
  PROVE  s \o t \in Seq(S) /\ s \o Append(t, e) = Append(s \o t, e)
  OBVIOUS

LEMMA FlattenConcat ==
  ASSUME NEW T, Monoid(T), NEW s \in Seq(T), NEW t \in Seq(T)
  PROVE  FlattenSeq(s \o t) = FlattenSeq(s) \o FlattenSeq(t)
<1> DEFINE n == Len(t)
           Splits == {k \in 0..n : \A u \in Seq(T) : Len(u) = k =>
                        FlattenSeq(s \o u) = FlattenSeq(s) \o FlattenSeq(u)}
<1>1. FlattenSeq(s) \in T /\ n \in Nat
  BY FlattenType
<1>2. \A x, y, z \in T : (x \o y) \o z = x \o (y \o z)
  BY Zenon DEF Monoid
<1>3. 0 \in Splits
  <2>1. ASSUME NEW u \in Seq(T), Len(u) = 0
        PROVE  FlattenSeq(s \o u) = FlattenSeq(s) \o FlattenSeq(u)
    <3>1. u = <<>>
      BY <2>1, EmptySeq
    <3>2. s \o <<>> = s /\ FlattenSeq(s) \o <<>> = FlattenSeq(s)
      BY <1>1, ConcatEmptySeq DEF Monoid
    <3> QED  BY <3>1, <3>2, FlattenEmpty
  <2> QED  BY <1>1, <2>1
<1>4. ASSUME NEW k \in (0 + 1)..n, k - 1 \in Splits
      PROVE  k \in Splits
  <2>1. ASSUME NEW u \in Seq(T), Len(u) = k
        PROVE  FlattenSeq(s \o u) = FlattenSeq(s) \o FlattenSeq(u)
    <3>1. u # <<>>
      BY <1>4, <2>1, EmptySeq
    <3>2. PICK v \in Seq(T), last \in T : u = Append(v, last)
      BY <3>1, SequenceEmptyOrAppend
    <3>3. Len(v) = k - 1
      BY <2>1, <3>2, AppendProperties
    <3>4. FlattenSeq(s \o v) = FlattenSeq(s) \o FlattenSeq(v)
      BY <1>4, <3>3
    <3>5. s \o v \in Seq(T) /\ s \o u = Append(s \o v, last)
      <4> HIDE DEF n
      <4> QED  BY <3>2, ConcatAppend
    <3>6. FlattenSeq(s \o u) = FlattenSeq(s \o v) \o last
      BY <3>5, FlattenAppend
    <3>7. FlattenSeq(u) = FlattenSeq(v) \o last /\ FlattenSeq(v) \in T
      BY <3>2, FlattenAppend, FlattenType
    <3>8. (FlattenSeq(s) \o FlattenSeq(v)) \o last = FlattenSeq(s) \o (FlattenSeq(v) \o last)
      <4> DEFINE x == FlattenSeq(s)
                 y == FlattenSeq(v)
      <4>1. x \in T /\ y \in T /\ last \in T
        BY <1>1, <3>2, <3>7
      <4> HIDE DEF x, y
      <4>2. (x \o y) \o last = x \o (y \o last)
        BY <1>2, <4>1
      <4> QED  BY <4>2 DEF x, y
    <3> QED  BY <3>4, <3>6, <3>7, <3>8
  <2> QED  BY <1>4, <2>1
<1>5. \A k \in 0..n : k \in Splits
  <2> HIDE DEF Splits, n
  <2> QED  BY <1>1, <1>3, <1>4, Induction
<1>6. n \in Splits
  <2>1. n \in 0..n
    BY <1>1
  <2> QED  BY <1>5, <2>1
<1> QED  BY <1>6

LEMMA FlattenOne ==
  ASSUME NEW T, Monoid(T), NEW piece \in T
  PROVE  FlattenSeq(<<piece>>) = piece
<1>1. <<>> \in Seq(T) /\ Append(<<>>, piece) = <<piece>>
  OBVIOUS
<1>2. FlattenSeq(<<piece>>) = FlattenSeq(<<>>) \o piece
  BY <1>1, FlattenAppend
<1>3. <<>> \o piece = piece
  BY DEF Monoid
<1> QED  BY <1>2, <1>3, FlattenEmpty

-----------------------------------------------------------------------------
(* Parts of sequences *)

LEMMA Joined ==
  ASSUME NEW S, NEW s \in Seq(S), NEW t \in Seq(S)
  PROVE  /\ s \o t \in Seq(S) /\ Len(s \o t) = Len(s) + Len(t)
         /\ \A k \in 1..Len(s) : (s \o t)[k] = s[k]
         /\ \A k \in 1..Len(t) : (s \o t)[Len(s) + k] = t[k]
  OBVIOUS

\* What stands in a sequence from i on.
LEMMA PartIs ==
  ASSUME NEW S, NEW s \in Seq(S), NEW part \in Seq(S), NEW i \in Nat \ {0}, NEW j \in Int,
         j = i + Len(part) - 1, j <= Len(s)
  PROVE  SubSeq(s, i, j) = part <=> \A k \in 1..Len(part) : s[i + k - 1] = part[k]
<1> DEFINE n == Len(part)
           sub == SubSeq(s, i, j)
<1>1. n \in Nat /\ Len(s) \in Nat
  OBVIOUS
<1>2. \A x \in i..j : s[x] \in S
  BY <1>1
<1>3. sub \in Seq(S) /\ Len(sub) = n /\ \A k \in 1..n : sub[k] = s[i + k - 1]
  <2>1. sub \in Seq(S) /\ Len(sub) = (IF i <= j THEN j - i + 1 ELSE 0)
        /\ \A k \in 1..(j - i + 1) : sub[k] = s[i + k - 1]
    BY <1>2, SubSeqProperties
  <2> QED  BY <1>1, <2>1
<1> HIDE DEF sub
<1>4. ASSUME \A k \in 1..n : s[i + k - 1] = part[k]
      PROVE  sub = part
  BY <1>3, <1>4, SeqEqual
<1> QED  BY <1>3, <1>4 DEF sub

LEMMA SplitAt ==
  ASSUME NEW S, NEW s \in Seq(S), NEW i \in 1..(Len(s) + 1)
  PROVE  /\ SubSeq(s, 1, i - 1) \in Seq(S) /\ SubSeq(s, i, Len(s)) \in Seq(S)
         /\ s = SubSeq(s, 1, i - 1) \o SubSeq(s, i, Len(s))
<1> DEFINE n == Len(s)
           h == i - 1
           a == SubSeq(s, 1, h)
           b == SubSeq(s, i, n)
<1>1. n \in Nat /\ i \in 1..(n + 1) /\ h \in 0..n /\ \A x \in 1..n : s[x] \in S
  OBVIOUS
<1>2. a \in Seq(S) /\ Len(a) = h /\ \A k \in 1..h : a[k] = s[k]
  <2>1. \A x \in 1..h : s[x] \in S
    BY <1>1
  <2> HIDE DEF h, n
  <2>2. /\ a \in Seq(S) /\ Len(a) = IF 1 <= h THEN h - 1 + 1 ELSE 0
        /\ \A k \in 1..(h - 1 + 1) : a[k] = s[1 + k - 1]
    BY <1>1, <2>1, SubSeqProperties
  <2> HIDE DEF a
  <2> QED  BY <1>1, <2>2
<1>3. b \in Seq(S) /\ Len(b) = n - h /\ \A k \in 1..(n - h) : b[k] = s[h + k]
  <2>1. \A x \in i..n : s[x] \in S
    BY <1>1
  <2> HIDE DEF n
  <2>2. /\ b \in Seq(S) /\ Len(b) = IF i <= n THEN n - i + 1 ELSE 0
        /\ \A k \in 1..(n - i + 1) : b[k] = s[i + k - 1]
    BY <1>1, <2>1, SubSeqProperties
  <2> HIDE DEF b
  <2>3. \A k \in 1..(n - h) : i + k - 1 = h + k /\ k \in 1..(n - i + 1)
    BY <1>1
  <2> QED  BY <1>1, <2>2, <2>3
<1> HIDE DEF a, b
<1>4. /\ a \o b \in Seq(S) /\ Len(a \o b) = Len(a) + Len(b)
      /\ \A k \in 1..Len(a) : (a \o b)[k] = a[k]
      /\ \A k \in 1..Len(b) : (a \o b)[Len(a) + k] = b[k]
  <2>1. a \in Seq(S) /\ b \in Seq(S)
    BY <1>2, <1>3
  <2> QED  BY <2>1, Joined
<1> HIDE DEF n, h
<1>5. ASSUME NEW k \in 1..n
      PROVE  s[k] = (a \o b)[k]
  <2>1. CASE k \in 1..h
    BY <1>2, <1>4, <2>1
  <2>2. CASE k \notin 1..h
    <3> DEFINE j == k - h
    <3>1. j \in 1..(n - h) /\ k = h + j
      BY <1>1, <2>2
    <3> HIDE DEF j
    <3> QED  BY <1>2, <1>3, <1>4, <3>1
  <2> QED  BY <2>1, <2>2
<1>6. s = a \o b
  <2>1. Len(s) = n /\ Len(a \o b) = n
    BY <1>1, <1>2, <1>3, <1>4 DEF n
  <2> HIDE DEF n
  <2> QED  BY <1>4, <1>5, <2>1, SeqEqual
<1> QED  BY <1>2, <1>3, <1>6 DEF a, b, n, h

-----------------------------------------------------------------------------
(* What becomes of the elements of a sequence, one by one. *)

Maps(f, S, T) == f \in [S -> T]

Pieces(f, s) == [k \in DOMAIN s |-> f[s[k]]]

LEMMA PiecesType ==
  ASSUME NEW S, NEW T, NEW f, Maps(f, S, T), NEW s \in Seq(S)
  PROVE  /\ Pieces(f, s) \in Seq(T) /\ Len(Pieces(f, s)) = Len(s)
         /\ \A k \in 1..Len(s) : Pieces(f, s)[k] = f[s[k]]
<1>1. Len(s) \in Nat /\ DOMAIN s = 1..Len(s) /\ \A k \in 1..Len(s) : s[k] \in S
  OBVIOUS
<1>2. Pieces(f, s) = [k \in 1..Len(s) |-> f[s[k]]]
  BY <1>1 DEF Pieces
<1>3. Pieces(f, s) \in [1..Len(s) -> T]
  BY <1>1, <1>2 DEF Maps
<1>4. Pieces(f, s) \in UNION {[1..n -> T] : n \in Nat}
  BY <1>1, <1>3
<1>5. Pieces(f, s) \in Seq(T)
  BY <1>4, SeqDef
<1>6. Len(Pieces(f, s)) = Len(s)
  BY <1>1, <1>3, <1>5, LenProperties
<1> QED  BY <1>2, <1>5, <1>6

LEMMA PiecesConcat ==
  ASSUME NEW S, NEW T, NEW f, Maps(f, S, T), NEW s \in Seq(S), NEW t \in Seq(S)
  PROVE  Pieces(f, s \o t) = Pieces(f, s) \o Pieces(f, t)
<1> DEFINE a == Pieces(f, s)
           b == Pieces(f, t)
           c == Pieces(f, s \o t)
           m == Len(s)
           n == Len(t)
<1>1. m \in Nat /\ n \in Nat /\ s \o t \in Seq(S) /\ Len(s \o t) = m + n
  OBVIOUS
<1>2. /\ \A k \in 1..m : (s \o t)[k] = s[k]
      /\ \A k \in 1..n : (s \o t)[m + k] = t[k]
  OBVIOUS
<1>3. /\ a \in Seq(T) /\ Len(a) = m /\ \A k \in 1..m : a[k] = f[s[k]]
      /\ b \in Seq(T) /\ Len(b) = n /\ \A k \in 1..n : b[k] = f[t[k]]
  <2>1. a \in Seq(T) /\ Len(a) = m /\ \A k \in 1..m : a[k] = f[s[k]]
    BY PiecesType
  <2>2. b \in Seq(T) /\ Len(b) = n /\ \A k \in 1..n : b[k] = f[t[k]]
    BY PiecesType
  <2> QED  BY <2>1, <2>2
<1>4. c \in Seq(T) /\ Len(c) = m + n /\ \A k \in 1..(m + n) : c[k] = f[(s \o t)[k]]
  <2> DEFINE u == s \o t
             l == Len(u)
  <2>1. u \in Seq(S) /\ l = m + n
    BY <1>1
  <2> HIDE DEF u, l, m, n
  <2>2. /\ Pieces(f, u) \in Seq(T) /\ Len(Pieces(f, u)) = Len(u)
        /\ \A k \in 1..Len(u) : Pieces(f, u)[k] = f[u[k]]
    BY <2>1, PiecesType
  <2> QED  BY <2>1, <2>2 DEF u, l
<1> HIDE DEF a, b, c, m, n
<1>5. /\ a \o b \in Seq(T) /\ Len(a \o b) = m + n
      /\ \A k \in 1..m : (a \o b)[k] = a[k]
      /\ \A k \in 1..n : (a \o b)[m + k] = b[k]
  <2>0. a \in Seq(T) /\ b \in Seq(T)
    BY <1>3
  <2>1. /\ a \o b \in Seq(T) /\ Len(a \o b) = Len(a) + Len(b)
        /\ \A k \in 1..Len(a) : (a \o b)[k] = a[k]
        /\ \A k \in 1..Len(b) : (a \o b)[Len(a) + k] = b[k]
    BY <2>0, Joined
  <2> QED  BY <1>3, <2>1
<1>6. ASSUME NEW k \in 1..(m + n)
      PROVE  c[k] = (a \o b)[k]
  <2>1. CASE k \in 1..m
    <3>1. c[k] = f[(s \o t)[k]] /\ (s \o t)[k] = s[k]
      BY <1>2, <1>4, <2>1
    <3> QED  BY <1>3, <1>5, <2>1, <3>1
  <2>2. CASE k \notin 1..m
    <3> DEFINE j == k - m
    <3>1. j \in 1..n /\ k = m + j
      BY <1>1, <2>2
    <3> HIDE DEF j
    <3>2. c[k] = f[(s \o t)[m + j]] /\ (s \o t)[m + j] = t[j]
      BY <1>2, <1>4, <3>1
    <3> QED  BY <1>3, <1>5, <3>1, <3>2
  <2> QED  BY <2>1, <2>2
<1>7. c = a \o b
  BY <1>4, <1>5, <1>6, SeqEqual
<1> QED  BY <1>7 DEF a, b, c

LEMMA PiecesNone == \A f : Pieces(f, <<>>) = <<>>
  BY DEF Pieces

LEMMA PiecesOne ==
  ASSUME NEW S, NEW T, NEW f, Maps(f, S, T), NEW e \in S
  PROVE  Pieces(f, <<e>>) = <<f[e]>>
<1> DEFINE one == <<e>>
           x == f[e]
           p == Pieces(f, one)
<1>1. one \in Seq(S) /\ Len(one) = 1 /\ one[1] = e
  OBVIOUS
<1>2. x \in T
  BY DEF Maps
<1> HIDE DEF one, x
<1>3. /\ p \in Seq(T) /\ Len(p) = Len(one)
      /\ \A k \in 1..Len(one) : p[k] = f[one[k]]
  BY <1>1, PiecesType
<1> HIDE DEF p
<1>4. p \in Seq(T) /\ Len(p) = 1 /\ p[1] = x
  BY <1>1, <1>3 DEF x
<1>5. <<x>> \in Seq(T) /\ Len(<<x>>) = 1 /\ <<x>>[1] = x
  BY <1>2
<1>6. p = <<x>>
  BY <1>4, <1>5, SeqEqual
<1> QED  BY <1>6 DEF p, one, x

LEMMA PiecesAppend ==
  ASSUME NEW S, NEW T, NEW f, Maps(f, S, T), NEW s \in Seq(S), NEW e \in S
  PROVE  /\ Pieces(f, Append(s, e)) = Append(Pieces(f, s), f[e])
         /\ Pieces(f, s) \in Seq(T) /\ f[e] \in T
<1> DEFINE one == <<e>>
           p == Pieces(f, s)
           x == f[e]
<1>1. one \in Seq(S) /\ Append(s, e) = s \o one
  OBVIOUS
<1>2. Pieces(f, one) = <<x>>
  BY PiecesOne
<1>3. p \in Seq(T) /\ x \in T
  <2>1. x \in T
    BY DEF Maps
  <2>2. p \in Seq(T)
    BY PiecesType
  <2> QED  BY <2>1, <2>2
<1> HIDE DEF one, p, x
<1>4. Pieces(f, s \o one) = Pieces(f, s) \o Pieces(f, one)
  BY <1>1, PiecesConcat
<1>5. p \o <<x>> = Append(p, x)
  BY <1>3
<1> QED  BY <1>1, <1>2, <1>3, <1>4, <1>5 DEF p, x

Respects(f, U) ==
    /\ f[<<>>] = <<>>
    /\ \A x, y \in U : f[x \o y] = f[x] \o f[y]

\* A function of sequences that respects \o respects FlattenSeq.
LEMMA FlattenPieces ==
  ASSUME NEW U, Monoid(U), NEW T, Monoid(T), NEW f, Maps(f, U, T), Respects(f, U),
         NEW seqs \in Seq(U)
  PROVE  f[FlattenSeq(seqs)] = FlattenSeq(Pieces(f, seqs))
<1> DEFINE n == Len(seqs)
           Good == {k \in 0..n : \A u \in Seq(U) : Len(u) = k =>
                        f[FlattenSeq(u)] = FlattenSeq(Pieces(f, u))}
<1>1. n \in Nat
  OBVIOUS
<1>2. 0 \in Good
  <2>1. ASSUME NEW u \in Seq(U), Len(u) = 0
        PROVE  f[FlattenSeq(u)] = FlattenSeq(Pieces(f, u))
    <3>1. u = <<>>
      BY <2>1, EmptySeq
    <3> QED  BY <3>1, PiecesNone, FlattenEmpty DEF Respects
  <2> QED  BY <1>1, <2>1
<1>3. ASSUME NEW k \in (0 + 1)..n, k - 1 \in Good
      PROVE  k \in Good
  <2>1. ASSUME NEW u \in Seq(U), Len(u) = k
        PROVE  f[FlattenSeq(u)] = FlattenSeq(Pieces(f, u))
    <3>1. u # <<>>
      BY <1>3, <2>1, EmptySeq
    <3>2. PICK v \in Seq(U), last \in U : u = Append(v, last)
      BY <3>1, SequenceEmptyOrAppend
    <3>3. Len(v) = k - 1
      BY <2>1, <3>2, AppendProperties
    <3>4. f[FlattenSeq(v)] = FlattenSeq(Pieces(f, v))
      BY <1>3, <3>3
    <3>5. FlattenSeq(u) = FlattenSeq(v) \o last /\ FlattenSeq(v) \in U
      BY <3>2, FlattenAppend, FlattenType
    <3>6. f[FlattenSeq(u)] = f[FlattenSeq(v)] \o f[last]
      BY <3>5 DEF Respects
    <3> DEFINE p == Pieces(f, v)
               x == f[last]
    <3>7. Pieces(f, u) = Append(p, x) /\ p \in Seq(T) /\ x \in T
      BY <3>2, PiecesAppend
    <3> HIDE DEF p, x
    <3>8. FlattenSeq(Append(p, x)) = FlattenSeq(p) \o x
      BY <3>7, FlattenAppend
    <3> QED  BY <3>4, <3>6, <3>7, <3>8 DEF p, x
  <2> QED  BY <2>1
<1> HIDE DEF Good
<1>4. \A k \in 0..n : k \in Good
  BY <1>1, <1>2, <1>3, Induction
<1>5. n \in Good
  BY <1>1, <1>4
<1> QED  BY <1>5 DEF Good

LEMMA FlattenEmpties ==
  ASSUME NEW seqs \in Seq({<<>>})
  PROVE  FlattenSeq(seqs) = <<>>
<1>1. Monoid({<<>>})
  <2>1. <<>> \o <<>> = <<>>
    BY ConcatEmptySeq, EmptySeq
  <2> QED  BY <2>1 DEF Monoid
<1> QED  BY <1>1, FlattenType

LEMMA FlattenSingles ==
  ASSUME NEW S, NEW s \in Seq(S)
  PROVE  FlattenSeq(Pieces([e \in S |-> <<e>>], s)) = s
<1> DEFINE f == [e \in S |-> <<e>>]
           T == Seq(S)
           n == Len(s)
           Good == {k \in 0..n : \A u \in T : Len(u) = k => FlattenSeq(Pieces(f, u)) = u}
<1>1. n \in Nat /\ Maps(f, S, T) /\ \A e \in S : f[e] = <<e>>
  BY DEF Maps
<1>2. Monoid(T)
  BY SequencesMonoid
<1>3. 0 \in Good
  <2>1. ASSUME NEW u \in Seq(S), Len(u) = 0
        PROVE  u = <<>>
    BY <2>1, EmptySeq
  <2> QED  BY <1>1, <2>1, PiecesNone, FlattenEmpty
<1>4. ASSUME NEW k \in (0 + 1)..n, k - 1 \in Good
      PROVE  k \in Good
  <2>1. ASSUME NEW u \in Seq(S), Len(u) = k
        PROVE  FlattenSeq(Pieces(f, u)) = u
    <3>1. u # <<>>
      BY <1>4, <2>1, EmptySeq
    <3>2. PICK v \in Seq(S), e \in S : u = Append(v, e)
      BY <3>1, SequenceEmptyOrAppend
    <3>3. Len(v) = k - 1
      BY <2>1, <3>2, AppendProperties
    <3>4. FlattenSeq(Pieces(f, v)) = v
      BY <1>4, <3>3
    <3>5. u = v \o f[e]
      <4>1. Append(v, e) = v \o <<e>>
        OBVIOUS
      <4> QED  BY <1>1, <3>2, <4>1
    <3> DEFINE p == Pieces(f, v)
               x == f[e]
    <3> HIDE DEF f, T
    <3>6. Pieces(f, u) = Append(p, x) /\ p \in Seq(T) /\ x \in T
      BY <1>1, <3>2, PiecesAppend
    <3> HIDE DEF p, x
    <3>7. FlattenSeq(Append(p, x)) = FlattenSeq(p) \o x
      BY <1>2, <3>6, FlattenAppend
    <3> QED  BY <3>4, <3>5, <3>6, <3>7 DEF p, x
  <2> QED  BY <2>1
<1> HIDE DEF Good
<1>5. \A k \in 0..n : k \in Good
  BY <1>1, <1>3, <1>4, Induction
<1>6. n \in Good
  BY <1>1, <1>5
<1> QED  BY <1>6 DEF Good
=============================================================================
