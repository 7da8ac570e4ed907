-------------------------- MODULE Inspection_proofs --------------------------
(***************************************************************************)
(* Whatever the files hold, in any number and of any length, what the      *)
(* read-only verbs answer is what the files say, and a caller is told what *)
(* became of its call.  What is asked of components and of graphs is       *)
(* another answer, about which nothing is said here.                       *)
(***************************************************************************)
EXTENDS CommandLine, Listings, RunnerReports, TLAPS, WellFoundedInduction, SequenceTheorems, FiniteSetTheorems

-----------------------------------------------------------------------------
(* Folds.  What FoldLeft computes is the end of a chain of values, one for *)
(* each element of the sequence.                                           *)

\* A set of numbers with 0 and, with each number, the next has them all.
LEMMA EveryNumber ==
  ASSUME NEW T \in SUBSET Nat, 0 \in T, \A n \in T : n + 1 \in T
  PROVE  T = Nat
<1> SUFFICES ASSUME Nat \ T # {} PROVE FALSE
    OBVIOUS
<1> DEFINE Lt == {ss \in Nat \X Nat : ss[1] < ss[2]}
<1>1. IsWellFoundedOn(Lt, Nat) BY NatLessThanWellFounded DEF OpToRel
<1>2. PICK n \in Nat \ T : \A m \in Nat \ T : <<m, n>> \notin Lt
  <2> HIDE DEF Lt
  <2> QED BY <1>1, WFMin
<1>3. \A m \in Nat \ T : ~(m < n) BY <1>2
<1>4. n - 1 \in Nat /\ n - 1 \in T BY <1>3
<1> QED BY <1>4

\* Max is the greatest number of a set, if it has one.
LEMMA MaxIs ==
  ASSUME NEW s \in SUBSET Nat, NEW m \in s, \A y \in s : y <= m
  PROVE  Max(s) = m
<1>1. \E x \in s : \A y \in s : x >= y OBVIOUS
<1>2. Max(s) \in s /\ \A y \in s : Max(s) >= y
  <2> DEFINE c == CHOOSE x : x \in s /\ \A y \in s : x >= y
  <2>1. \E x : x \in s /\ \A y \in s : x >= y BY <1>1
  <2>2. c \in s /\ \A y \in s : c >= y BY <2>1, Zenon
  <2>3. Max(s) = c BY DEF Max
  <2> HIDE DEF c
  <2> QED BY <2>2, <2>3
<1>3. Max(s) \in Nat /\ Max(s) <= m /\ Max(s) >= m BY <1>2
<1> QED BY <1>3

\* A set of numbers up to n that is not empty has a greatest one.
LEMMA GreatestOf ==
  ASSUME NEW n \in Nat, NEW s \in SUBSET (1..n), s # {}
  PROVE  \E m \in s : \A y \in s : y <= m
<1> DEFINE Lt == {ss \in Nat \X Nat : ss[1] < ss[2]}
           gaps == {n - k : k \in s}
<1>1. IsWellFoundedOn(Lt, Nat) BY NatLessThanWellFounded DEF OpToRel
<1>2. gaps \in SUBSET Nat /\ gaps # {}
  <2>1. \A k \in 1..n : n - k \in Nat OBVIOUS
  <2>2. gaps \in SUBSET Nat BY <2>1
  <2> QED BY <2>2
<1>3. PICK g \in gaps : \A y \in gaps : <<y, g>> \notin Lt
  <2> HIDE DEF Lt, gaps
  <2> QED BY <1>1, <1>2, WFMin
<1>4. PICK m \in s : g = n - m OBVIOUS
<1>5. \A y \in s : y <= m
  <2> SUFFICES ASSUME NEW y \in s, y > m PROVE FALSE
      OBVIOUS
  <2>1. n - y \in gaps /\ n - y < n - m /\ n - m \in Nat /\ n - y \in Nat OBVIOUS
  <2> QED BY <1>3, <1>4, <2>1
<1> QED BY <1>5

LEMMA MaxWithin ==
  ASSUME NEW n \in Nat, NEW s \in SUBSET (1..n), s # {}
  PROVE  Max(s) \in 1..n
<1>1. PICK m \in s : \A y \in s : y <= m BY GreatestOf
<1>2. Max(s) = m BY <1>1, MaxIs
<1> QED BY <1>2

\* The function that a fold is defined by, for a step G on values of V.
Folds(iter, base, n, G) ==
  iter = [s \in SUBSET (1..n) |->
            IF s = {} THEN base ELSE G[<<iter[s \ {Max(s)}], Max(s)>>]]

\* There is one, and its values are values of V.
LEMMA FoldExists ==
  ASSUME NEW V, NEW base \in V, NEW n \in Nat, NEW G \in [V \X (1..n) -> V]
  PROVE  \E iter \in [SUBSET (1..n) -> V] : Folds(iter, base, n, G)
<1> DEFINE Has(k) == \E iter \in [SUBSET (1..k) -> V] : Folds(iter, base, k, G)
           T == {k \in Nat : k <= n => Has(k)}
<1>1. 0 \in T
  <2> DEFINE iter == [s \in SUBSET (1..0) |-> base]
  <2>1. SUBSET (1..0) = {{}} OBVIOUS
  <2>2. iter \in [SUBSET (1..0) -> V] /\ Folds(iter, base, 0, G) BY <2>1 DEF Folds
  <2> QED BY <2>2
<1>2. ASSUME NEW k \in T PROVE k + 1 \in T
  <2> SUFFICES ASSUME k + 1 <= n PROVE Has(k + 1)
    <3> HIDE DEF Has
    <3> QED OBVIOUS
  <2>1. k \in Nat /\ k <= n /\ Has(k)
    <3> HIDE DEF Has
    <3> QED OBVIOUS
  <2>2. PICK old \in [SUBSET (1..k) -> V] : Folds(old, base, k, G) BY <2>1
  <2> DEFINE new == [s \in SUBSET (1..(k + 1)) |->
                       IF k + 1 \in s THEN G[<<old[s \ {k + 1}], k + 1>>] ELSE old[s]]
  <2>3. \A s \in SUBSET (1..k) : old[s] = IF s = {} THEN base ELSE G[<<old[s \ {Max(s)}], Max(s)>>]
    BY <2>2 DEF Folds
  <2>4. ASSUME NEW s \in SUBSET (1..(k + 1))
        PROVE  new[s] = IF s = {} THEN base ELSE G[<<new[s \ {Max(s)}], Max(s)>>]
    <3>1. CASE k + 1 \in s
      <4>1. Max(s) = k + 1 BY <2>1, <3>1, MaxIs
      <4>2. s \ {k + 1} \in SUBSET (1..(k + 1)) /\ k + 1 \notin s \ {k + 1} OBVIOUS
      <4>3. new[s \ {k + 1}] = old[s \ {k + 1}] BY <4>2
      <4> QED BY <3>1, <4>1, <4>3
    <3>2. CASE k + 1 \notin s
      <4>1. s \in SUBSET (1..k) BY <2>1, <3>2
      <4>2. new[s] = old[s] BY <3>2
      <4>3. new[s \ {Max(s)}] = old[s \ {Max(s)}] BY <3>2
      <4> QED BY <2>3, <4>1, <4>2, <4>3
    <3> QED BY <3>1, <3>2
  <2>5. ASSUME NEW s \in SUBSET (1..(k + 1)) PROVE new[s] \in V
    <3>1. CASE k + 1 \in s
      <4>1. s \ {k + 1} \in SUBSET (1..k) BY <2>1
      <4>2. <<old[s \ {k + 1}], k + 1>> \in V \X (1..n) BY <2>1, <2>2, <4>1
      <4> QED BY <3>1, <4>2
    <3>2. CASE k + 1 \notin s
      <4>1. s \in SUBSET (1..k) BY <2>1, <3>2
      <4> QED BY <2>2, <3>2, <4>1
    <3> QED BY <3>1, <3>2
  <2>6. new \in [SUBSET (1..(k + 1)) -> V] BY <2>5
  <2>7. Folds(new, base, k + 1, G)
    <3> DEFINE step(s) == IF s = {} THEN base ELSE G[<<new[s \ {Max(s)}], Max(s)>>]
    <3>1. \A s \in SUBSET (1..(k + 1)) : new[s] = step(s) BY <2>4
    <3>2. DOMAIN new = SUBSET (1..(k + 1)) BY <2>6
    <3>3. new = [s \in SUBSET (1..(k + 1)) |-> new[s]] BY <2>6
    <3> HIDE DEF new, step
    <3>4. [s \in SUBSET (1..(k + 1)) |-> new[s]] = [s \in SUBSET (1..(k + 1)) |-> step(s)] BY <3>1
    <3> QED BY <3>3, <3>4 DEF step, Folds
  <2> QED BY <2>6, <2>7
<1>3. T = Nat
  <2>1. T \in SUBSET Nat OBVIOUS
  <2> HIDE DEF T
  <2> QED BY <1>1, <1>2, <2>1, EveryNumber
<1>4. n <= n OBVIOUS
<1> QED BY <1>3, <1>4

\* A function that follows such a step on V, and the values it goes through.
Follows(iter, base, V, n, G) ==
  /\ iter[{}] = base
  /\ \A s \in SUBSET (1..n) : s # {} /\ iter[s \ {Max(s)}] \in V
                                 => iter[s] = G[<<iter[s \ {Max(s)}], Max(s)>>]

Chain(h, base, V, n, G) ==
  h \in [0..n -> V] /\ h[0] = base /\ \A k \in 1..n : h[k] = G[<<h[k - 1], k>>]

ChainOf(iter, n) == [k \in 0..n |-> iter[1..k]]

\* What follows the step goes through a chain of values of V.
LEMMA FoldChain ==
  ASSUME NEW V, NEW base \in V, NEW n \in Nat, NEW G \in [V \X (1..n) -> V],
         NEW iter, Follows(iter, base, V, n, G)
  PROVE  Chain(ChainOf(iter, n), base, V, n, G)
<1> USE DEF Follows, Chain, ChainOf
<1> DEFINE T == {k \in Nat : k <= n => iter[1..k] \in V}
           h == [k \in 0..n |-> iter[1..k]]
<1>1. \A k \in 1..n : iter[1..(k - 1)] \in V => iter[1..k] = G[<<iter[1..(k - 1)], k>>]
  <2> SUFFICES ASSUME NEW k \in 1..n, iter[1..(k - 1)] \in V
               PROVE  iter[1..k] = G[<<iter[1..(k - 1)], k>>]
      OBVIOUS
  <2>1. Max(1..k) = k
    <3>1. 1..k \in SUBSET Nat /\ k \in 1..k /\ \A y \in 1..k : y <= k OBVIOUS
    <3> QED BY <3>1, MaxIs
  <2>2. (1..k) \ {k} = 1..(k - 1) OBVIOUS
  <2>3. 1..k \in SUBSET (1..n) /\ 1..k # {}
    <3>1. \A y \in 1..k : y \in 1..n OBVIOUS
    <3>2. k \in 1..k OBVIOUS
    <3> QED BY <3>1, <3>2
  <2> QED BY <2>1, <2>2, <2>3
<1>2. 0 \in T
  <2>1. 1..0 = {} OBVIOUS
  <2> QED BY <2>1
<1>3. ASSUME NEW k \in T PROVE k + 1 \in T
  <2> SUFFICES ASSUME k + 1 <= n PROVE iter[1..(k + 1)] \in V
      OBVIOUS
  <2>1. k \in Nat /\ iter[1..k] \in V /\ k + 1 \in 1..n /\ (k + 1) - 1 = k OBVIOUS
  <2>2. iter[1..(k + 1)] = G[<<iter[1..k], k + 1>>] BY <1>1, <2>1
  <2>3. <<iter[1..k], k + 1>> \in V \X (1..n) BY <2>1
  <2> QED BY <2>2, <2>3
<1>4. T = Nat
  <2>1. T \in SUBSET Nat OBVIOUS
  <2> HIDE DEF T
  <2> QED BY <1>2, <1>3, <2>1, EveryNumber
<1>5. \A k \in 0..n : iter[1..k] \in V BY <1>4
<1>6. h \in [0..n -> V] BY <1>5
<1>7. h[0] = base /\ h[n] = iter[1..n]
  <2>1. 1..0 = {} OBVIOUS
  <2> QED BY <2>1
<1>8. \A k \in 1..n : h[k] = G[<<h[k - 1], k>>]
  <2> SUFFICES ASSUME NEW k \in 1..n PROVE h[k] = G[<<h[k - 1], k>>]
      OBVIOUS
  <2>1. k \in 0..n /\ k - 1 \in 0..n OBVIOUS
  <2>2. h[k] = iter[1..k] /\ h[k - 1] = iter[1..(k - 1)] BY <2>1
  <2> HIDE DEF h
  <2> QED BY <1>1, <1>5, <2>1, <2>2
<1> QED BY <1>6, <1>7, <1>8

\* The chain of FlattenSeq.
Flattened(h, rows, D) ==
  /\ h \in [0..Len(rows) -> Seq(D)]
  /\ h[0] = <<>> /\ h[Len(rows)] = FlattenSeq(rows)
  /\ \A k \in 1..Len(rows) : h[k] = h[k - 1] \o rows[k]

LEMMA FlattenChain ==
  ASSUME NEW D, NEW rows \in Seq(Seq(D))
  PROVE  \E h : Flattened(h, rows, D)
<1> DEFINE n == Len(rows)
           V == Seq(D)
           G == [p \in V \X (1..n) |-> p[1] \o rows[p[2]]]
           Eq(f) == f = [i \in 1..n |-> IF i = 1 THEN rows[i] ELSE f[i - 1] \o rows[i]]
           F == CHOOSE f : Eq(f)
<1>1. n \in Nat /\ \A k \in 1..n : rows[k] \in V OBVIOUS
<1>2. \A v \in V, k \in 1..n : v \o rows[k] \in V BY <1>1
<1>3. G \in [V \X (1..n) -> V] /\ \A v \in V, k \in 1..n : G[<<v, k>>] = v \o rows[k]
  <2> HIDE DEF V, n
  <2> QED BY <1>2
<1>4. <<>> \in V OBVIOUS
<1>5. PICK iter \in [SUBSET (1..n) -> V] : Folds(iter, <<>>, n, G)
  <2> HIDE DEF V, G, n
  <2> QED BY <1>1, <1>3, <1>4, FoldExists
<1> DEFINE h == ChainOf(iter, n)
<1>6. Chain(h, <<>>, V, n, G)
  <2> HIDE DEF V, G, n
  <2>1. n \in Nat /\ G \in [V \X (1..n) -> V] BY <1>1, <1>3
  <2>2. Follows(iter, <<>>, V, n, G) BY <1>5 DEF Follows, Folds
  <2> QED BY <2>1, <2>2, <1>4, FoldChain
<1> HIDE DEF h
<1>7. h \in [0..n -> V] /\ h[0] = <<>> /\ \A k \in 1..n : h[k] = h[k - 1] \o rows[k]
  <2> HIDE DEF V, G, n
  <2>1. h \in [0..n -> V] /\ h[0] = <<>> BY <1>6 DEF Chain
  <2> SUFFICES ASSUME NEW k \in 1..n PROVE h[k] = h[k - 1] \o rows[k]
      BY <2>1
  <2>2. k - 1 \in 0..n BY <1>1
  <2>3. h[k - 1] \in V BY <2>1, <2>2
  <2> QED BY <1>3, <1>6, <2>3 DEF Chain
<1>8. CASE n = 0
  <2>1. rows = <<>> BY <1>8
  <2>2. FlattenSeq(rows) = <<>> BY <1>8, <2>1 DEF FlattenSeq
  <2> QED BY <1>7, <1>8, <2>2 DEF Flattened
<1>9. CASE n # 0
  <2>1. FlattenSeq(rows) = F[n] BY <1>9 DEF FlattenSeq
  <2> DEFINE f == [i \in 1..n |-> h[i]]
  <2>2. Eq(f)
    <3>1. ASSUME NEW i \in 1..n PROVE f[i] = IF i = 1 THEN rows[i] ELSE f[i - 1] \o rows[i]
      <4>1. CASE i = 1
        <5>0. 1 - 1 = 0 /\ 1 \in 1..n BY <4>1
        <5>1. h[1] = <<>> \o rows[1] BY <1>7, <5>0
        <5>2. <<>> \o rows[1] = rows[1] BY <1>1, <4>1
        <5> QED BY <4>1, <5>1, <5>2
      <4>2. CASE i # 1
        <5>1. i - 1 \in 1..n BY <1>1, <4>2
        <5>2. f[i - 1] = h[i - 1] /\ f[i] = h[i] BY <5>1
        <5> HIDE DEF f
        <5> QED BY <1>7, <4>2, <5>2
      <4> QED BY <4>1, <4>2
    <3> QED BY <3>1
  <2>3. Eq(F)
    <3> HIDE DEF f, Eq
    <3> QED BY <2>2, Zenon
  <2> HIDE DEF F
  <2>4. \A i \in 1..n : F[i] = IF i = 1 THEN rows[i] ELSE F[i - 1] \o rows[i] BY <2>3
  <2> DEFINE T == {k \in Nat : k \in 1..n => F[k] = h[k]}
  <2>5. 0 \in T OBVIOUS
  <2>6. ASSUME NEW k \in T PROVE k + 1 \in T
    <3> SUFFICES ASSUME k + 1 \in 1..n PROVE F[k + 1] = h[k + 1]
        OBVIOUS
    <3>1. PICK j \in 1..n : j = k + 1 /\ j - 1 = k OBVIOUS
    <3>2. h[j] = h[k] \o rows[j] BY <1>7, <3>1
    <3>3. CASE k = 0
      <4>1. <<>> \o rows[j] = rows[j] BY <1>1
      <4>2. h[j] = rows[j] BY <1>7, <3>2, <3>3, <4>1
      <4>3. F[j] = rows[j] BY <2>4, <3>1, <3>3
      <4> QED BY <3>1, <4>2, <4>3
    <3>4. CASE k # 0
      <4>1. k \in 1..n /\ j # 1 BY <3>1, <3>4
      <4>2. F[k] = h[k] BY <4>1
      <4> QED BY <2>4, <3>1, <3>2, <4>1, <4>2
    <3> QED BY <3>3, <3>4
  <2>7. T = Nat
    <3>1. T \in SUBSET Nat OBVIOUS
    <3> HIDE DEF T
    <3> QED BY <2>5, <2>6, <3>1, EveryNumber
  <2>8. n \in T /\ n \in 1..n
    <3>1. n \in 1..n BY <1>1, <1>9
    <3> HIDE DEF T
    <3> QED BY <1>1, <2>7, <3>1
  <2>9. F[n] = h[n] BY <1>1, <2>8
  <2> QED BY <1>7, <2>1, <2>9 DEF Flattened
<1> QED BY <1>8, <1>9

\* A sequence of sequences made one has the elements of each, one after another
\* and nothing else.
Holds(whole, rows, j) ==
  /\ \A k \in 1..j : \E o \in Nat : \A i \in 1..Len(rows[k]) :
        o + i \in 1..Len(whole) /\ whole[o + i] = rows[k][i]
  /\ \A m \in 1..Len(whole) : \E k \in 1..j : \E i \in 1..Len(rows[k]) : whole[m] = rows[k][i]

LEMMA FlattenedHolds ==
  ASSUME NEW D, NEW rows \in Seq(Seq(D))
  PROVE  FlattenSeq(rows) \in Seq(D) /\ Holds(FlattenSeq(rows), rows, Len(rows))
<1>1. PICK n \in Nat : n = Len(rows) OBVIOUS
<1>2. PICK h : Flattened(h, rows, D) BY FlattenChain
<1>3. /\ h \in [0..n -> Seq(D)] /\ h[0] = <<>> /\ h[n] = FlattenSeq(rows)
      /\ \A k \in 1..n : h[k] = h[k - 1] \o rows[k]
    BY <1>1, <1>2 DEF Flattened
<1>4. \A k \in 1..n : rows[k] \in Seq(D) BY <1>1
<1> DEFINE T == {k \in Nat : k <= n => Holds(h[k], rows, k)}
<1>5. 0 \in T BY <1>3 DEF Holds
<1>6. ASSUME NEW j \in T PROVE j + 1 \in T
  <2> SUFFICES ASSUME j + 1 <= n PROVE Holds(h[j + 1], rows, j + 1)
      OBVIOUS
  <2>1. j \in Nat /\ j \in 0..n /\ j + 1 \in 1..n /\ (j + 1) - 1 = j /\ Holds(h[j], rows, j) BY <1>1
  <2>2. PICK a \in Seq(D) : a = h[j] BY <1>3, <2>1
  <2>3. PICK b \in Seq(D) : b = rows[j + 1] BY <1>4, <2>1
  <2>4. PICK c : c = h[j + 1] OBVIOUS
  <2>5. c = a \o b BY <1>3, <2>1, <2>2, <2>3, <2>4
  <2>6. /\ Len(c) = Len(a) + Len(b) /\ Len(a) \in Nat /\ Len(b) \in Nat
        /\ \A i \in 1..Len(a) : c[i] = a[i]
        /\ \A i \in 1..Len(b) : c[Len(a) + i] = b[i]
      BY <2>5
  <2>7. ASSUME NEW k \in 1..(j + 1)
        PROVE  \E o \in Nat : \A i \in 1..Len(rows[k]) : o + i \in 1..Len(c) /\ c[o + i] = rows[k][i]
    <3>1. CASE k = j + 1
      <4>1. \A i \in 1..Len(b) : Len(a) + i \in 1..Len(c) BY <2>6
      <4> QED BY <2>3, <2>6, <3>1, <4>1
    <3>2. CASE k # j + 1
      <4>1. k \in 1..j BY <2>1, <3>2
      <4>2. PICK o \in Nat : \A i \in 1..Len(rows[k]) : o + i \in 1..Len(a) /\ a[o + i] = rows[k][i]
            BY <2>1, <2>2, <4>1 DEF Holds
      <4>3. \A x \in 1..Len(a) : x \in 1..Len(c) BY <2>6
      <4> QED BY <2>6, <4>2, <4>3
    <3> QED BY <3>1, <3>2
  <2>8. ASSUME NEW m \in 1..Len(c)
        PROVE  \E k \in 1..(j + 1) : \E i \in 1..Len(rows[k]) : c[m] = rows[k][i]
    <3>1. CASE m \in 1..Len(a)
      <4>1. PICK k \in 1..j : \E i \in 1..Len(rows[k]) : a[m] = rows[k][i]
            BY <2>1, <2>2, <3>1 DEF Holds
      <4>2. k \in 1..(j + 1) BY <2>1
      <4> QED BY <2>6, <3>1, <4>1, <4>2
    <3>2. CASE m \notin 1..Len(a)
      <4>1. m - Len(a) \in 1..Len(b) /\ Len(a) + (m - Len(a)) = m BY <2>6, <3>2
      <4>2. c[m] = b[m - Len(a)] BY <2>6, <4>1
      <4>3. j + 1 \in 1..(j + 1) BY <2>1
      <4> QED BY <2>3, <4>1, <4>2, <4>3
    <3> QED BY <3>1, <3>2
  <2> QED BY <2>4, <2>7, <2>8 DEF Holds
<1>7. T = Nat
  <2>1. T \in SUBSET Nat OBVIOUS
  <2> HIDE DEF T
  <2> QED BY <1>5, <1>6, <2>1, EveryNumber
<1>8. Holds(h[n], rows, n) BY <1>1, <1>7
<1>9. h[n] \in Seq(D)
  <2>1. n \in 0..n BY <1>1
  <2> QED BY <1>3, <2>1
<1> QED BY <1>1, <1>3, <1>8, <1>9

-----------------------------------------------------------------------------
(* The command line.                                                       *)

\* The layers of an error: codes and other texts.
CodeWords == STRING \cup CodesAll \cup {"cause"}

\* The chain of ErrorCodeOf.
Codes(h, layers) ==
  /\ h \in [0..Len(layers) -> CodesAll]
  /\ h[0] = "Internal" /\ h[Len(layers)] = ErrorCodeOf(layers)
  /\ \A k \in 1..Len(layers) : h[k] = IF layers[k] \in CodesAll THEN layers[k] ELSE h[k - 1]

\* Code after code, from the cause outwards.
LEMMA CodesFold ==
  ASSUME NEW layers \in Seq(CodeWords)
  PROVE  \E h : Codes(h, layers)
<1> DEFINE n == Len(layers)
           V == CodesAll
           step(v, k) == IF layers[k] \in CodesAll THEN layers[k] ELSE v
           G == [p \in V \X (1..n) |-> step(p[1], p[2])]
           Iter(iter) == iter = [x \in SUBSET DOMAIN layers |->
                                   IF x = {} THEN "Internal" ELSE step(iter[x \ {Max(x)}], Max(x))]
           F == CHOOSE iter : Iter(iter)
<1>1. DOMAIN layers = 1..n /\ n \in Nat OBVIOUS
<1>2. ErrorCodeOf(layers) = F[DOMAIN layers] BY DEF ErrorCodeOf, FoldLeft, MapThenFoldSet
<1>3. \A v \in V, k \in 1..n : step(v, k) \in V
  OBVIOUS
<1>4. G \in [V \X (1..n) -> V] /\ \A v \in V, k \in 1..n : G[<<v, k>>] = step(v, k)
  <2> HIDE DEF V, step, n
  <2> QED BY <1>3
<1>b. "Internal" \in V BY DEF CodesAll
<1>5. \E iter : Iter(iter)
  <2> HIDE DEF V, G, n
  <2>2. PICK iter \in [SUBSET (1..n) -> V] : Folds(iter, "Internal", n, G)
    BY <1>1, <1>4, <1>b, FoldExists
  <2> HIDE DEF step
  <2>3. ASSUME NEW x \in SUBSET (1..n), x # {}
        PROVE  G[<<iter[x \ {Max(x)}], Max(x)>>] = step(iter[x \ {Max(x)}], Max(x))
    <3>1. Max(x) \in 1..n BY <1>1, <2>3, MaxWithin
    <3>2. iter[x \ {Max(x)}] \in V BY <2>2
    <3> QED BY <1>4, <3>1, <3>2
  <2>4. Iter(iter) BY <1>1, <2>2, <2>3 DEF Folds
  <2> QED BY <2>4
<1>6. Iter(F) BY <1>5, Zenon
<1> HIDE DEF F
<1>7. F[{}] = "Internal" BY <1>6
<1>8. \A x \in SUBSET (1..n) :
        x # {} /\ F[x \ {Max(x)}] \in V => F[x] = G[<<F[x \ {Max(x)}], Max(x)>>]
  <2> SUFFICES ASSUME NEW x \in SUBSET (1..n), x # {}, F[x \ {Max(x)}] \in V
               PROVE  F[x] = G[<<F[x \ {Max(x)}], Max(x)>>]
      OBVIOUS
  <2>1. Max(x) \in 1..n BY <1>1, MaxWithin
  <2>2. F[x] = step(F[x \ {Max(x)}], Max(x)) BY <1>1, <1>6
  <2> HIDE DEF step, G, V, n
  <2> QED BY <1>4, <2>1, <2>2
<1> DEFINE h == ChainOf(F, n)
<1>10. h[n] = F[1..n] BY <1>1 DEF ChainOf
<1>11. Chain(h, "Internal", V, n, G)
  <2> HIDE DEF V, G, n
  <2>1. n \in Nat /\ G \in [V \X (1..n) -> V] BY <1>1, <1>4
  <2>2. Follows(F, "Internal", V, n, G) BY <1>7, <1>8 DEF Follows
  <2> QED BY <2>1, <2>2, <1>b, FoldChain
<1> HIDE DEF h
<1>12. h \in [0..n -> V] /\ h[0] = "Internal" /\ \A k \in 1..n : h[k] = step(h[k - 1], k)
  <2> HIDE DEF V, G, n, step
  <2>1. h \in [0..n -> V] /\ h[0] = "Internal" BY <1>11 DEF Chain
  <2> SUFFICES ASSUME NEW k \in 1..n PROVE h[k] = step(h[k - 1], k)
      BY <2>1
  <2>2. k - 1 \in 0..n BY <1>1
  <2>3. h[k - 1] \in V BY <2>1, <2>2
  <2> QED BY <1>4, <1>11, <2>3 DEF Chain
<1> QED BY <1>1, <1>2, <1>10, <1>12 DEF Codes


\* The code told is the outermost one, if there is one.
LEMMA OutermostIsTold ==
  ASSUME NEW layers \in Seq(CodeWords)
  PROVE  ErrorCodeOf(layers) \in CodesAll /\ TellsOutermost(layers, ErrorCodeOf(layers))
<1> DEFINE n == Len(layers)
           None(k) == \A i \in 1..k : layers[i] \notin CodesAll
           Last1(k, c) == \E i \in 1..k : /\ layers[i] \in CodesAll /\ layers[i] = c
                                          /\ \A j \in i+1..k : layers[j] \notin CodesAll
<1>1. PICK h : Codes(h, layers) BY CodesFold
<1>2. n \in Nat /\ DOMAIN layers = 1..n OBVIOUS
<1>3. /\ h \in [0..n -> CodesAll] /\ h[0] = "Internal" /\ h[n] = ErrorCodeOf(layers)
      /\ \A k \in 1..n : h[k] = IF layers[k] \in CodesAll THEN layers[k] ELSE h[k - 1]
    BY <1>1 DEF Codes
<1> HIDE DEF n
<1> DEFINE T == {k \in Nat : k <= n => (None(k) /\ h[k] = "Internal") \/ Last1(k, h[k])}
<1>4. 0 \in T BY <1>3
<1>5. ASSUME NEW k \in T PROVE k + 1 \in T
  <2> SUFFICES ASSUME k + 1 <= n
               PROVE  (None(k + 1) /\ h[k + 1] = "Internal") \/ Last1(k + 1, h[k + 1])
      OBVIOUS
  <2>1. k \in Nat /\ k + 1 \in 1..n /\ (k + 1) - 1 = k OBVIOUS
  <2>2. (None(k) /\ h[k] = "Internal") \/ Last1(k, h[k]) BY <1>2, <2>1
  <2>3. h[k + 1] = IF layers[k + 1] \in CodesAll THEN layers[k + 1] ELSE h[k] BY <1>3, <2>1
  <2>4. CASE layers[k + 1] \in CodesAll
    <3>1. k + 1 \in 1..(k + 1) /\ \A j \in (k + 1) + 1..(k + 1) : FALSE BY <2>1
    <3>2. Last1(k + 1, h[k + 1]) BY <2>3, <2>4, <3>1
    <3> QED BY <3>2
  <2>5. CASE layers[k + 1] \notin CodesAll
    <3>1. None(k) => None(k + 1) BY <2>1, <2>5
    <3>2. ASSUME Last1(k, h[k]) PROVE Last1(k + 1, h[k + 1])
      <4>1. PICK i \in 1..k : /\ layers[i] \in CodesAll /\ layers[i] = h[k]
                              /\ \A j \in i+1..k : layers[j] \notin CodesAll
            BY <3>2
      <4>2. i \in 1..(k + 1) /\ \A j \in i+1..(k + 1) : j = k + 1 \/ j \in i+1..k BY <2>1
      <4> QED BY <2>3, <2>5, <4>1, <4>2
    <3> QED BY <2>2, <2>3, <2>5, <3>1, <3>2
  <2> QED BY <2>4, <2>5
<1>6. T = Nat
  <2>1. T \in SUBSET Nat OBVIOUS
  <2> HIDE DEF T
  <2> QED BY <1>4, <1>5, <2>1, EveryNumber
<1>7. (None(n) /\ h[n] = "Internal") \/ Last1(n, h[n]) BY <1>2, <1>6
<1>8. h[n] \in CodesAll BY <1>2, <1>3
<1>9. CASE None(n) /\ h[n] = "Internal"
  <2>1. ~\E i \in DOMAIN layers : Outermost(layers, i) BY <1>2, <1>9 DEF Outermost
  <2> QED BY <1>3, <1>8, <1>9, <2>1 DEF TellsOutermost
<1>10. CASE Last1(n, h[n])
  <2>1. PICK i \in 1..n : /\ layers[i] \in CodesAll /\ layers[i] = h[n]
                          /\ \A j \in i+1..n : layers[j] \notin CodesAll
        BY <1>10
  <2>2. i \in DOMAIN layers /\ Outermost(layers, i) BY <1>2, <2>1 DEF Outermost, n
  <2> QED BY <1>3, <1>8, <2>1, <2>2 DEF TellsOutermost
<1> QED BY <1>7, <1>9, <1>10

\* The arguments of one flag are pairs of words.
Words == STRING \cup {"joined", "flag", "alone", "value"}
LEMMA ArgsTyped ==
  ASSUME NEW f \in FormatFlag
  PROVE  ArgsOf(f) \in Seq(Words \X Words)
<1>1. f.value \in STRING BY DEF FormatFlag
<1>2. ASSUME NEW x \in Words \X Words, NEW y \in Words \X Words
      PROVE  <<x>> \in Seq(Words \X Words) /\ <<x, y>> \in Seq(Words \X Words)
  OBVIOUS
<1>3. JoinedArg(f.value) \in Words \X Words BY <1>1 DEF JoinedArg, Words
<1>4. FlagArg \in Words \X Words /\ ValueArg(f.value) \in Words \X Words
  BY <1>1 DEF FlagArg, ValueArg, Words
<1> QED BY <1>2, <1>3, <1>4 DEF ArgsOf

\* Arguments with different values are different, and so are their forms.
LEMMA ArgsDiffer ==
  ASSUME NEW a, NEW b
  PROVE  /\ JoinedArg(a) = JoinedArg(b) => a = b
         /\ ValueArg(a) = ValueArg(b) => a = b
         /\ JoinedArg(a) # ValueArg(b) /\ FlagArg # ValueArg(b) /\ FlagArg # JoinedArg(b)
<1>1. ASSUME NEW x, NEW y, NEW u, NEW v, <<x, u>> = <<y, v>> PROVE x = y /\ u = v BY <1>1
<1>2. "joined" # "value" /\ "flag" # "value" /\ "flag" # "joined" OBVIOUS
<1> QED BY <1>1, <1>2, Zenon DEF JoinedArg, ValueArg, FlagArg

\* --format json is seen in the arguments, in whichever form it was given.
Asks(argv) ==
  \E i \in DOMAIN argv : argv[i] = JoinedArg("json") \/ (i > 1 /\ argv[i - 1] = FlagArg /\ argv[i] = ValueArg("json"))

LEMMA JsonIsSeen ==
  ASSUME NEW w, w.formats \in Seq(FormatFlag)
  PROVE  Asks(Argv(w)) <=> \E i \in DOMAIN w.formats : w.formats[i].value = "json"
<1> DEFINE rows == [i \in DOMAIN w.formats |-> ArgsOf(w.formats[i])]
           D == Words \X Words
           fs == w.formats
<1>1. fs \in Seq(FormatFlag) OBVIOUS
<1>2. rows \in Seq(Seq(D)) /\ Len(rows) = Len(fs) /\ DOMAIN fs = 1..Len(fs) /\ Len(fs) \in Nat
  <2>1. DOMAIN fs = 1..Len(fs) /\ Len(fs) \in Nat BY <1>1
  <2>2. \A i \in 1..Len(fs) : ArgsOf(fs[i]) \in Seq(D)
    <3> TAKE i \in 1..Len(fs)
    <3>1. fs[i] \in FormatFlag BY <1>1, ElementOfSeq
    <3> QED BY <3>1, ArgsTyped
  <2> HIDE DEF D, fs
  <2>3. rows = [i \in 1..Len(fs) |-> ArgsOf(fs[i])] BY <2>1 DEF fs
  <2> QED BY <2>1, <2>2, <2>3
<1>3. \A i \in 1..Len(fs) : rows[i] = ArgsOf(fs[i]) BY <1>2
<1>4. Argv(w) = FlattenSeq(rows) BY DEF Argv
<1> HIDE DEF rows, D, fs
<1>5. FlattenSeq(rows) \in Seq(D) /\ Holds(FlattenSeq(rows), rows, Len(rows)) BY <1>2, FlattenedHolds
<1> DEFINE argv == FlattenSeq(rows)
<1>6. ASSUME NEW i \in DOMAIN fs, fs[i].value = "json" PROVE Asks(argv)
  <2>1. i \in 1..Len(rows) BY <1>2
  <2>2. PICK o \in Nat : \A x \in 1..Len(rows[i]) : o + x \in 1..Len(argv) /\ argv[o + x] = rows[i][x]
        BY <1>5, <2>1 DEF Holds
  <2>3. rows[i] = ArgsOf(fs[i]) BY <1>2, <1>3
  <2>4. DOMAIN argv = 1..Len(argv) BY <1>5
  <2> HIDE DEF argv
  <2>5. CASE fs[i].joined
    <3>1. rows[i] = <<JoinedArg("json")>> BY <1>6, <2>3, <2>5 DEF ArgsOf
    <3>2. argv[o + 1] = JoinedArg("json") /\ o + 1 \in 1..Len(argv) BY <2>2, <3>1
    <3> QED BY <2>4, <3>2 DEF Asks
  <2>6. CASE ~fs[i].joined
    <3>1. rows[i] = <<FlagArg, ValueArg("json")>> BY <1>6, <2>3, <2>6 DEF ArgsOf
    <3>2. /\ argv[o + 1] = FlagArg /\ argv[o + 2] = ValueArg("json") /\ o + 2 \in 1..Len(argv)
          /\ (o + 2) - 1 = o + 1 /\ o + 2 > 1
        BY <2>2, <3>1
    <3> QED BY <2>4, <3>2 DEF Asks
  <2> QED BY <2>5, <2>6
<1>7. ASSUME Asks(argv) PROVE \E i \in DOMAIN fs : fs[i].value = "json"
  <2>1. PICK m \in 1..Len(argv) : argv[m] = JoinedArg("json") \/ argv[m] = ValueArg("json")
        BY <1>5, <1>7 DEF Asks
  <2>2. PICK i \in 1..Len(rows) : \E x \in 1..Len(rows[i]) : argv[m] = rows[i][x]
        BY <1>5 DEF Holds
  <2>3. PICK x \in 1..Len(rows[i]) : argv[m] = rows[i][x] BY <2>2
  <2>4. rows[i] = ArgsOf(fs[i]) BY <1>2, <1>3
  <2> HIDE DEF argv
  <2>5. CASE fs[i].joined
    <3>1. rows[i] = <<JoinedArg(fs[i].value)>> BY <2>4, <2>5 DEF ArgsOf
    <3>2. x = 1 /\ argv[m] = JoinedArg(fs[i].value) BY <2>3, <3>1
    <3>3. fs[i].value = "json" BY <2>1, <3>2, ArgsDiffer
    <3> QED BY <1>2, <3>3
  <2>6. CASE ~fs[i].joined
    <3>1. rows[i] = <<FlagArg, ValueArg(fs[i].value)>> BY <2>4, <2>6 DEF ArgsOf
    <3>2. argv[m] \in {FlagArg, ValueArg(fs[i].value)} BY <2>3, <3>1
    <3>3. fs[i].value = "json" BY <2>1, <3>2, ArgsDiffer
    <3> QED BY <1>2, <3>3
  <2> QED BY <2>5, <2>6
<1> QED BY <1>4, <1>6, <1>7 DEF fs

\* What the failure of a call comes out as.
LEMMA DispatchTyped ==
  ASSUME NEW w, CliWorld(w)
  PROVE  Dispatch(w) \in Seq(CodeWords)
<1> DEFINE plan == IF TakesNames(w.call) THEN ResolvePlanName(w.plan) ELSE <<>>
<1>1. \A x \in CodeWords : <<x>> \in Seq(CodeWords) OBVIOUS
<1>2. \A x, y \in CodeWords : <<x, y>> \in Seq(CodeWords) OBVIOUS
<1>3. <<>> \in Seq(CodeWords) OBVIOUS
<1>4. {"InvalidInput", "NotFound", "IoError", "cause"} \subseteq CodeWords BY DEF CodeWords, CodesAll
<1>5. plan \in Seq(CodeWords)
  <2>1. <<"InvalidInput">> \in Seq(CodeWords) /\ <<"NotFound">> \in Seq(CodeWords) BY <1>1, <1>4
  <2> QED BY <1>3, <2>1, Zenon DEF ResolvePlanName
<1>6. ResolveBody(w) \in Seq(CodeWords)
  <2>1. <<"cause", "IoError">> \in Seq(CodeWords) BY <1>2, <1>4
  <2> QED BY <1>3, <2>1, Zenon DEF ResolveBody
<1>7. <<"InvalidInput">> \in Seq(CodeWords) BY <1>1, <1>4
<1>8. w.fails \in Seq(CodeWords)
  <2>1. w.fails \in Seq(STRING) BY DEF CliWorld
  <2>2. STRING \subseteq CodeWords BY DEF CodeWords
  <2>3. \A i \in 1..Len(w.fails) : w.fails[i] \in CodeWords
    <3> TAKE i \in 1..Len(w.fails)
    <3>1. w.fails[i] \in STRING BY <2>1, ElementOfSeq
    <3> QED BY <2>2, <3>1
  <2> DEFINE fails == w.fails
  <2>4. Len(fails) \in Nat /\ fails = [i \in 1..Len(fails) |-> fails[i]] BY <2>1
  <2>5. \A i \in 1..Len(fails) : fails[i] \in CodeWords BY <2>3
  <2> HIDE DEF fails
  <2>6. fails \in Seq(CodeWords) BY <2>4, <2>5
  <2> QED BY <2>6 DEF fails
<1> HIDE DEF plan
<1>9. Dispatch(w) \in {<<"InvalidInput">>, plan, ResolveBody(w), w.fails}
  BY Zenon DEF Dispatch, plan
<1> QED BY <1>5, <1>6, <1>7, <1>8, <1>9

\* Every exit code but that of success is not 0, and all are listed.
LEMMA ExitCodes ==
  ASSUME NEW code \in CodesAll
  PROVE  AsCode[ExitCategory[code]] \in Range(AsCode) \ {0}
<1>1. ExitCategory[code] \in ExitCategories \ {"success"}
  <2>1. DOMAIN ExitCategory = CodesAll BY DEF ExitCategory
  <2> QED BY <2>1 DEF ExitCategory, ExitCategories, CodesAll
<1>2. \A c \in ExitCategories \ {"success"} : AsCode[c] # 0 BY DEF AsCode, ExitCategories
<1>3. DOMAIN AsCode = ExitCategories BY DEF AsCode
<1> QED BY <1>1, <1>2, <1>3 DEF Range

LEMMA SuccessCode == AsCode["success"] = 0 /\ AsCode["usage_error"] = 2 /\ 0 \in Range(AsCode) /\ 2 \in Range(AsCode)
<1>1. "success" \in ExitCategories /\ "usage_error" \in ExitCategories BY DEF ExitCategories
<1>2. AsCode["success"] = 0 /\ AsCode["usage_error"] = 2 BY <1>1 DEF AsCode
<1>3. DOMAIN AsCode = ExitCategories BY DEF AsCode
<1> QED BY <1>1, <1>2, <1>3 DEF Range

\* What a call comes out as tells what became of it.
LEMMA CallIsTold ==
  ASSUME NEW w, CliWorld(w)
  PROVE  TellsOf(w, RunCommand(w))
<1> DEFINE asked == \E i \in DOMAIN w.formats : w.formats[i].value = "json"
           code == ErrorCodeOf(Dispatch(w))
           told == RunCommand(w)
<1>1. code \in CodesAll /\ TellsOutermost(Dispatch(w), code) BY DispatchTyped, OutermostIsTold
<1>2. JsonModeRequested(w) <=> asked
  <2>1. w.formats \in Seq(FormatFlag) BY DEF CliWorld
  <2> QED BY <2>1, JsonIsSeen DEF JsonModeRequested, Asks
<1>3. /\ "none" \notin CodesAll /\ "usage" \notin CodesAll
      /\ Capabilities.error_codes = CodesAll /\ Capabilities.exit_categories = Range(AsCode)
  <2>1. "none" \notin CodesAll /\ "usage" \notin CodesAll BY DEF CodesAll
  <2> QED BY <2>1 DEF Capabilities
<1> HIDE DEF code, asked
<1>4. CASE ~Accepted(w.call)
  <2>1. told.exit = 2 /\ told.json = FALSE /\ told.error = "usage"
    BY <1>4, SuccessCode DEF RunCommand, Told
  <2> HIDE DEF told
  <2>2. told.exit # 0 BY <2>1
  <2>3. told.exit \in Range(AsCode) BY <2>1, SuccessCode
  <2> QED BY <1>3, <1>4, <2>1, <2>2, <2>3, Zenon DEF TellsOf, told
<1>5. CASE Accepted(w.call) /\ Dispatch(w) = <<>>
  <2>1. told.exit = 0 /\ told.json = FALSE /\ told.error = "none"
    BY <1>5, SuccessCode DEF RunCommand, Told
  <2> HIDE DEF told
  <2>3. told.exit \in Range(AsCode) BY <2>1, SuccessCode
  <2> QED BY <1>3, <1>5, <2>1, <2>3, Zenon DEF TellsOf, told
<1>6. CASE Accepted(w.call) /\ Dispatch(w) # <<>>
  <2>1. told.exit = AsCode[ExitCategory[code]] /\ told.json = JsonModeRequested(w) /\ told.error = code
    BY <1>6, Zenon DEF RunCommand, Told, code
  <2> HIDE DEF told
  <2>2. told.exit \in Range(AsCode) /\ told.exit # 0 BY <1>1, <2>1, ExitCodes
  <2>3. told.json <=> asked BY <1>2, <2>1
  <2>4. /\ told.exit = 0 <=> Accepted(w.call) /\ Dispatch(w) = <<>>
        /\ told.json <=> Accepted(w.call) /\ asked /\ told.exit # 0
    BY <1>6, <2>2, <2>3
  <2> QED BY <1>1, <1>3, <2>1, <2>2, <2>4, Zenon DEF TellsOf, told, asked
<1> QED BY <1>4, <1>5, <1>6

\* The verbs that "capabilities" lists are those of the grammar.
LEMMA SubcommandsExist ==
  Capabilities.subcommands \subseteq DOMAIN TopVerbs \cup DOMAIN Groups \cup {"state"}
BY DEF Capabilities, TopVerbs, Groups

-----------------------------------------------------------------------------
(* The specification.  Questions of a component that this module does not  *)
(* describe have verbs of their own.                                       *)

CommandVerbs == {"command", "capabilities"}
PlanVerbs == {"list-items", "show-item", "query-by-status", "query-by-justification", "backlog-list",
              "check-anchors", "survey-counts", "backlog-transitions", "phase-summary"}
ListingVerbs == {"list", "show", "table", "lint", "mentions"}
PromptVerbs == {"compose", "list-fixed", "show-fixed"}
ConfigVerbs == {"config-dir", "resolve", "run", "create", "survey", "discover"}
RunnerVerbs == {"snapshot", "warning", "stamp"}
OwnVerbs == CommandVerbs \cup PlanVerbs \cup ListingVerbs \cup PromptVerbs \cup ConfigVerbs \cup RunnerVerbs

Elsewhere == \E s, q, a : q.verb \notin OwnVerbs /\ Ask(s, q, a)
InspectionNext ==
  PlanNext \/ ListingNext \/ CommandNext \/ PromptNext \/ ConfigNext \/ RunnerNext \/ Elsewhere
InspectionSpec == QueryInit /\ [][InspectionNext]_query_vars

\* Every question is one of the files there are.
Placed == world \in Worlds

LEMMA PlacedKept == Placed /\ [InspectionNext]_query_vars => Placed'
<1> SUFFICES ASSUME Placed, [InspectionNext]_query_vars PROVE Placed'
    OBVIOUS
<1> USE DEF Placed
<1>1. CASE UNCHANGED query_vars BY <1>1 DEF query_vars
<1>2. CASE PlanNext BY <1>2 DEF PlanNext, AskPlan, AskDiff, Ask
<1>3. CASE ListingNext BY <1>3 DEF ListingNext, AskList, AskShow, AskTable, AskLint, AskWord, Ask
<1>4. CASE CommandNext BY <1>4 DEF CommandNext, AskCommand, AskCapabilities, Ask
<1>5. CASE PromptNext BY <1>5 DEF PromptNext, AskPrompt, AskMemoryList, AskMemoryShow, Ask
<1>6. CASE ConfigNext BY <1>6 DEF ConfigNext, AskDir, AskResolve, AskRun, AskOneShot, Ask
<1>7. CASE RunnerNext BY <1>7 DEF RunnerNext, Ask
<1>8. CASE Elsewhere BY <1>8 DEF Elsewhere, Ask
<1> QED BY <1>1, <1>2, <1>3, <1>4, <1>5, <1>6, <1>7, <1>8 DEF InspectionNext

\* Which verbs a component answers.
LEMMA PlanAsked == PlanNext => query'.verb \in PlanVerbs
BY DEF PlanNext, AskPlan, AskDiff, Ask, PlanVerbs
LEMMA ListingAsked == ListingNext => query'.verb \in ListingVerbs
BY DEF ListingNext, AskList, AskShow, AskTable, AskLint, AskWord, Ask, ListingVerbs
LEMMA CommandAsked == CommandNext => query'.verb \in CommandVerbs
BY DEF CommandNext, AskCommand, AskCapabilities, Ask, CommandVerbs
LEMMA PromptAsked == PromptNext => query'.verb \in PromptVerbs
BY DEF PromptNext, AskPrompt, AskMemoryList, AskMemoryShow, Ask, PromptVerbs
LEMMA ConfigAsked == ConfigNext => query'.verb \in ConfigVerbs
BY DEF ConfigNext, AskDir, AskResolve, AskRun, AskOneShot, Ask, ConfigVerbs
LEMMA RunnerAsked == RunnerNext => query'.verb \in RunnerVerbs
BY DEF RunnerNext, Ask, RunnerVerbs
LEMMA ElsewhereAsked == Elsewhere => query'.verb \notin OwnVerbs
BY DEF Elsewhere, Ask

-----------------------------------------------------------------------------
(* Callers.                                                                *)

LEMMA CallersAreTold == Placed /\ CallerIsTold /\ [InspectionNext]_query_vars => CallerIsTold'
<1> SUFFICES ASSUME Placed, CallerIsTold, [InspectionNext]_query_vars PROVE CallerIsTold'
    OBVIOUS
<1>1. CASE UNCHANGED query_vars BY <1>1, Zenon DEF query_vars, CallerIsTold, Answered
<1>2. CASE AskCommand
  <2>1. /\ world' = world /\ world.subject = "cli"
        /\ query'.verb = "command" /\ answer'.value = RunCommand(world)
        BY <1>2 DEF AskCommand, Ask, Ok
  <2>2. CliWorld(world) BY <2>1, CliAssumption DEF Placed
  <2>3. TellsOf(world', answer'.value) BY <2>1, <2>2, CallIsTold
  <2> QED BY <2>1, <2>3 DEF CallerIsTold, Answered
<1>3. CASE AskCapabilities
  <2>1. query'.verb = "capabilities" /\ answer'.value = Capabilities
        BY <1>3 DEF AskCapabilities, Ask, Ok
  <2> QED BY <2>1, SubcommandsExist DEF CallerIsTold, Answered
<1>4. ASSUME query'.verb \notin CommandVerbs PROVE CallerIsTold'
  BY <1>4 DEF CallerIsTold, Answered, CommandVerbs
<1>5. CASE PlanNext BY <1>4, <1>5, PlanAsked DEF PlanVerbs, CommandVerbs
<1>6. CASE ListingNext BY <1>4, <1>6, ListingAsked DEF ListingVerbs, CommandVerbs
<1>7. CASE PromptNext BY <1>4, <1>7, PromptAsked DEF PromptVerbs, CommandVerbs
<1>8. CASE ConfigNext BY <1>4, <1>8, ConfigAsked DEF ConfigVerbs, CommandVerbs
<1>9. CASE RunnerNext BY <1>4, <1>9, RunnerAsked DEF RunnerVerbs, CommandVerbs
<1>10. CASE Elsewhere BY <1>4, <1>10, ElsewhereAsked DEF OwnVerbs
<1> QED BY <1>1, <1>2, <1>3, <1>5, <1>6, <1>7, <1>8, <1>9, <1>10 DEF InspectionNext, CommandNext

\* Nothing is answered yet.
LEMMA NoneTold == QueryInit => Placed /\ CallerIsTold
BY DEF QueryInit, Placed, CallerIsTold, Answered, Waiting

\* Whatever is called, with whatever flags, and however it fails, exit code,
\* envelope and error code agree on what became of the call (main.rs:2396-2434,
\* error_context.rs).
THEOREM EveryCallerIsTold == InspectionSpec => []CallerIsTold
<1>1. QueryInit => Placed /\ CallerIsTold BY NoneTold
<1>2. Placed /\ CallerIsTold /\ [InspectionNext]_query_vars => (Placed /\ CallerIsTold)'
  BY PlacedKept, CallersAreTold
<1> QED BY <1>1, <1>2, PTL DEF InspectionSpec

-----------------------------------------------------------------------------
(* What is kept of a sequence.                                             *)

Rows(s, S) == [i \in DOMAIN s |-> IF s[i] \in S THEN <<s[i]>> ELSE <<>>]

LEMMA RowsTyped ==
  ASSUME NEW D, NEW s \in Seq(D), NEW S
  PROVE  /\ Rows(s, S) \in Seq(Seq(D)) /\ Len(Rows(s, S)) = Len(s)
         /\ \A i \in 1..Len(s) : Rows(s, S)[i] = IF s[i] \in S THEN <<s[i]>> ELSE <<>>
<1>1. DOMAIN s = 1..Len(s) /\ Len(s) \in Nat /\ \A i \in 1..Len(s) : s[i] \in D OBVIOUS
<1>2. \A x \in D : <<x>> \in Seq(D) OBVIOUS
<1>3. <<>> \in Seq(D) OBVIOUS
<1>4. \A i \in 1..Len(s) : (IF s[i] \in S THEN <<s[i]>> ELSE <<>>) \in Seq(D) BY <1>1, <1>2, <1>3
<1> DEFINE row(i) == IF s[i] \in S THEN <<s[i]>> ELSE <<>>
           n == Len(s)
<1>5. Rows(s, S) = [i \in 1..n |-> row(i)] BY <1>1 DEF Rows
<1>6. n \in Nat /\ \A i \in 1..n : row(i) \in Seq(D) BY <1>1, <1>4
<1>7. \A i \in 1..n : Rows(s, S)[i] = row(i)
  <2> HIDE DEF row, n
  <2> QED BY <1>5
<1>8. Rows(s, S) \in Seq(Seq(D)) /\ Len(Rows(s, S)) = n
  <2> HIDE DEF row, n
  <2> QED BY <1>5, <1>6
<1> QED BY <1>7, <1>8

\* The elements that are in the set are kept, and no others.
LEMMA KeepHas ==
  ASSUME NEW D, NEW s \in Seq(D), NEW S
  PROVE  Keep(s, S) \in Seq(D) /\ Range(Keep(s, S)) = Range(s) \cap S
<1> DEFINE rows == Rows(s, S)
           kept == Keep(s, S)
<1>1. /\ rows \in Seq(Seq(D)) /\ Len(rows) = Len(s)
      /\ \A i \in 1..Len(s) : rows[i] = IF s[i] \in S THEN <<s[i]>> ELSE <<>>
  BY RowsTyped
<1>2. kept = FlattenSeq(rows) BY DEF Keep, Rows
<1> HIDE DEF rows, kept
<1>3. kept \in Seq(D) /\ Holds(kept, rows, Len(rows)) BY <1>1, <1>2, FlattenedHolds
<1>4. DOMAIN s = 1..Len(s) /\ DOMAIN kept = 1..Len(kept) BY <1>3
<1>5. ASSUME NEW x \in Range(kept) PROVE x \in Range(s) \cap S
  <2>1. PICK m \in 1..Len(kept) : x = kept[m] BY <1>4 DEF Range
  <2>2. PICK k \in 1..Len(s) : \E i \in 1..Len(rows[k]) : kept[m] = rows[k][i]
        BY <1>1, <1>3 DEF Holds
  <2>3. PICK i \in 1..Len(rows[k]) : x = rows[k][i] BY <2>1, <2>2
  <2>4. rows[k] = IF s[k] \in S THEN <<s[k]>> ELSE <<>> BY <1>1
  <2>5. s[k] \in S /\ x = s[k] BY <2>3, <2>4
  <2> QED BY <1>4, <2>5 DEF Range
<1>6. ASSUME NEW x \in Range(s) \cap S PROVE x \in Range(kept)
  <2>1. PICK k \in 1..Len(s) : x = s[k] BY <1>4 DEF Range
  <2>2. rows[k] = <<x>> BY <1>1, <2>1
  <2>3. PICK o \in Nat : \A i \in 1..Len(rows[k]) : o + i \in 1..Len(kept) /\ kept[o + i] = rows[k][i]
        BY <1>1, <1>3 DEF Holds
  <2>4. o + 1 \in 1..Len(kept) /\ kept[o + 1] = x BY <2>2, <2>3
  <2> QED BY <1>4, <2>4 DEF Range
<1> QED BY <1>3, <1>5, <1>6 DEF kept

\* As many as there are places that hold one.
LEMMA KeepCounts ==
  ASSUME NEW D, NEW s \in Seq(D), NEW S
  PROVE  Len(Keep(s, S)) = Cardinality({i \in DOMAIN s : s[i] \in S})
<1> DEFINE rows == Rows(s, S)
           n == Len(s)
           At(k) == {i \in 1..k : s[i] \in S}
<1>1. rows \in Seq(Seq(D)) /\ Len(rows) = n /\ DOMAIN s = 1..n /\ n \in Nat BY RowsTyped
<1>2. \A i \in 1..n : rows[i] = IF s[i] \in S THEN <<s[i]>> ELSE <<>> BY RowsTyped
<1>3. Keep(s, S) = FlattenSeq(rows) BY DEF Keep, Rows
<1> HIDE DEF rows, n
<1>4. PICK h : Flattened(h, rows, D) BY <1>1, FlattenChain
<1>5. /\ h \in [0..n -> Seq(D)] /\ h[0] = <<>> /\ h[n] = Keep(s, S)
      /\ \A k \in 1..n : h[k] = h[k - 1] \o rows[k]
    BY <1>1, <1>3, <1>4 DEF Flattened
<1> DEFINE T == {k \in Nat : k <= n => IsFiniteSet(At(k)) /\ Len(h[k]) = Cardinality(At(k))}
<1>6. 0 \in T
  <2>1. At(0) = {} OBVIOUS
  <2> QED BY <1>5, <2>1, FS_EmptySet
<1>7. ASSUME NEW k \in T PROVE k + 1 \in T
  <2> SUFFICES ASSUME k + 1 <= n
               PROVE  IsFiniteSet(At(k + 1)) /\ Len(h[k + 1]) = Cardinality(At(k + 1))
      OBVIOUS
  <2>1. k \in Nat /\ k \in 0..n /\ k + 1 \in 1..n /\ (k + 1) - 1 = k BY <1>1
  <2>2. IsFiniteSet(At(k)) /\ Len(h[k]) = Cardinality(At(k)) BY <1>1, <2>1
  <2>3. PICK a \in Seq(D) : a = h[k] BY <1>5, <2>1
  <2>4. h[k + 1] = a \o rows[k + 1] BY <1>5, <2>1, <2>3
  <2>5. k + 1 \notin At(k) BY <2>1
  <2>6. CASE s[k + 1] \in S
    <3>1. At(k + 1) = At(k) \cup {k + 1} BY <2>1, <2>6
    <3>2. IsFiniteSet(At(k + 1)) /\ Cardinality(At(k + 1)) = Cardinality(At(k)) + 1
      <4> HIDE DEF At
      <4> QED BY <2>2, <2>5, <3>1, FS_AddElement
    <3>3. rows[k + 1] = <<s[k + 1]>> /\ s[k + 1] \in D BY <1>1, <1>2, <2>1, <2>6
    <3>4. Len(h[k + 1]) = Len(a) + 1 BY <2>4, <3>3
    <3> HIDE DEF At
    <3> QED BY <2>2, <2>3, <3>2, <3>4
  <2>7. CASE s[k + 1] \notin S
    <3>1. At(k + 1) = At(k) BY <2>1, <2>7
    <3>2. rows[k + 1] = <<>> BY <1>2, <2>1, <2>7
    <3>3. h[k + 1] = a BY <2>4, <3>2
    <3> HIDE DEF At
    <3> QED BY <2>2, <2>3, <3>1, <3>3
  <2> QED BY <2>6, <2>7
<1>8. T = Nat
  <2>1. T \in SUBSET Nat OBVIOUS
  <2> HIDE DEF T
  <2> QED BY <1>6, <1>7, <2>1, EveryNumber
<1>9. n \in T /\ n <= n BY <1>1, <1>8
<1>10. Len(h[n]) = Cardinality(At(n)) BY <1>9
<1> QED BY <1>1, <1>5, <1>10

\* The one begins with the other.
LEMMA PrefixIs ==
  ASSUME NEW D, NEW a \in Seq(D), NEW c \in Seq(D), Len(a) <= Len(c), \A i \in 1..Len(a) : c[i] = a[i]
  PROVE  IsPrefix(a, c)
<1> DEFINE n == Len(a)
<1>1. n \in Nat /\ Len(c) \in Nat /\ n <= Len(c) OBVIOUS
<1>2. (\A i \in 1..n : a[i] \in D) /\ (\A i \in 1..n : c[i] \in D) BY <1>1
<1>3. /\ SubSeq(a, 1, n) \in Seq(D) /\ Len(SubSeq(a, 1, n)) = n
      /\ \A i \in 1..n : SubSeq(a, 1, n)[i] = a[i]
  <2> HIDE DEF n
  <2>1. /\ SubSeq(a, 1, n) \in Seq(D) /\ Len(SubSeq(a, 1, n)) = IF 1 <= n THEN n - 1 + 1 ELSE 0
        /\ \A i \in 1..(n - 1 + 1) : SubSeq(a, 1, n)[i] = a[1 + i - 1]
    BY <1>1, <1>2, SubSeqProperties
  <2> QED BY <1>1, <2>1
<1>4. /\ SubSeq(c, 1, n) \in Seq(D) /\ Len(SubSeq(c, 1, n)) = n
      /\ \A i \in 1..n : SubSeq(c, 1, n)[i] = c[i]
  <2> HIDE DEF n
  <2>1. /\ SubSeq(c, 1, n) \in Seq(D) /\ Len(SubSeq(c, 1, n)) = IF 1 <= n THEN n - 1 + 1 ELSE 0
        /\ \A i \in 1..(n - 1 + 1) : SubSeq(c, 1, n)[i] = c[1 + i - 1]
    BY <1>1, <1>2, SubSeqProperties
  <2> QED BY <1>1, <2>1
<1>5. \A i \in 1..n : SubSeq(a, 1, n)[i] = SubSeq(c, 1, n)[i] BY <1>3, <1>4
<1>6. SubSeq(a, 1, n) = SubSeq(c, 1, n)
  <2> HIDE DEF n
  <2> QED BY <1>3, <1>4, <1>5, SeqEqual
<1> QED BY <1>1, <1>6 DEF IsPrefix

LEMMA ReverseIs ==
  ASSUME NEW D, NEW s \in Seq(D)
  PROVE  /\ Reverse(s) \in Seq(D) /\ Len(Reverse(s)) = Len(s)
         /\ \A i \in 1..Len(s) : Reverse(s)[i] = s[(Len(s) - i) + 1]
<1> DEFINE n == Len(s)
           at(i) == s[(n - i) + 1]
<1>1. n \in Nat /\ \A i \in 1..n : at(i) \in D
  <2>1. \A i \in 1..n : (n - i) + 1 \in 1..n OBVIOUS
  <2> QED BY <2>1
<1>2. Reverse(s) = [i \in 1..n |-> at(i)] BY DEF Reverse
<1>3. Reverse(s) \in Seq(D) /\ Len(Reverse(s)) = n /\ \A i \in 1..n : Reverse(s)[i] = at(i)
  <2> HIDE DEF n, at
  <2> QED BY <1>1, <1>2
<1> QED BY <1>3

\* What is put together of two texts begins with the one and ends with the other.
LEMMA BeginsAndEnds ==
  ASSUME NEW D, NEW a \in Seq(D), NEW b \in Seq(D)
  PROVE  IsPrefix(a, a \o b) /\ IsSuffix(b, a \o b)
<1>0. a \o b \in Seq(D) OBVIOUS
<1>1. PICK c \in Seq(D) : c = a \o b BY <1>0
<1>2. /\ Len(c) = Len(a) + Len(b) /\ Len(a) \in Nat /\ Len(b) \in Nat
      /\ \A i \in 1..Len(a) : c[i] = a[i]
      /\ \A i \in 1..Len(b) : c[Len(a) + i] = b[i]
    BY <1>1
<1>3. IsPrefix(a, c) BY <1>2, PrefixIs
<1>4. /\ Reverse(b) \in Seq(D) /\ Len(Reverse(b)) = Len(b)
      /\ \A i \in 1..Len(b) : Reverse(b)[i] = b[(Len(b) - i) + 1]
  BY ReverseIs
<1>5. /\ Reverse(c) \in Seq(D) /\ Len(Reverse(c)) = Len(c)
      /\ \A i \in 1..Len(c) : Reverse(c)[i] = c[(Len(c) - i) + 1]
  BY ReverseIs
<1>6. ASSUME NEW i \in 1..Len(b) PROVE Reverse(c)[i] = Reverse(b)[i]
  <2>1. i \in 1..Len(c) /\ (Len(c) - i) + 1 = Len(a) + ((Len(b) - i) + 1) BY <1>2
  <2>2. (Len(b) - i) + 1 \in 1..Len(b) BY <1>2
  <2>3. c[Len(a) + ((Len(b) - i) + 1)] = b[(Len(b) - i) + 1] BY <1>2, <2>2
  <2> QED BY <1>4, <1>5, <2>1, <2>3
<1>7. IsPrefix(Reverse(b), Reverse(c))
  <2>1. PICK rb \in Seq(D), rc \in Seq(D) : rb = Reverse(b) /\ rc = Reverse(c) BY <1>4, <1>5
  <2>2. Len(rb) <= Len(rc) /\ \A i \in 1..Len(rb) : rc[i] = rb[i] BY <1>2, <1>4, <1>5, <1>6, <2>1
  <2>3. IsPrefix(rb, rc) BY <2>2, PrefixIs
  <2> QED BY <2>1, <2>3
<1> QED BY <1>1, <1>3, <1>7 DEF IsSuffix

-----------------------------------------------------------------------------
(* What is read off a plan.                                                *)

\* Both sequences' elements, and no others.
LEMMA ConcatHas ==
  ASSUME NEW D, NEW a \in Seq(D), NEW b \in Seq(D)
  PROVE  a \o b \in Seq(D) /\ Range(a \o b) = Range(a) \cup Range(b)
<1>1. a \o b \in Seq(D) /\ Len(a \o b) = Len(a) + Len(b) OBVIOUS
<1>2. Len(a) \in Nat /\ Len(b) \in Nat OBVIOUS
<1>3. DOMAIN a = 1..Len(a) /\ DOMAIN b = 1..Len(b) /\ DOMAIN (a \o b) = 1..Len(a \o b) BY <1>1
<1>4. ASSUME NEW x \in Range(a \o b) PROVE x \in Range(a) \cup Range(b)
  <2>1. PICK i \in 1..(Len(a) + Len(b)) : x = (a \o b)[i] BY <1>1, <1>3 DEF Range
  <2>2. CASE i <= Len(a) BY <1>3, <2>1, <2>2 DEF Range
  <2>3. CASE i > Len(a)
    <3>1. i - Len(a) \in 1..Len(b) /\ x = b[i - Len(a)] BY <2>1, <2>3
    <3> QED BY <1>3, <3>1 DEF Range
  <2> QED BY <2>2, <2>3
<1>5. ASSUME NEW x \in Range(a) PROVE x \in Range(a \o b)
  <2>1. PICK i \in 1..Len(a) : x = a[i] BY <1>3 DEF Range
  <2>2. i \in 1..Len(a \o b) /\ x = (a \o b)[i] BY <1>1, <2>1
  <2> QED BY <1>3, <2>2 DEF Range
<1>6. ASSUME NEW x \in Range(b) PROVE x \in Range(a \o b)
  <2>1. PICK i \in 1..Len(b) : x = b[i] BY <1>3 DEF Range
  <2>2. Len(a) + i \in 1..Len(a \o b) /\ x = (a \o b)[Len(a) + i] BY <1>1, <1>2, <2>1
  <2> QED BY <1>3, <2>2 DEF Range
<1> QED BY <1>1, <1>4, <1>5, <1>6

\* A file that reads gives what is in it; that of an inbox nothing if missing.
LEMMA ReadIs ==
  ASSUME NEW w, NEW k
  PROVE  /\ Read(w, k).code \in {"ok", "NotFound", "InvalidInput", "Conflict"}
         /\ Read(w, k).code = "ok" =>
              \/ w.files[k].state = "ok" /\ Read(w, k).value = w.files[k].items
              \/ k = "finding" /\ Read(w, k).value = <<>>
         /\ w.files[k].state = "ok" => Read(w, k) = Ok(w.files[k].items)
BY DEF Read, Ok, Error

\* The entries of the kind k with their kind.
Entry(k, e) == [kind |-> k, item |-> e]
EntriesIn(k, D) == {Entry(k, e) : e \in D}
AllEntries(w) == UNION {EntriesIn(k, Entries(w, k)) : k \in Kinds}

LEMMA TaggedHas ==
  ASSUME NEW D, NEW s \in Seq(D), NEW k
  PROVE  /\ Tagged(k, s) \in Seq(EntriesIn(k, D))
         /\ \A t : t \in Range(Tagged(k, s)) <=> \E e \in Range(s) : t = Entry(k, e)
<1> DEFINE n == Len(s)
           T == EntriesIn(k, D)
           tagged == Tagged(k, s)
<1>1. n \in Nat /\ DOMAIN s = 1..n /\ \A i \in 1..n : s[i] \in D OBVIOUS
<1>2. tagged = [i \in 1..n |-> Entry(k, s[i])] BY <1>1 DEF Tagged, Entry
<1>3. \A i \in 1..n : Entry(k, s[i]) \in T BY <1>1 DEF EntriesIn
<1>4. tagged \in Seq(T) /\ DOMAIN tagged = 1..n /\ \A i \in 1..n : tagged[i] = Entry(k, s[i])
  <2> HIDE DEF n, T, tagged
  <2> QED BY <1>1, <1>2, <1>3
<1> HIDE DEF tagged
<1>5. \A t : t \in Range(tagged) <=> \E i \in 1..n : t = Entry(k, s[i]) BY <1>4 DEF Range
<1>6. \A e : e \in Range(s) <=> \E i \in 1..n : e = s[i] BY <1>1 DEF Range
<1> QED BY <1>4, <1>5, <1>6 DEF tagged

\* The part of an answer that is of one kind.
PartOf(w, K, wanted, k) ==
  IF k \in K THEN Then(Read(w, k), LAMBDA items : Ok(Tagged(k, Keep(items, wanted[k])))) ELSE Ok(<<>>)
HasOf(w, wanted, k, t) == \E e \in Range(Read(w, k).value) \cap wanted[k] : t = Entry(k, e)

LEMMA PartHas ==
  ASSUME NEW w, NEW k \in Kinds, Written(w.files[k]), NEW K, NEW wanted
  PROVE  LET part == PartOf(w, K, wanted, k) IN
         /\ part.code = "ok" <=> (k \in K => Read(w, k).code = "ok")
         /\ part.code = "ok" =>
              /\ part.value \in Seq(AllEntries(w))
              /\ \A t : t \in Range(part.value) <=> k \in K /\ HasOf(w, wanted, k, t)
<1> DEFINE part == PartOf(w, K, wanted, k)
           items == Read(w, k).value
           D == Entries(w, k)
<1>1. CASE k \notin K
  <2>1. part = Ok(<<>>) BY <1>1 DEF PartOf
  <2>2. part.code = "ok" /\ part.value = <<>> BY <2>1 DEF Ok
  <2>3. <<>> \in Seq(AllEntries(w)) /\ Range(<<>>) = {} BY DEF Range
  <2> HIDE DEF part
  <2> QED BY <1>1, <2>2, <2>3 DEF part
<1>2. CASE k \in K /\ Read(w, k).code # "ok"
  <2>1. part = Read(w, k) BY <1>2 DEF PartOf, Then
  <2> HIDE DEF part
  <2> QED BY <1>2, <2>1 DEF part
<1>3. CASE k \in K /\ Read(w, k).code = "ok"
  <2>1. part = Ok(Tagged(k, Keep(items, wanted[k]))) BY <1>3 DEF PartOf, Then
  <2>2. items \in Seq(D)
    <3>1. w.files[k].items \in Seq(D) BY DEF Written, Entries
    <3>2. <<>> \in Seq(D) OBVIOUS
    <3> QED BY <1>3, <3>1, <3>2, ReadIs
  <2> DEFINE kept == Keep(items, wanted[k])
  <2> HIDE DEF items, D, part
  <2>3. kept \in Seq(D) /\ Range(kept) = Range(items) \cap wanted[k] BY <2>2, KeepHas
  <2> HIDE DEF kept
  <2>4. part.code = "ok" /\ part.value = Tagged(k, kept) BY <2>1 DEF Ok, kept
  <2>5. /\ Tagged(k, kept) \in Seq(EntriesIn(k, D))
        /\ \A t : t \in Range(Tagged(k, kept)) <=> \E e \in Range(kept) : t = Entry(k, e)
    BY <2>3, TaggedHas
  <2>6. EntriesIn(k, D) \subseteq AllEntries(w) BY DEF AllEntries, D
  <2>7. Tagged(k, kept) \in Seq(AllEntries(w)) BY <2>5, <2>6
  <2> QED BY <1>3, <2>3, <2>4, <2>5, <2>7 DEF HasOf, items, part
<1> QED BY <1>1, <1>2, <1>3

PlanFiles(w) == \A k \in Kinds : Written(w.files[k])

\* What is collected: nothing unless all that is asked reads, and then the
\* entries that are wanted, with their kinds.
LEMMA CollectHas ==
  ASSUME NEW w, PlanFiles(w), NEW K \in SUBSET Kinds, NEW wanted
  PROVE  /\ Collect(w, K, wanted).code = "ok" <=> \A k \in K : Read(w, k).code = "ok"
         /\ Collect(w, K, wanted).code = "ok" =>
              /\ Collect(w, K, wanted).value \in Seq(AllEntries(w))
              /\ \A t : t \in Range(Collect(w, K, wanted).value) <=> \E k \in K : HasOf(w, wanted, k, t)
<1> DEFINE P(k) == PartOf(w, K, wanted, k)
           D == AllEntries(w)
           c == Collect(w, K, wanted)
           reads(k) == k \in K => Read(w, k).code = "ok"
           has(k, t) == k \in K /\ HasOf(w, wanted, k, t)
<1>1. c = Then(P("intent"), LAMBDA a : Then(P("backlog-item"), LAMBDA b :
            Then(P("memory-entry"), LAMBDA m : Then(P("finding"), LAMBDA d : Ok(a \o b \o m \o d)))))
  BY DEF Collect, PartOf
<1>2. \A k \in Kinds : /\ P(k).code = "ok" <=> reads(k)
                       /\ P(k).code = "ok" =>
                            P(k).value \in Seq(D) /\ \A t : t \in Range(P(k).value) <=> has(k, t)
  <2> TAKE k \in Kinds
  <2>1. Written(w.files[k]) BY DEF PlanFiles
  <2> QED BY <2>1, PartHas
<1>3. Kinds = {"intent", "backlog-item", "memory-entry", "finding"} BY DEF Kinds
<1>4. (\A k \in K : Read(w, k).code = "ok") <=> \A k \in Kinds : reads(k) OBVIOUS
<1>5. \A t : (\E k \in K : HasOf(w, wanted, k, t)) <=> \E k \in Kinds : has(k, t) OBVIOUS
<1> HIDE DEF P, D, c, reads, has
<1>6. CASE \A k \in Kinds : P(k).code = "ok"
  <2>1. \A k \in Kinds : reads(k) BY <1>2, <1>6
  <2>2. PICK a \in Seq(D) : a = P("intent").value /\ \A t : t \in Range(a) <=> has("intent", t)
    BY <1>2, <1>3, <1>6
  <2>3. PICK b \in Seq(D) : b = P("backlog-item").value /\ \A t : t \in Range(b) <=> has("backlog-item", t)
    BY <1>2, <1>3, <1>6
  <2>4. PICK m \in Seq(D) : m = P("memory-entry").value /\ \A t : t \in Range(m) <=> has("memory-entry", t)
    BY <1>2, <1>3, <1>6
  <2>5. PICK d \in Seq(D) : d = P("finding").value /\ \A t : t \in Range(d) <=> has("finding", t)
    BY <1>2, <1>3, <1>6
  <2> DEFINE all == a \o b \o m \o d
  <2>6. c = Ok(all)
    <3>1. /\ P("intent").code = "ok" /\ P("backlog-item").code = "ok"
          /\ P("memory-entry").code = "ok" /\ P("finding").code = "ok"
      BY <1>3, <1>6
    <3> QED BY <1>1, <2>2, <2>3, <2>4, <2>5, <3>1 DEF Then
  <2>7. all \in Seq(D) /\ Range(all) = Range(a) \cup Range(b) \cup Range(m) \cup Range(d)
    <3>1. a \o b \in Seq(D) /\ Range(a \o b) = Range(a) \cup Range(b) BY ConcatHas
    <3>2. PICK ab \in Seq(D) : ab = a \o b BY <3>1
    <3>3. ab \o m \in Seq(D) /\ Range(ab \o m) = Range(ab) \cup Range(m) BY ConcatHas
    <3>4. PICK abm \in Seq(D) : abm = ab \o m BY <3>3
    <3>5. abm \o d \in Seq(D) /\ Range(abm \o d) = Range(abm) \cup Range(d) BY ConcatHas
    <3>6. all = abm \o d BY <3>2, <3>4
    <3> HIDE DEF all
    <3> QED BY <3>1, <3>2, <3>3, <3>4, <3>5, <3>6
  <2> HIDE DEF all
  <2>8. c.code = "ok" /\ c.value = all BY <2>6 DEF Ok
  <2>9. \A t : t \in Range(all) <=> \E k \in Kinds : has(k, t)
    BY <1>3, <2>2, <2>3, <2>4, <2>5, <2>7
  <2> QED BY <1>4, <1>5, <2>1, <2>7, <2>8, <2>9 DEF c, D
<1>7. CASE \E k \in Kinds : P(k).code # "ok"
  <2>1. \E k \in Kinds : ~reads(k) BY <1>2, <1>7
  <2>2. c.code # "ok"
    <3>1. \/ P("intent").code # "ok" \/ P("backlog-item").code # "ok"
          \/ P("memory-entry").code # "ok" \/ P("finding").code # "ok"
      BY <1>3, <1>7
    <3> QED BY <1>1, <3>1 DEF Then
  <2> QED BY <1>4, <2>1, <2>2 DEF c
<1> QED BY <1>6, <1>7

\* The kinds that are asked.
LEMMA AskedIs ==
  /\ Asked(Unset) = Kinds
  /\ \A k \in Kinds : Asked(k) = {k}
BY FilesAssumption DEF Asked

\* What is in the listing and in the answer to a status.
InListing(w, K, t) == \E k \in K : \E e \in Range(Read(w, k).value) : t = Entry(k, e)

LEMMA ListingHas ==
  ASSUME NEW w, PlanFiles(w), NEW kind \in Kinds \cup {Unset}
  PROVE  /\ ListItems(w, kind).code = "ok" <=> \A k \in Asked(kind) : Read(w, k).code = "ok"
         /\ ListItems(w, kind).code = "ok" =>
              /\ ListItems(w, kind).value \in Seq(AllEntries(w))
              /\ \A t : t \in Range(ListItems(w, kind).value) <=> InListing(w, Asked(kind), t)
<1> DEFINE K == Asked(kind)
           wanted == [k \in Kinds |-> Entries(w, k)]
           c == ListItems(w, kind)
<1>1. K \in SUBSET Kinds BY AskedIs
<1>2. c = Collect(w, K, wanted) BY DEF ListItems
<1> HIDE DEF K, c
<1>3. /\ c.code = "ok" <=> \A k \in K : Read(w, k).code = "ok"
      /\ c.code = "ok" => /\ c.value \in Seq(AllEntries(w))
                          /\ \A t : t \in Range(c.value) <=> \E k \in K : HasOf(w, wanted, k, t)
  <2> HIDE DEF wanted
  <2> QED BY <1>1, <1>2, CollectHas
<1>4. ASSUME NEW k \in K, Read(w, k).code = "ok", NEW t
      PROVE  HasOf(w, wanted, k, t) <=> \E e \in Range(Read(w, k).value) : t = Entry(k, e)
  <2>1. k \in Kinds /\ wanted[k] = Entries(w, k) BY <1>1
  <2>2. Range(Read(w, k).value) \subseteq Entries(w, k)
    <3>1. Read(w, k).value = w.files[k].items \/ Read(w, k).value = <<>> BY <1>4, ReadIs
    <3> QED BY <3>1 DEF Entries, Range
  <2> QED BY <2>1, <2>2 DEF HasOf
<1>5. ASSUME c.code = "ok", NEW t
      PROVE  (\E k \in K : HasOf(w, wanted, k, t)) <=> InListing(w, K, t)
  <2>1. \A k \in K : Read(w, k).code = "ok" BY <1>3, <1>5
  <2>2. \A k \in K : HasOf(w, wanted, k, t) <=> \E e \in Range(Read(w, k).value) : t = Entry(k, e)
    <3> HIDE DEF wanted
    <3> QED BY <1>4, <2>1
  <2> HIDE DEF wanted
  <2> QED BY <2>2 DEF InListing
<1> HIDE DEF wanted
<1> QED BY <1>3, <1>5 DEF K, c

OfStatus(w, K, status, t) ==
  \E k \in K : \E e \in Range(Read(w, k).value) : e.status = status /\ t = Entry(k, e)

LEMMA StatusHas ==
  ASSUME NEW w, PlanFiles(w), NEW kind \in Kinds \cup {Unset}, NEW status,
         NEW K, K = Accepts(status) \cap Asked(kind)
  PROVE  /\ QueryByStatus(w, kind, status).code = "ok" <=> K # {} /\ \A k \in K : Read(w, k).code = "ok"
         /\ QueryByStatus(w, kind, status).code = "ok" =>
              \A t : t \in Range(QueryByStatus(w, kind, status).value) <=> OfStatus(w, K, status, t)
<1> DEFINE wanted == WithStatus(w, status)
           c == QueryByStatus(w, kind, status)
<1>1. K \in SUBSET Kinds BY AskedIs
<1>2. CASE K = {}
  <2>1. c = Error("InvalidInput") BY <1>2 DEF QueryByStatus
  <2>2. c.code # "ok" BY <2>1 DEF Error
  <2> HIDE DEF c
  <2> QED BY <1>2, <2>2 DEF c
<1>3. CASE K # {}
  <2>1. c = Collect(w, K, wanted) BY <1>3 DEF QueryByStatus
  <2> HIDE DEF c
  <2>2. /\ c.code = "ok" <=> \A k \in K : Read(w, k).code = "ok"
        /\ c.code = "ok" => \A t : t \in Range(c.value) <=> \E k \in K : HasOf(w, wanted, k, t)
    <3> HIDE DEF wanted
    <3> QED BY <1>1, <2>1, CollectHas
  <2>3. ASSUME NEW k \in K, Read(w, k).code = "ok", NEW t
        PROVE  HasOf(w, wanted, k, t) <=> \E e \in Range(Read(w, k).value) : e.status = status /\ t = Entry(k, e)
    <3>1. k \in Kinds BY <1>1
    <3>2. wanted[k] = {e \in Entries(w, k) : e.status = status} BY <3>1 DEF WithStatus
    <3>3. Range(Read(w, k).value) \subseteq Entries(w, k)
      <4>1. Read(w, k).value = w.files[k].items \/ Read(w, k).value = <<>> BY <2>3, ReadIs
      <4> QED BY <4>1 DEF Entries, Range
    <3> HIDE DEF wanted
    <3> QED BY <3>2, <3>3 DEF HasOf
  <2> HIDE DEF wanted
  <2>4. ASSUME c.code = "ok", NEW t
        PROVE  (\E k \in K : HasOf(w, wanted, k, t)) <=> OfStatus(w, K, status, t)
    <3>1. \A k \in K : Read(w, k).code = "ok" BY <2>2, <2>4
    <3>2. \A k \in K : HasOf(w, wanted, k, t) <=>
                         \E e \in Range(Read(w, k).value) : e.status = status /\ t = Entry(k, e)
      BY <2>3, <3>1
    <3> QED BY <3>2 DEF OfStatus
  <2> QED BY <1>3, <2>2, <2>4 DEF c
<1> QED BY <1>2, <1>3

PlanWorld(w) ==
  PlanFiles(w) /\ \A k \in Kinds : \A e \in Range(w.files[k].items) : e.status \in Vocabulary(k)

\* The kinds are four.
LEMMA KindsAreFinite == IsFiniteSet(Kinds)
<1>1. Kinds = ({"intent"} \cup {"backlog-item"}) \cup ({"memory-entry"} \cup {"finding"}) BY DEF Kinds
<1>2. \A x : IsFiniteSet({x}) BY FS_Singleton
<1>3. IsFiniteSet({"intent"} \cup {"backlog-item"}) /\ IsFiniteSet({"memory-entry"} \cup {"finding"})
  BY <1>2, FS_Union
<1> QED BY <1>1, <1>3, FS_Union

\* A set has none, one or more than one.
LEMMA HowMany ==
  ASSUME NEW S, IsFiniteSet(S), S # {}
  PROVE  Cardinality(S) > 1 <=> ~\E x : S = {x}
<1>1. Cardinality(S) \in Nat /\ Cardinality(S) # 0 BY FS_CardinalityType, FS_EmptySet
<1>2. Cardinality(S) = 1 <=> \E x : S = {x} BY FS_Singleton
<1> QED BY <1>1, <1>2

HasId(w, k, id) == \E e \in Range(Read(w, k).value) : e.id = id
KindsWith(w, id) == {k \in Kinds : HasId(w, k, id)}

\* What is shown is an entry with the id, of the one kind that has it.
LEMMA ShowIs ==
  ASSUME NEW w, PlanFiles(w), ListItems(w, Unset).code = "ok", NEW id
  PROVE  /\ (\E k : KindsWith(w, id) = {k}) => ShowItem(w, id).code = "ok" /\ ShowItem(w, id).value.item.id = id
         /\ KindsWith(w, id) # {} /\ ~(\E k : KindsWith(w, id) = {k}) => ShowItem(w, id).code = "Conflict"
<1>s. PICK S : S = {k \in Kinds : HasId(w, k, id)} /\ S = KindsWith(w, id) BY DEF KindsWith
<1> DEFINE all == ListItems(w, Unset).value
           D == AllEntries(w)
           With(k) == {t \in Range(all) : t.kind = k /\ t.item.id = id}
           Hits(k) == Keep(all, With(k))
           found == {k \in Kinds : Hits(k) # <<>>}
           out == ShowItem(w, id)
<1>1. out = IF found = {} THEN Error("NotFound")
            ELSE IF Cardinality(found) > 1 THEN Error("Conflict")
            ELSE Ok(Head(Hits(CHOOSE k \in found : TRUE)))
  BY DEF ShowItem, Then
<1>2. all \in Seq(D) /\ \A t : t \in Range(all) <=> InListing(w, Kinds, t) BY ListingHas, AskedIs
<1>3. \A k : Hits(k) \in Seq(D) /\ Range(Hits(k)) = With(k)
  <2> TAKE k
  <2> HIDE DEF all, D
  <2>1. Keep(all, With(k)) \in Seq(D) /\ Range(Keep(all, With(k))) = Range(all) \cap With(k)
    <3> HIDE DEF With
    <3> QED BY <1>2, KeepHas
  <2> QED BY <2>1
<1>4. \A k : \A t : t \in With(k) <=> t \in Range(all) /\ t.kind = k /\ t.item.id = id OBVIOUS
<1>5. \A k \in Kinds : With(k) # {} <=> HasId(w, k, id)
  <2> TAKE k \in Kinds
  <2>1. ASSUME NEW t \in With(k) PROVE HasId(w, k, id)
    <3>1. PICK x \in Kinds : \E e \in Range(Read(w, x).value) : t = Entry(x, e) BY <1>2, <2>1 DEF InListing
    <3>2. PICK e \in Range(Read(w, x).value) : t = Entry(x, e) BY <3>1
    <3>3. x = k /\ e.id = id BY <2>1, <3>2 DEF Entry
    <3> QED BY <3>2, <3>3 DEF HasId
  <2>2. ASSUME HasId(w, k, id) PROVE With(k) # {}
    <3>1. PICK e \in Range(Read(w, k).value) : e.id = id BY <2>2 DEF HasId
    <3>2. Entry(k, e) \in Range(all) BY <1>2, <3>1 DEF InListing
    <3>3. Entry(k, e).kind = k /\ Entry(k, e).item.id = id BY <3>1 DEF Entry
    <3> QED BY <3>2, <3>3
  <2> HIDE DEF With
  <2> QED BY <2>1, <2>2
<1> HIDE DEF all, D, With, Hits
<1>6. \A k : Hits(k) # <<>> <=> With(k) # {}
  <2> TAKE k
  <2>1. PICK s \in Seq(D) : s = Hits(k) BY <1>3
  <2>2. DOMAIN s = 1..Len(s) /\ Len(s) \in Nat /\ (s = <<>> <=> Len(s) = 0) OBVIOUS
  <2>3. Range(s) = {s[i] : i \in 1..Len(s)} BY <2>2 DEF Range
  <2>4. s = <<>> <=> Range(s) = {}
    <3>1. ASSUME s # <<>> PROVE 1 \in 1..Len(s) BY <2>2, <3>1
    <3> QED BY <2>2, <2>3, <3>1
  <2> QED BY <1>3, <2>1, <2>4
<1>7. found = S
  <2>1. \A k \in Kinds : Hits(k) # <<>> <=> HasId(w, k, id) BY <1>5, <1>6
  <2> QED BY <1>s, <2>1
<1> HIDE DEF found, out
<1>8. IsFiniteSet(S)
  <2>1. S \in SUBSET Kinds BY <1>s
  <2> QED BY <2>1, KindsAreFinite, FS_Subset
<1>9. ASSUME NEW k, S = {k} PROVE out.code = "ok" /\ out.value.item.id = id
  <2>1. S # {} /\ ~(Cardinality(S) > 1) BY <1>8, <1>9, HowMany
  <2>2. (CHOOSE x \in S : TRUE) = k BY <1>9
  <2>3. out = Ok(Head(Hits(k))) BY <1>1, <1>7, <2>1, <2>2
  <2>4. k \in Kinds /\ HasId(w, k, id) BY <1>s, <1>9
  <2>5. Hits(k) # <<>> BY <1>5, <1>6, <2>4
  <2>6. PICK s \in Seq(D) : s = Hits(k) /\ s # <<>> BY <1>3, <2>5
  <2>7. Head(s) = s[1] /\ 1 \in DOMAIN s BY <2>6
  <2>8. Head(s) \in With(k) BY <1>3, <2>6, <2>7 DEF Range
  <2>9. Head(s).item.id = id BY <1>4, <2>8
  <2> QED BY <2>3, <2>6, <2>9 DEF Ok
<1>10. ASSUME S # {}, ~(\E k : S = {k}) PROVE out.code = "Conflict"
  <2>1. Cardinality(S) > 1 BY <1>8, <1>10, HowMany
  <2>2. out = Error("Conflict") BY <1>1, <1>7, <1>10, <2>1
  <2> QED BY <2>2 DEF Error
<1> QED BY <1>s, <1>9, <1>10 DEF out

\* What is listed is shown and is found.
LEMMA ListedIsFound ==
  ASSUME NEW w, PlanWorld(w), NEW kind \in Kinds \cup {Unset},
         ListItems(w, Unset).code = "ok", ListItems(w, kind).code = "ok"
  PROVE  FindsListed(w, ListItems(w, kind).value)
<1> DEFINE listed == ListItems(w, kind).value
<1>1. PlanFiles(w) BY DEF PlanWorld
<1>2. \A k \in Kinds : Read(w, k).code = "ok" BY <1>1, ListingHas, AskedIs
<1>3. Asked(kind) \subseteq Kinds BY AskedIs
<1> SUFFICES ASSUME NEW n \in DOMAIN listed, NEW t, t = listed[n]
             PROVE  LET shown == ShowItem(w, t.item.id)
                        WithId == {k \in Kinds : \E u \in Range(ListItems(w, k).value) : u.item.id = t.item.id}
                    IN  /\ IF WithId = {t.kind} THEN shown.code = "ok" /\ shown.value.item.id = t.item.id
                           ELSE shown.code = "Conflict"
                        /\ t \in Range(QueryByStatus(w, Unset, t.item.status).value)
                        /\ t \in Range(QueryByStatus(w, t.kind, t.item.status).value)
    BY DEF FindsListed
<1>4. t \in Range(listed) BY DEF Range
<1>5. InListing(w, Asked(kind), t) BY <1>1, <1>4, ListingHas
<1>6. PICK k0 \in Asked(kind) : \E e \in Range(Read(w, k0).value) : t = Entry(k0, e) BY <1>5 DEF InListing
<1>7. PICK e0 \in Range(Read(w, k0).value) : t = Entry(k0, e0) BY <1>6
<1>8. t.kind = k0 /\ t.item = e0 /\ k0 \in Kinds BY <1>3, <1>7 DEF Entry
<1> DEFINE S == KindsWith(w, e0.id)
           WithId == {k \in Kinds : \E u \in Range(ListItems(w, k).value) : u.item.id = e0.id}
<1>9. WithId = S
  <2>1. ASSUME NEW k \in Kinds
        PROVE  (\E u \in Range(ListItems(w, k).value) : u.item.id = e0.id) <=> HasId(w, k, e0.id)
    <3>1. Asked(k) = {k} BY AskedIs
    <3>2. ListItems(w, k).code = "ok" BY <1>1, <1>2, <3>1, ListingHas
    <3>3. \A u : u \in Range(ListItems(w, k).value) <=> InListing(w, Asked(k), u) BY <1>1, <3>2, ListingHas
    <3>4. \A u : u \in Range(ListItems(w, k).value) <=> \E e \in Range(Read(w, k).value) : u = Entry(k, e)
      BY <3>1, <3>3 DEF InListing
    <3>5. \A e : Entry(k, e).item = e BY DEF Entry
    <3> QED BY <3>4, <3>5 DEF HasId
  <2> QED BY <2>1 DEF KindsWith
<1>10. k0 \in S BY <1>7, <1>8 DEF HasId, KindsWith
<1>11. IF S = {k0} THEN ShowItem(w, e0.id).code = "ok" /\ ShowItem(w, e0.id).value.item.id = e0.id
       ELSE ShowItem(w, e0.id).code = "Conflict"
  <2>1. /\ (\E k : S = {k}) => ShowItem(w, e0.id).code = "ok" /\ ShowItem(w, e0.id).value.item.id = e0.id
        /\ S # {} /\ ~(\E k : S = {k}) => ShowItem(w, e0.id).code = "Conflict"
    BY <1>1, ShowIs
  <2>2. (\E k : S = {k}) <=> S = {k0}
    <3> HIDE DEF S
    <3> QED BY <1>10
  <2> HIDE DEF S
  <2> QED BY <1>10, <2>1, <2>2
<1>12. k0 \in Accepts(e0.status)
  <2>1. e0 \in Range(w.files[k0].items)
    <3>1. Read(w, k0).value = w.files[k0].items \/ Read(w, k0).value = <<>> BY <1>2, <1>8, ReadIs
    <3> QED BY <1>7, <3>1 DEF Range
  <2> QED BY <1>8, <2>1 DEF PlanWorld, Accepts
<1>13. ASSUME NEW x \in {k0, Unset} PROVE t \in Range(QueryByStatus(w, x, e0.status).value)
  <2>1. x \in Kinds \cup {Unset} /\ k0 \in Asked(x) BY <1>8, <1>13, AskedIs
  <2>2. PICK K : K = Accepts(e0.status) \cap Asked(x) OBVIOUS
  <2>3. k0 \in K /\ \A k \in K : Read(w, k).code = "ok" BY <1>2, <1>12, <2>1, <2>2 DEF Accepts
  <2>4. QueryByStatus(w, x, e0.status).code = "ok" BY <1>1, <2>1, <2>2, <2>3, StatusHas
  <2>5. t \in Range(QueryByStatus(w, x, e0.status).value) <=> OfStatus(w, K, e0.status, t)
    BY <1>1, <2>1, <2>2, <2>4, StatusHas
  <2> QED BY <1>7, <2>3, <2>5 DEF OfStatus
<1> HIDE DEF S, WithId
<1>14. /\ t \in Range(QueryByStatus(w, Unset, t.item.status).value)
       /\ t \in Range(QueryByStatus(w, t.kind, t.item.status).value)
  BY <1>8, <1>13
<1>15. IF WithId = {t.kind} THEN ShowItem(w, t.item.id).code = "ok" /\ ShowItem(w, t.item.id).value.item.id = t.item.id
       ELSE ShowItem(w, t.item.id).code = "Conflict"
  BY <1>8, <1>9, <1>11
<1> QED BY <1>8, <1>14, <1>15 DEF WithId

\* Kind by kind a status finds what it finds without a kind.
LEMMA StatusIsFound ==
  ASSUME NEW w, PlanFiles(w), NEW status, QueryByStatus(w, Unset, status).code = "ok"
  PROVE  FindsByStatus(w, status, QueryByStatus(w, Unset, status).value)
<1> DEFINE all == QueryByStatus(w, Unset, status).value
<1> SUFFICES ASSUME NEW k \in Accepts(status)
             PROVE  /\ QueryByStatus(w, k, status).code = "ok"
                    /\ Range(QueryByStatus(w, k, status).value) = {t \in Range(all) : t.kind = k}
    BY DEF FindsByStatus
<1>0. Accepts(status) \in SUBSET Kinds BY DEF Accepts
<1>1. PICK K : K = Accepts(status) /\ K = Accepts(status) \cap Asked(Unset) /\ K \in SUBSET Kinds
  BY <1>0, AskedIs
<1>2. /\ \A x \in K : Read(w, x).code = "ok"
      /\ \A t : t \in Range(all) <=> OfStatus(w, K, status, t)
  BY <1>1, StatusHas
<1>3. k \in Kinds /\ k \in K /\ {k} = Accepts(status) \cap Asked(k) BY <1>1, AskedIs
<1>4. QueryByStatus(w, k, status).code = "ok" BY <1>2, <1>3, StatusHas
<1>5. \A t : t \in Range(QueryByStatus(w, k, status).value) <=> OfStatus(w, {k}, status, t)
  BY <1>3, <1>4, StatusHas
<1> HIDE DEF all
<1>6. ASSUME NEW t PROVE OfStatus(w, {k}, status, t) <=> OfStatus(w, K, status, t) /\ t.kind = k
  <2>1. \A x, e : Entry(x, e).kind = x BY DEF Entry
  <2> QED BY <1>3, <2>1 DEF OfStatus
<1>7. \A t : t \in Range(QueryByStatus(w, k, status).value) <=> t \in Range(all) /\ t.kind = k
  BY <1>2, <1>5, <1>6
<1> QED BY <1>4, <1>7 DEF all

\* The backlog that is read.
LEMMA BacklogRead ==
  ASSUME NEW w, PlanFiles(w), NEW items, items = w.files["backlog-item"].items
  PROVE  /\ items \in Seq(Range(items))
         /\ Read(w, "backlog-item").code = "ok" => Read(w, "backlog-item").value = items
<1>1. "backlog-item" \in Kinds /\ "backlog-item" # "finding" BY DEF Kinds
<1>2. Written(w.files["backlog-item"]) BY <1>1 DEF PlanFiles
<1> QED BY <1>1, <1>2, ReadIs DEF Written

LEMMA KeptBacklog ==
  ASSUME NEW items, items \in Seq(Range(items)), NEW filter
  PROVE  /\ Keep(items, Passing(filter, items)) \in Seq(Range(items))
         /\ Range(Keep(items, Passing(filter, items))) = Passing(filter, items)
<1>1. PICK D : D = Range(items) /\ items \in Seq(D) OBVIOUS
<1>2. PICK S : S = Passing(filter, items) OBVIOUS
<1>3. S \subseteq D BY <1>1, <1>2 DEF Passing
<1>4. Keep(items, S) \in Seq(D) /\ Range(Keep(items, S)) = Range(items) \cap S BY <1>1, KeepHas
<1> QED BY <1>1, <1>2, <1>3, <1>4

\* Of tasks that wait for each other in no circle one waits for none.
LEMMA OneIsReady ==
  ASSUME NEW items, items \in Seq(Range(items)), CanFinish(items), DoneIds(items) # IdsOf(items)
  PROVE  Passing(Ready, items) # {}
<1> DEFINE S == IdsOf(items) \ DoneIds(items)
<1>1. DoneIds(items) \subseteq IdsOf(items) BY DEF DoneIds, IdsOf
<1>2. S \in (SUBSET IdsOf(items)) \ {{}} BY <1>1
<1>3. PICK i \in S : Of(items, i).deps \cap S = {}
  <2> HIDE DEF S
  <2> QED BY <1>2 DEF CanFinish
<1>4. PICK e \in Range(items) : e.id = i /\ e = Of(items, i)
  <2> DEFINE c == CHOOSE n \in DOMAIN items : items[n].id = i
  <2>1. \E n \in DOMAIN items : items[n].id = i BY DEF IdsOf, Range
  <2>2. c \in DOMAIN items /\ items[c].id = i BY <2>1, Zenon
  <2>3. Of(items, i) = items[c] BY DEF Of
  <2> HIDE DEF c
  <2> QED BY <2>2, <2>3 DEF Range
<1>5. e.status = "active" /\ e.deps \subseteq IdsOf(items)
  <2>1. e.status # "done" BY <1>3, <1>4 DEF DoneIds
  <2> QED BY <2>1 DEF CanFinish
<1>6. e.deps \subseteq DoneIds(items) BY <1>3, <1>4, <1>5
<1>7. EntryMatches(e, Ready, items) BY <1>5, <1>6 DEF EntryMatches, Ready
<1> QED BY <1>7 DEF Passing

LEMMA BacklogIsListed ==
  ASSUME NEW w, PlanFiles(w), NEW filter, NEW limit, BacklogList(w, filter, limit).code = "ok"
  PROVE  ListsBacklog(w.files["backlog-item"].items, filter, BacklogList(w, filter, limit).value)
<1>1. PICK items : items = w.files["backlog-item"].items OBVIOUS
<1>2. PICK kept : kept = Keep(items, Passing(filter, items)) OBVIOUS
<1>3. PICK out : out = BacklogList(w, filter, limit).value OBVIOUS
<1>4. items \in Seq(Range(items)) BY <1>1, BacklogRead
<1>5. Read(w, "backlog-item").code = "ok" /\ Read(w, "backlog-item").value = items
  <2>1. Read(w, "backlog-item").code = "ok" BY DEF BacklogList, Then
  <2> QED BY <1>1, <2>1, BacklogRead
<1>6. out = Limited(kept, limit) BY <1>2, <1>3, <1>5 DEF BacklogList, Then, Ok
<1>7. PICK D : kept \in Seq(D) /\ Range(kept) = Passing(filter, items) BY <1>2, <1>4, KeptBacklog
<1>8. ~out.truncated => out.items = kept
  <2>1. SubSeq(kept, 1, Len(kept)) = kept BY <1>7
  <2> QED BY <1>6, <2>1 DEF Limited
<1> QED BY <1>1, <1>3, <1>4, <1>7, <1>8, OneIsReady DEF ListsBacklog

LEMMA CountApart ==
  ASSUME NEW A, NEW B, IsFiniteSet(A), IsFiniteSet(B), A \cap B = {}
  PROVE  /\ IsFiniteSet(A \cup B) /\ Cardinality(A \cup B) = Cardinality(A) + Cardinality(B)
         /\ Cardinality(A) \in Nat /\ Cardinality(B) \in Nat
<1>1. /\ IsFiniteSet(A \cup B)
      /\ Cardinality(A \cup B) = Cardinality(A) + Cardinality(B) - Cardinality(A \cap B)
  BY FS_Union
<1>2. Cardinality(A \cap B) = 0 BY FS_EmptySet
<1>3. Cardinality(A) \in Nat /\ Cardinality(B) \in Nat BY FS_CardinalityType
<1> QED BY <1>1, <1>2, <1>3

\* The places of a status.
WithWord(items, s) == {i \in DOMAIN items : items[i].status = s}

LEMMA WordsAreCounted ==
  ASSUME NEW items, items \in Seq(Range(items)), \A e \in Range(items) : e.status \in BacklogStatus
  PROVE  /\ \A s \in BacklogStatus : /\ TaskCounts(items)[s] = Cardinality(WithWord(items, s))
                                     /\ TaskCounts(items)[s] \in Nat
         /\ Len(items) = TaskCounts(items)["active"] + TaskCounts(items)["done"] + TaskCounts(items)["defeated"]
                           + TaskCounts(items)["superseded"] + TaskCounts(items)["blocked"]
<1> DEFINE n == Len(items)
           I(s) == WithWord(items, s)
           c == TaskCounts(items)
<1>1. DOMAIN items = 1..n /\ n \in Nat OBVIOUS
<1>2. \A i \in 1..n : items[i].status \in BacklogStatus BY <1>1 DEF Range
<1>3. \A s \in BacklogStatus : c[s] = Cardinality(I(s)) BY DEF TaskCounts, WithWord
<1> HIDE DEF n, c
<1>4. IsFiniteSet(1..n) /\ Cardinality(1..n) = n
  <2>1. 1 \in Int /\ n \in Int /\ (IF 1 > n THEN 0 ELSE n - 1 + 1) = n BY <1>1
  <2> QED BY <2>1, FS_Interval
<1>5. \A s, u : I(s) \subseteq 1..n /\ (s # u => I(s) \cap I(u) = {})
  BY <1>1 DEF WithWord
<1>6. \A s : IsFiniteSet(I(s)) BY <1>4, <1>5, FS_Subset
<1>7. 1..n = I("active") \cup I("done") \cup I("defeated") \cup I("superseded") \cup I("blocked")
  BY <1>1, <1>2 DEF WithWord, BacklogStatus
<1> HIDE DEF I
<1>8. \A s : Cardinality(I(s)) \in Nat BY <1>6, FS_CardinalityType
<1>9. Cardinality(1..n) = Cardinality(I("active")) + Cardinality(I("done")) + Cardinality(I("defeated"))
                            + Cardinality(I("superseded")) + Cardinality(I("blocked"))
  <2> DEFINE A == I("active")
             B == A \cup I("done")
             C == B \cup I("defeated")
             E == C \cup I("superseded")
  <2>1. A \cap I("done") = {} /\ B \cap I("defeated") = {} /\ C \cap I("superseded") = {} /\ E \cap I("blocked") = {}
    <3>1. /\ "active" # "done" /\ "active" # "defeated" /\ "active" # "superseded" /\ "active" # "blocked"
          /\ "done" # "defeated" /\ "done" # "superseded" /\ "done" # "blocked"
          /\ "defeated" # "superseded" /\ "defeated" # "blocked" /\ "superseded" # "blocked"
      OBVIOUS
    <3> QED BY <1>5, <3>1
  <2>2. IsFiniteSet(B) /\ Cardinality(B) = Cardinality(A) + Cardinality(I("done"))
    BY <1>6, <2>1, CountApart
  <2> HIDE DEF B
  <2>3. IsFiniteSet(C) /\ Cardinality(C) = Cardinality(B) + Cardinality(I("defeated"))
    BY <1>6, <2>1, <2>2, CountApart
  <2> HIDE DEF C
  <2>4. IsFiniteSet(E) /\ Cardinality(E) = Cardinality(C) + Cardinality(I("superseded"))
    BY <1>6, <2>1, <2>3, CountApart
  <2> HIDE DEF E
  <2>5. Cardinality(E \cup I("blocked")) = Cardinality(E) + Cardinality(I("blocked"))
    BY <1>6, <2>1, <2>4, CountApart
  <2>6. 1..n = E \cup I("blocked") BY <1>7 DEF E, C, B
  <2> QED BY <2>2, <2>3, <2>4, <2>5, <2>6
<1>10. {"active", "done", "defeated", "superseded", "blocked"} = BacklogStatus BY DEF BacklogStatus
<1>11. \A s \in BacklogStatus : c[s] \in Nat BY <1>3, <1>8
<1> QED BY <1>3, <1>4, <1>9, <1>10, <1>11 DEF n, c, I

\* The survey's counts are those of the backlog.
LEMMA CountsAreRight ==
  ASSUME NEW w, PlanWorld(w), SurveyCounts(w).code = "ok"
  PROVE  CountsEach(w, SurveyCounts(w).value)
<1>1. PICK items : items = w.files["backlog-item"].items OBVIOUS
<1>2. PlanFiles(w) /\ "backlog-item" \in Kinds BY DEF PlanWorld, Kinds
<1>3. items \in Seq(Range(items)) BY <1>1, <1>2, BacklogRead
<1>4. \A e \in Range(items) : e.status \in BacklogStatus
  <2>1. Vocabulary("backlog-item") = BacklogStatus BY DEF Vocabulary
  <2> QED BY <1>1, <1>2, <2>1 DEF PlanWorld
<1>5. Read(w, "backlog-item").code = "ok" /\ Read(w, "backlog-item").value = items
  <2>1. Read(w, "backlog-item").code = "ok" BY DEF SurveyCounts, Then
  <2> QED BY <1>1, <1>2, <2>1, BacklogRead
<1> DEFINE ready == {i \in DOMAIN items : items[i].status = "active" /\ ~Waits(items[i], items)}
           stuck == {i \in DOMAIN items : items[i].status = "blocked" \/ Waits(items[i], items)}
           counts == SurveyCounts(w).value
           kept == Keep(items, Passing(Ready, items))
<1>6. /\ counts.total = Len(items) /\ counts.tasks = TaskCounts(items)
      /\ counts.row.unblocked = Cardinality(ready) /\ counts.row.blocked = Cardinality(stuck)
  BY <1>5 DEF SurveyCounts, Then, Ok, PlanRowCounts
<1>7. BacklogList(w, Ready, Unset).value.items = kept
  BY <1>5 DEF BacklogList, Then, Ok, Limited
<1>8. Len(kept) = Cardinality({i \in DOMAIN items : items[i] \in Passing(Ready, items)})
  <2>1. PICK S : S = Passing(Ready, items) OBVIOUS
  <2>2. PICK D : items \in Seq(D) BY <1>3
  <2>3. Len(Keep(items, S)) = Cardinality({i \in DOMAIN items : items[i] \in S}) BY <2>2, KeepCounts
  <2> QED BY <2>1, <2>3
<1>9. {i \in DOMAIN items : items[i] \in Passing(Ready, items)} = ready
  <2>1. ASSUME NEW e \in Range(items)
        PROVE  e \in Passing(Ready, items) <=> e.status = "active" /\ ~Waits(e, items)
    BY DEF Passing, EntryMatches, Ready, Waits
  <2>2. \A i \in DOMAIN items : items[i] \in Range(items) BY DEF Range
  <2> QED BY <2>1, <2>2
<1> HIDE DEF counts, kept
<1>10. Cardinality(ready) + Cardinality(stuck)
         = Cardinality(WithWord(items, "active")) + Cardinality(WithWord(items, "blocked"))
  <2>1. DOMAIN items = 1..Len(items) /\ IsFiniteSet(1..Len(items))
    <3>1. DOMAIN items = 1..Len(items) /\ Len(items) \in Nat BY <1>3
    <3>2. 1 \in Int /\ Len(items) \in Int BY <3>1
    <3> QED BY <3>1, <3>2, FS_Interval
  <2>2. /\ ready \subseteq DOMAIN items /\ stuck \subseteq DOMAIN items
        /\ WithWord(items, "active") \subseteq DOMAIN items /\ WithWord(items, "blocked") \subseteq DOMAIN items
    BY DEF WithWord
  <2>3. ready \cap stuck = {} /\ WithWord(items, "active") \cap WithWord(items, "blocked") = {}
    BY DEF WithWord, Waits
  <2>4. ready \cup stuck = WithWord(items, "active") \cup WithWord(items, "blocked")
    BY DEF WithWord, Waits
  <2> HIDE DEF ready, stuck
  <2>5. /\ IsFiniteSet(ready) /\ IsFiniteSet(stuck)
        /\ IsFiniteSet(WithWord(items, "active")) /\ IsFiniteSet(WithWord(items, "blocked"))
    BY <2>1, <2>2, FS_Subset
  <2>6. Cardinality(ready \cup stuck) = Cardinality(ready) + Cardinality(stuck)
    BY <2>3, <2>5, CountApart
  <2>7. Cardinality(WithWord(items, "active") \cup WithWord(items, "blocked"))
          = Cardinality(WithWord(items, "active")) + Cardinality(WithWord(items, "blocked"))
    BY <2>3, <2>5, CountApart
  <2> QED BY <2>4, <2>6, <2>7
<1> HIDE DEF ready, stuck
<1>11. "active" \in BacklogStatus /\ "blocked" \in BacklogStatus BY DEF BacklogStatus
<1>12. /\ TaskCounts(items)["active"] = Cardinality(WithWord(items, "active"))
       /\ TaskCounts(items)["blocked"] = Cardinality(WithWord(items, "blocked"))
       /\ Len(items) = TaskCounts(items)["active"] + TaskCounts(items)["done"] + TaskCounts(items)["defeated"]
                         + TaskCounts(items)["superseded"] + TaskCounts(items)["blocked"]
  BY <1>3, <1>4, <1>11, WordsAreCounted
<1>13. counts.row.unblocked = Len(BacklogList(w, Ready, Unset).value.items)
  BY <1>6, <1>7, <1>8, <1>9
<1>14. counts.row.unblocked + counts.row.blocked = counts.tasks["active"] + counts.tasks["blocked"]
  BY <1>6, <1>10, <1>12
<1> QED BY <1>6, <1>12, <1>13, <1>14 DEF CountsEach, counts

-----------------------------------------------------------------------------
(* What the reports on a plan tell of a change.                            *)

\* The entry of an id is one of the file, and the only one with it.
LEMMA OfIs ==
  ASSUME NEW file, Written(file), NEW i \in IdsOf(file.items)
  PROVE  /\ Of(file.items, i) \in Range(file.items) /\ Of(file.items, i).id = i
         /\ \A e \in Range(file.items) : e.id = i => e = Of(file.items, i)
<1> DEFINE items == file.items
           c == CHOOSE n \in DOMAIN items : items[n].id = i
<1>1. \E n \in DOMAIN items : items[n].id = i BY DEF IdsOf, Range
<1>2. c \in DOMAIN items /\ items[c].id = i BY <1>1, Zenon
<1>3. Of(items, i) = items[c] BY DEF Of
<1> HIDE DEF c
<1>4. ASSUME NEW e \in Range(items), e.id = i PROVE e = items[c]
  <2>1. PICK n \in DOMAIN items : e = items[n] BY DEF Range
  <2>2. n = c BY <1>2, <1>4, <2>1 DEF Written
  <2> QED BY <2>1, <2>2
<1> QED BY <1>2, <1>3, <1>4 DEF Range

\* The sections are those of the order that have lines.
Sections == {"status", "results_added", "results_modified", "added", "deleted", "title", "deps", "handoff"}
LEMMA SectionsTyped == SectionOrder \in Seq(Sections) /\ Range(SectionOrder) = Sections
<1>1. /\ SectionOrder[1] = "status" /\ SectionOrder[2] = "results_added"
      /\ SectionOrder[3] = "results_modified" /\ SectionOrder[4] = "added"
      /\ SectionOrder[5] = "deleted" /\ SectionOrder[6] = "title"
      /\ SectionOrder[7] = "deps" /\ SectionOrder[8] = "handoff" /\ DOMAIN SectionOrder = 1..8
  BY DEF SectionOrder
<1>2. SectionOrder \in Seq(Sections) BY DEF SectionOrder, Sections
<1>3. 1..8 = {1, 2, 3, 4, 5, 6, 7, 8} OBVIOUS
<1>4. Range(SectionOrder) = Sections BY <1>1, <1>3 DEF Range, Sections
<1> QED BY <1>2, <1>4

\* Every section's lines are in the text.
LEMMA LinesAre ==
  ASSUME NEW t
  PROVE  /\ \A name \in Sections : LinesOf(RenderTransitions(t), name) = t[name]
         /\ Len(RenderTransitions(t).sections) = 0 <=> RenderTransitions(t).remark = "no-changes"
<1> DEFINE S == {s \in Sections : t[s] # {}}
           shown == Keep(SectionOrder, S)
           out == RenderTransitions(t)
<1>1. /\ out.remark = (IF shown = <<>> THEN "no-changes" ELSE "changes")
      /\ out.sections = [i \in DOMAIN shown |-> [name |-> shown[i], lines |-> t[shown[i]]]]
  BY SectionsTyped DEF RenderTransitions, Report
<1>2. shown \in Seq(Sections) /\ Range(shown) = S
  <2>1. PICK s : s = SectionOrder /\ s \in Seq(Sections) /\ Range(s) = Sections BY SectionsTyped
  <2>2. PICK K : K = S OBVIOUS
  <2>3. Keep(s, K) \in Seq(Sections) /\ Range(Keep(s, K)) = Range(s) \cap K BY <2>1, KeepHas
  <2> QED BY <2>1, <2>2, <2>3
<1> HIDE DEF shown, out
<1>3. DOMAIN shown = 1..Len(shown) /\ Len(shown) \in Nat /\ (shown = <<>> <=> Len(shown) = 0) BY <1>2
<1>4. Len(out.sections) = Len(shown) BY <1>1, <1>3
<1>5. ASSUME NEW name \in Sections PROVE LinesOf(out, name) = t[name]
  <2>1. \A s \in Range(out.sections) : \E i \in DOMAIN shown : s.name = shown[i] /\ s.lines = t[shown[i]]
    BY <1>1 DEF Range
  <2>2. \A i \in DOMAIN shown : \E s \in Range(out.sections) : s.name = shown[i] /\ s.lines = t[shown[i]]
    <3> TAKE i \in DOMAIN shown
    <3>1. out.sections[i] = [name |-> shown[i], lines |-> t[shown[i]]] /\ i \in DOMAIN out.sections BY <1>1
    <3>2. out.sections[i].name = shown[i] /\ out.sections[i].lines = t[shown[i]] BY <3>1
    <3> QED BY <3>1, <3>2 DEF Range
  <2>3. CASE t[name] = {}
    <3>1. ASSUME NEW s \in Range(out.sections), s.name = name PROVE FALSE
      <4>1. PICK i \in DOMAIN shown : s.name = shown[i] BY <2>1
      <4>2. name \in S BY <1>2, <3>1, <4>1 DEF Range
      <4> QED BY <2>3, <4>2
    <3> QED BY <2>3, <3>1 DEF LinesOf
  <2>4. CASE t[name] # {}
    <3>1. PICK i \in DOMAIN shown : shown[i] = name BY <1>2, <2>4 DEF Range
    <3>2. PICK s \in Range(out.sections) : s.name = name /\ s.lines = t[name] BY <2>2, <3>1
    <3>3. \A u \in Range(out.sections) : u.name = name => u.lines = t[name] BY <2>1
    <3> QED BY <3>2, <3>3 DEF LinesOf
  <2> QED BY <2>3, <2>4
<1> QED BY <1>1, <1>3, <1>4, <1>5 DEF out

\* Lines with an id and a text tell the ids.
IdsIn(lines) == {x[1] : x \in lines}
TextsOf(S, h) == {<<i, h[i]>> : i \in S}
LEMMA IdsAreTold ==
  ASSUME NEW S, NEW h
  PROVE  IdsIn(TextsOf(S, h)) = S
<1> DEFINE lines == TextsOf(S, h)
<1> USE DEF IdsIn, TextsOf
<1>1. ASSUME NEW i \in S PROVE <<i, h[i]>> \in lines /\ <<i, h[i]>>[1] = i OBVIOUS
<1>2. \A i \in S : i \in {x[1] : x \in lines} BY <1>1
<1>3. \A x \in lines : x[1] \in S OBVIOUS
<1> QED BY <1>2, <1>3

\* A field is what the changes say, or what it was.
ChangesOf(B, f, g) == {<<j, f[j], g[j]>> : j \in {x \in B : f[x] # g[x]}}
LEMMA ReplayIs ==
  ASSUME NEW B, NEW f, NEW g, NEW i \in B
  PROVE  Replay(f[i], ChangesOf(B, f, g), i) = g[i]
<1> DEFINE changes == ChangesOf(B, f, g)
           changed == {t \in changes : t[1] = i}
<1> USE DEF ChangesOf
<1>1. \A t \in changed : t[3] = g[i] OBVIOUS
<1>2. f[i] # g[i] => changed # {}
  <2> SUFFICES ASSUME f[i] # g[i] PROVE changed # {}
      OBVIOUS
  <2>1. <<i, f[i], g[i]>> \in changes OBVIOUS
  <2>2. <<i, f[i], g[i]>>[1] = i OBVIOUS
  <2> QED BY <2>1, <2>2
<1> HIDE DEF changed
<1>3. changed # {} => (CHOOSE t \in changed : TRUE) \in changed OBVIOUS
<1> QED BY <1>1, <1>2, <1>3 DEF Replay, changed

\* The report against a baseline.
LEMMA ChangeIsTold ==
  ASSUME NEW base, NEW now
  PROVE  TellsTheChange(base, now, RenderTransitions(ComputeTransitions(base, now)))
<1> DEFINE added == IdsOf(now) \ IdsOf(base)
           deleted == IdsOf(base) \ IdsOf(now)
           t == ComputeTransitions(base, now)
           out == RenderTransitions(t)
           B == Both(base, now)
<1>1. /\ t["added"] = {<<i, Of(now, i).claim>> : i \in added}
      /\ t["deleted"] = {<<i, Of(base, i).claim>> : i \in deleted}
      /\ t["status"] = {<<i, Of(base, i).status, Of(now, i).status>> :
                          i \in {j \in B : Of(base, j).status # Of(now, j).status}}
      /\ t["title"] = {<<i, Of(base, i).claim, Of(now, i).claim>> :
                          i \in {j \in B : Of(base, j).claim # Of(now, j).claim}}
      /\ t["deps"] = {<<i, Of(base, i).deps, Of(now, i).deps>> :
                          i \in {j \in B : Of(base, j).deps # Of(now, j).deps}}
      /\ t["handoff"] = {<<i, Of(base, i).handoff, Of(now, i).handoff>> :
                          i \in {j \in B : Of(base, j).handoff # Of(now, j).handoff}}
      /\ t["results_added"] = {x \in {<<i, Of(base, i).results, Of(now, i).results>> :
                          i \in {j \in B : Of(base, j).results # Of(now, j).results}} : x[2] = 0}
      /\ t["results_modified"] = {x \in {<<i, Of(base, i).results, Of(now, i).results>> :
                          i \in {j \in B : Of(base, j).results # Of(now, j).results}} : x[2] # 0 /\ x[3] # 0}
  BY DEF ComputeTransitions, DiffEntryFields, Changed
<1>2. \A name \in Sections : LinesOf(out, name) = t[name] BY LinesAre
<1>3. Len(out.sections) = 0 <=> out.remark = "no-changes" BY LinesAre
<1> HIDE DEF t, out, B
<1>4. IdsOf(now) = (IdsOf(base) \ {x[1] : x \in LinesOf(out, "deleted")}) \cup {x[1] : x \in LinesOf(out, "added")}
  <2>1. {x[1] : x \in t["deleted"]} = deleted
    <3>1. PICK h : h = [i \in deleted |-> Of(base, i).claim] OBVIOUS
    <3>2. t["deleted"] = TextsOf(deleted, h) BY <1>1, <3>1 DEF TextsOf
    <3> HIDE DEF deleted
    <3>3. IdsIn(t["deleted"]) = deleted BY <3>2, IdsAreTold
    <3> QED BY <3>3 DEF IdsIn
  <2>2. {x[1] : x \in t["added"]} = added
    <3>1. PICK h : h = [i \in added |-> Of(now, i).claim] OBVIOUS
    <3>2. t["added"] = TextsOf(added, h) BY <1>1, <3>1 DEF TextsOf
    <3> HIDE DEF added
    <3>3. IdsIn(t["added"]) = added BY <3>2, IdsAreTold
    <3> QED BY <3>3 DEF IdsIn
  <2>3. LinesOf(out, "deleted") = t["deleted"] /\ LinesOf(out, "added") = t["added"] BY <1>2 DEF Sections
  <2> QED BY <2>1, <2>2, <2>3
<1>5. ASSUME NEW i \in B
      PROVE  /\ Of(now, i).status = Replay(Of(base, i).status, LinesOf(out, "status"), i)
             /\ Of(now, i).claim = Replay(Of(base, i).claim, LinesOf(out, "title"), i)
             /\ Of(now, i).deps = Replay(Of(base, i).deps, LinesOf(out, "deps"), i)
             /\ Of(now, i).handoff = Replay(Of(base, i).handoff, LinesOf(out, "handoff"), i)
  <2>1. /\ LinesOf(out, "status") = t["status"] /\ LinesOf(out, "title") = t["title"]
        /\ LinesOf(out, "deps") = t["deps"] /\ LinesOf(out, "handoff") = t["handoff"]
    BY <1>2 DEF Sections
  <2>2. Of(now, i).status = Replay(Of(base, i).status, t["status"], i)
    <3>1. PICK f : f = [j \in B |-> Of(base, j).status] OBVIOUS
    <3>2. PICK g : g = [j \in B |-> Of(now, j).status] OBVIOUS
    <3>3. \A j \in B : f[j] = Of(base, j).status /\ g[j] = Of(now, j).status BY <3>1, <3>2
    <3>4. t["status"] = ChangesOf(B, f, g) BY <1>1, <3>3 DEF ChangesOf
    <3>5. Replay(f[i], ChangesOf(B, f, g), i) = g[i] BY ReplayIs
    <3> QED BY <3>3, <3>4, <3>5
  <2>3. Of(now, i).claim = Replay(Of(base, i).claim, t["title"], i)
    <3>1. PICK f : f = [j \in B |-> Of(base, j).claim] OBVIOUS
    <3>2. PICK g : g = [j \in B |-> Of(now, j).claim] OBVIOUS
    <3>3. \A j \in B : f[j] = Of(base, j).claim /\ g[j] = Of(now, j).claim BY <3>1, <3>2
    <3>4. t["title"] = ChangesOf(B, f, g) BY <1>1, <3>3 DEF ChangesOf
    <3>5. Replay(f[i], ChangesOf(B, f, g), i) = g[i] BY ReplayIs
    <3> QED BY <3>3, <3>4, <3>5
  <2>4. Of(now, i).deps = Replay(Of(base, i).deps, t["deps"], i)
    <3>1. PICK f : f = [j \in B |-> Of(base, j).deps] OBVIOUS
    <3>2. PICK g : g = [j \in B |-> Of(now, j).deps] OBVIOUS
    <3>3. \A j \in B : f[j] = Of(base, j).deps /\ g[j] = Of(now, j).deps BY <3>1, <3>2
    <3>4. t["deps"] = ChangesOf(B, f, g) BY <1>1, <3>3 DEF ChangesOf
    <3>5. Replay(f[i], ChangesOf(B, f, g), i) = g[i] BY ReplayIs
    <3> QED BY <3>3, <3>4, <3>5
  <2>5. Of(now, i).handoff = Replay(Of(base, i).handoff, t["handoff"], i)
    <3>1. PICK f : f = [j \in B |-> Of(base, j).handoff] OBVIOUS
    <3>2. PICK g : g = [j \in B |-> Of(now, j).handoff] OBVIOUS
    <3>3. \A j \in B : f[j] = Of(base, j).handoff /\ g[j] = Of(now, j).handoff BY <3>1, <3>2
    <3>4. t["handoff"] = ChangesOf(B, f, g) BY <1>1, <3>3 DEF ChangesOf
    <3>5. Replay(f[i], ChangesOf(B, f, g), i) = g[i] BY ReplayIs
    <3> QED BY <3>3, <3>4, <3>5
  <2> QED BY <2>1, <2>2, <2>3, <2>4, <2>5
<1>6. ASSUME NEW i \in B, Of(now, i).results \notin {0, Of(base, i).results}
      PROVE  <<i, Of(base, i).results, Of(now, i).results>> \in
               LinesOf(out, "results_added") \cup LinesOf(out, "results_modified")
  <2>1. LinesOf(out, "results_added") = t["results_added"] /\ LinesOf(out, "results_modified") = t["results_modified"]
    BY <1>2 DEF Sections
  <2> DEFINE x == <<i, Of(base, i).results, Of(now, i).results>>
             Diff == {<<k, Of(base, k).results, Of(now, k).results>> :
                          k \in {j \in B : Of(base, j).results # Of(now, j).results}}
  <2>2. x \in Diff BY <1>6
  <2>3. x[2] = Of(base, i).results /\ x[3] = Of(now, i).results OBVIOUS
  <2>4. t["results_added"] = {y \in Diff : y[2] = 0} /\ t["results_modified"] = {y \in Diff : y[2] # 0 /\ y[3] # 0}
    BY <1>1
  <2> HIDE DEF x, Diff
  <2>5. x \in t["results_added"] \cup t["results_modified"] BY <1>6, <2>2, <2>3, <2>4
  <2> QED BY <2>1, <2>5 DEF x
<1> QED BY <1>3, <1>4, <1>5, <1>6 DEF TellsTheChange, B, out, t

\* The labels of the phase summary.
LEMMA ChangeIsLabelled ==
  ASSUME NEW old, NEW new, Written(old), Written(new)
  PROVE  LabelsTheChange(old.items, new.items, ComputeTriageLabels(old.items, new.items))
<1> DEFINE base == old.items
           now == new.items
           B == Both(base, now)
           finished == {i \in B : Of(base, i).status # "done" /\ Of(now, i).status = "done"}
           moved == {i \in B : Position(base, i) # Position(now, i)}
           labels == ComputeTriageLabels(base, now)
<1>1. DOMAIN labels = finished \cup moved \cup (IdsOf(base) \ IdsOf(now)) \cup (IdsOf(now) \ IdsOf(base))
  BY DEF ComputeTriageLabels
<1> HIDE DEF labels, base, now
<1>2. \A i, j \in B : (Position(base, i) < Position(base, j)) # (Position(now, i) < Position(now, j))
                         => {i, j} \cap DOMAIN labels # {}
  <2> SUFFICES ASSUME NEW i \in B, NEW j \in B, i \notin DOMAIN labels, j \notin DOMAIN labels
               PROVE  (Position(base, i) < Position(base, j)) = (Position(now, i) < Position(now, j))
      OBVIOUS
  <2>1. Position(base, i) = Position(now, i) /\ Position(base, j) = Position(now, j) BY <1>1
  <2> QED BY <2>1
<1>3. ASSUME NEW i, i \notin DOMAIN labels PROVE i \in IdsOf(base) <=> i \in IdsOf(now)
  BY <1>1, <1>3
<1>4. ASSUME NEW i, i \notin DOMAIN labels, i \in DoneIds(now) PROVE i \in DoneIds(base)
  <2>1. PICK e \in Range(now) : e.status = "done" /\ e.id = i BY <1>4 DEF DoneIds
  <2>2. i \in IdsOf(now) /\ i \in IdsOf(base) BY <1>3, <1>4, <2>1 DEF IdsOf
  <2>3. e = Of(now, i) BY <2>1, <2>2, OfIs DEF now
  <2>4. Of(base, i).status = "done" BY <1>1, <1>4, <2>1, <2>2, <2>3 DEF Both
  <2>5. Of(base, i) \in Range(base) /\ Of(base, i).id = i BY <2>2, OfIs DEF base
  <2> QED BY <2>4, <2>5 DEF DoneIds
<1>5. \A i \in ItemIds \ DOMAIN labels :
        /\ i \in IdsOf(base) <=> i \in IdsOf(now)
        /\ i \in DoneIds(now) => i \in DoneIds(base)
  BY <1>3, <1>4
<1> QED BY <1>2, <1>5 DEF LabelsTheChange, labels, base, now

\* What analyse-work is told, with a baseline and without one.
LEMMA ReportIs ==
  ASSUME NEW w, PlanFiles(w), BacklogTransitions(w).code = "ok",
         NEW base, base = w.baseline.files["backlog-item"].items,
         NEW now, now = w.files["backlog-item"].items
  PROVE  /\ /\ w.files["backlog-item"].state = "ok" /\ w.baseline.files["backlog-item"].state = "ok"
            /\ w.baseline.sha # "none" /\ w.baseline.git = "ok"
            => TellsTheChange(base, now, BacklogTransitions(w).value)
         /\ BacklogTransitions(w).value.remark = "no-baseline-found" =>
              {t[1] : t \in LinesOf(BacklogTransitions(w).value, "added")} = IdsOf(now)
<1> DEFINE at == w.baseline
           read == Read(w, "backlog-item")
           out == BacklogTransitions(w).value
           t == ComputeTransitions(base, read.value)
<1>1. read.code = "ok" => read.value = now BY BacklogRead
<1>2. w.files["backlog-item"].state = "ok" => read.code = "ok" BY ReadIs DEF Ok
<1>3. out = IF at.sha = "none" THEN Report("no-baseline", <<>>)
            ELSE IF read.code # "ok" THEN Report("unreadable", <<>>)
            ELSE IF at.git = "no-repository" THEN Report("lookup-failed", <<>>)
            ELSE IF at.files["backlog-item"].state = "missing" THEN RenderAdditionsOnly(read.value)
            ELSE IF at.files["backlog-item"].state # "ok" THEN Report("lookup-failed", <<>>)
            ELSE RenderTransitions(t)
  BY DEF BacklogTransitions, Remark, Ok
<1> HIDE DEF at, read, out, t
<1>4. ASSUME w.files["backlog-item"].state = "ok", at.files["backlog-item"].state = "ok",
             at.sha # "none", at.git = "ok"
      PROVE  TellsTheChange(base, now, out)
  <2>1. "ok" # "missing" /\ "ok" # "no-repository" OBVIOUS
  <2>2. out = RenderTransitions(t) BY <1>2, <1>3, <1>4, <2>1
  <2>3. out = RenderTransitions(ComputeTransitions(base, now)) BY <1>1, <1>2, <1>4, <2>2 DEF t
  <2> QED BY <2>3, ChangeIsTold
<1>5. ASSUME out.remark = "no-baseline-found" PROVE {x[1] : x \in LinesOf(out, "added")} = IdsOf(now)
  <2>1. \A r, s : Report(r, s).remark = r BY DEF Report
  <2>2. RenderTransitions(t).remark # "no-baseline-found"
    <3>1. RenderTransitions(t).remark \in {"no-changes", "changes"} BY DEF RenderTransitions, Report
    <3> QED BY <3>1
  <2>3. out = RenderAdditionsOnly(read.value) /\ read.code = "ok"
    <3>1. /\ "no-baseline" # "no-baseline-found" /\ "unreadable" # "no-baseline-found"
          /\ "lookup-failed" # "no-baseline-found"
      OBVIOUS
    <3> QED BY <1>3, <1>5, <2>1, <2>2, <3>1
  <2>4. out = RenderAdditionsOnly(now) BY <1>1, <2>3
  <2>5. "no-baseline-empty" # "no-baseline-found" OBVIOUS
  <2>6. now # <<>> BY <1>5, <2>1, <2>4, <2>5 DEF RenderAdditionsOnly
  <2> DEFINE lines == {<<i, Of(now, i).claim>> : i \in IdsOf(now)}
  <2>7. out = Report("no-baseline-found", <<[name |-> "added", lines |-> lines]>>)
    BY <2>4, <2>6 DEF RenderAdditionsOnly
  <2>8. PICK h : h = [i \in IdsOf(now) |-> Of(now, i).claim] OBVIOUS
  <2>9. lines = TextsOf(IdsOf(now), h) BY <2>8 DEF TextsOf
  <2> HIDE DEF lines
  <2>10. out.sections = <<[name |-> "added", lines |-> lines]>> BY <2>7 DEF Report
  <2>11. Range(out.sections) = {[name |-> "added", lines |-> lines]} BY <2>10 DEF Range
  <2>12. LinesOf(out, "added") = lines
    <3>1. PICK s : s = [name |-> "added", lines |-> lines] OBVIOUS
    <3>2. {x \in Range(out.sections) : x.name = "added"} = {s} BY <2>11, <3>1
    <3>3. {x.lines : x \in {s}} = {lines} BY <3>1
    <3>4. UNION {x.lines : x \in {x \in Range(out.sections) : x.name = "added"}} = UNION {lines}
      BY <3>2, <3>3
    <3> QED BY <3>4 DEF LinesOf
  <2>13. IdsIn(LinesOf(out, "added")) = IdsOf(now) BY <2>9, <2>12, IdsAreTold
  <2> QED BY <2>13 DEF IdsIn
<1> QED BY <1>4, <1>5 DEF at, out

\* What the phase summary labels.
LEMMA SummaryIs ==
  ASSUME NEW w, PlanFiles(w), PhaseSummary(w, "triage").code = "ok", w.baseline.sha # "none",
         w.baseline.files["backlog-item"].state = "ok", Written(w.baseline.files["backlog-item"])
  PROVE  LabelsTheChange(w.baseline.files["backlog-item"].items, w.files["backlog-item"].items,
                         PhaseSummary(w, "triage").value)
<1> DEFINE old == w.baseline.files["backlog-item"]
           new == w.files["backlog-item"]
           read == Read(w, "backlog-item")
           before == BaselineYaml(w, "backlog-item")
           out == PhaseSummary(w, "triage")
<1>1. out = IF read.code = "ok" THEN IF before.code = "ok" THEN Ok(ComputeTriageLabels(before.value, read.value))
                                     ELSE before
            ELSE read
  BY DEF PhaseSummary, Then
<1>2. before = IF w.baseline.git = "no-repository" THEN Error("IoError") ELSE Ok(old.items)
  <2>1. "ok" # "missing" OBVIOUS
  <2> QED BY <2>1 DEF BaselineYaml
<1>3. read.code = "ok" => read.value = new.items BY BacklogRead
<1>4. before.code = "ok" => before.value = old.items BY <1>2 DEF Ok, Error
<1>5. Written(new)
  <2>1. "backlog-item" \in Kinds BY DEF Kinds
  <2> QED BY <2>1 DEF PlanFiles
<1> HIDE DEF old, new, read, before, out
<1>6. out.code = "ok" BY DEF out
<1>7. read.code = "ok" /\ before.code = "ok" BY <1>1, <1>6
<1>8. out = Ok(ComputeTriageLabels(old.items, new.items)) BY <1>1, <1>3, <1>4, <1>7
<1>9. out.value = ComputeTriageLabels(old.items, new.items) BY <1>8 DEF Ok
<1>10. Written(old) BY DEF old
<1> QED BY <1>5, <1>9, <1>10, ChangeIsLabelled DEF old, new, out

-----------------------------------------------------------------------------
(* Lists, the lint of dependencies, and mentions.                          *)

\* k elements after the first o.
LEMMA SliceIs ==
  ASSUME NEW D, NEW s \in Seq(D), NEW o \in Nat, NEW k \in Nat, o + k <= Len(s)
  PROVE  /\ SubSeq(s, o + 1, o + k) \in Seq(D) /\ Len(SubSeq(s, o + 1, o + k)) = k
         /\ \A i \in 1..k : SubSeq(s, o + 1, o + k)[i] = s[o + i]
<1> DEFINE a == o + 1
           z == o + k
<1>1. a \in Int /\ z \in Int /\ \A i \in a..z : i \in 1..Len(s) OBVIOUS
<1>2. \A i \in a..z : s[i] \in D BY <1>1
<1>3. z - a + 1 = k /\ (a <= z <=> k # 0) /\ \A i \in 1..k : a + i - 1 = o + i OBVIOUS
<1> HIDE DEF a, z
<1>4. /\ SubSeq(s, a, z) \in Seq(D) /\ Len(SubSeq(s, a, z)) = IF a <= z THEN z - a + 1 ELSE 0
      /\ \A i \in 1..(z - a + 1) : SubSeq(s, a, z)[i] = s[a + i - 1]
  BY <1>1, <1>2, SubSeqProperties
<1> DEFINE cut == SubSeq(s, a, z)
<1> HIDE DEF cut
<1>5. cut \in Seq(D) /\ Len(cut) = k /\ \A i \in 1..k : cut[i] = s[o + i] BY <1>3, <1>4 DEF cut
<1> QED BY <1>5 DEF cut, a, z

\* The head of a list.
LEMMA HeadIsCut ==
  ASSUME NEW D, NEW s \in Seq(D), NEW k \in 0..Len(s)
  PROVE  /\ SubSeq(s, 1, k) \in Seq(D) /\ Len(SubSeq(s, 1, k)) = k
         /\ Range(SubSeq(s, 1, k)) \subseteq Range(s) /\ IsPrefix(SubSeq(s, 1, k), s)
<1> DEFINE cut == SubSeq(s, 1, k)
<1>1. Len(s) \in Nat /\ k \in Nat /\ 0 + k <= Len(s) /\ k <= Len(s) /\ 0 + 1 = 1 /\ 0 + k = k OBVIOUS
<1>2. cut \in Seq(D) /\ Len(cut) = k /\ \A i \in 1..k : cut[i] = s[0 + i] BY <1>1, SliceIs
<1> HIDE DEF cut
<1>3. DOMAIN cut = 1..k /\ DOMAIN s = 1..Len(s) /\ \A i \in 1..k : cut[i] = s[i] /\ i \in 1..Len(s)
  BY <1>1, <1>2
<1>4. Range(cut) \subseteq Range(s) BY <1>3 DEF Range
<1>5. IsPrefix(cut, s) BY <1>1, <1>2, <1>3, PrefixIs
<1> QED BY <1>2, <1>4, <1>5 DEF cut

\* The end of a log.
LEMMA TailIsCut ==
  ASSUME NEW D, NEW s \in Seq(D), NEW k \in 0..Len(s)
  PROVE  /\ Len(SubSeq(s, Len(s) - k + 1, Len(s))) = k
         /\ Range(SubSeq(s, Len(s) - k + 1, Len(s))) \subseteq Range(s)
         /\ IsSuffix(SubSeq(s, Len(s) - k + 1, Len(s)), s)
<1> DEFINE n == Len(s)
           o == n - k
           cut == SubSeq(s, o + 1, o + k)
           head == SubSeq(s, 0 + 1, 0 + o)
<1>1. n \in Nat /\ k \in Nat /\ o \in Nat /\ o + k = n /\ o + k <= Len(s) /\ 0 + o <= Len(s) OBVIOUS
<1>2. DOMAIN s = 1..n OBVIOUS
<1>3. SubSeq(s, Len(s) - k + 1, Len(s)) = cut BY <1>1
<1> HIDE DEF n, o
<1>4. cut \in Seq(D) /\ Len(cut) = k /\ \A i \in 1..k : cut[i] = s[o + i] BY <1>1, SliceIs
<1>5. head \in Seq(D) /\ Len(head) = o /\ \A i \in 1..o : head[i] = s[0 + i] BY <1>1, SliceIs
<1> HIDE DEF cut, head
<1>6. Range(cut) \subseteq Range(s)
  <2>1. DOMAIN cut = 1..k /\ \A i \in 1..k : o + i \in 1..n BY <1>1, <1>4
  <2> QED BY <1>2, <1>4, <2>1 DEF Range
<1>7. head \o cut = s
  <2>0. head \o cut \in Seq(D) BY <1>4, <1>5
  <2>1. PICK c \in Seq(D) : c = head \o cut BY <2>0
  <2>2. Len(c) = n /\ (\A i \in 1..o : c[i] = head[i]) /\ (\A i \in 1..k : c[o + i] = cut[i])
        BY <1>1, <1>4, <1>5, <2>1
  <2>3. ASSUME NEW i \in 1..n PROVE c[i] = s[i]
    <3>1. CASE i \in 1..o BY <1>1, <1>5, <2>2, <3>1
    <3>2. CASE i \notin 1..o
      <4>1. PICK j \in 1..k : i = o + j
        <5>1. i - o \in 1..k /\ i = o + (i - o) BY <1>1, <3>2
        <5> QED BY <5>1
      <4> QED BY <1>4, <2>2, <4>1
    <3> QED BY <3>1, <3>2
  <2>4. Len(c) = Len(s) /\ \A i \in 1..Len(c) : c[i] = s[i] BY <2>2, <2>3 DEF n
  <2>5. c = s BY <2>4, SeqEqual
  <2> QED BY <2>1, <2>5
<1>8. IsSuffix(cut, head \o cut) BY <1>4, <1>5, BeginsAndEnds
<1> QED BY <1>3, <1>4, <1>6, <1>7, <1>8

\* What is listed of a file: as much as is asked for, from the end of it that is
\* asked for, and all of it unless that is said.
Cut(kind, items, limits) == IF kind = "session" THEN SelectRecords(items, limits) ELSE Apply(items, limits)
IsCut(kind, items, limits, out) ==
  /\ ~out.truncated => out.items = items
  /\ out.truncated => Len(out.items) = limits.limit /\ ~limits.all
  /\ IF kind = "session" THEN IsSuffix(out.items, items) ELSE IsPrefix(out.items, items)
  /\ Range(out.items) \subseteq Range(items)

LEMMA CutIs ==
  ASSUME NEW D, NEW items \in Seq(D), NEW limits, limits.limit = Unset \/ limits.limit \in Nat, NEW kind
  PROVE  IsCut(kind, items, limits, Cut(kind, items, limits))
<1>0. PICK out : out = Cut(kind, items, limits) OBVIOUS
<1> SUFFICES IsCut(kind, items, limits, out) BY <1>0
<1> USE DEF IsCut
<1> DEFINE cap == Effective(limits)
           n == Len(items)
<1>1. n \in Nat OBVIOUS
<1>2. cap # Unset => ~limits.all /\ cap = limits.limit /\ cap \in Nat BY DEF Effective
<1>3. /\ SubSeq(items, 1, n) = items /\ IsPrefix(items, items) /\ IsSuffix(items, items)
  <2>1. SubSeq(items, 1, n) = items BY SubSeqFull
  <2>2. n - n + 1 = 1 /\ n \in 0..Len(items) BY <1>1
  <2>3. IsPrefix(SubSeq(items, 1, n), items) BY <2>2, HeadIsCut
  <2>4. IsSuffix(SubSeq(items, n - n + 1, n), items) BY <2>2, TailIsCut
  <2> HIDE DEF n
  <2> QED BY <2>1, <2>2, <2>3, <2>4
<1>4. CASE kind = "session"
  <2>1. /\ out.truncated <=> (cap # Unset /\ cap < n)
        /\ out.items = IF cap # Unset /\ cap < n THEN SubSeq(items, n - cap + 1, n) ELSE items
    BY <1>0, <1>4 DEF SelectRecords, Cut
  <2> HIDE DEF cap
  <2>2. CASE cap # Unset /\ cap < n
    <3>1. cap \in 0..Len(items) BY <1>1, <1>2, <2>2
    <3>2. out.items = SubSeq(items, n - cap + 1, n) BY <2>1, <2>2
    <3>3. /\ Len(out.items) = cap /\ Range(out.items) \subseteq Range(items) /\ IsSuffix(out.items, items)
      BY <3>1, <3>2, TailIsCut
    <3> QED BY <1>2, <1>4, <2>1, <2>2, <3>3
  <2>3. CASE ~(cap # Unset /\ cap < n)
    <3>1. out.items = items /\ ~out.truncated BY <2>1, <2>3
    <3> QED BY <1>3, <1>4, <3>1
  <2> QED BY <2>2, <2>3
<1>5. CASE kind # "session"
  <2>1. /\ out.truncated <=> (cap # Unset /\ cap < n)
        /\ out.items = IF cap = Unset THEN items ELSE SubSeq(items, 1, IF cap < n THEN cap ELSE n)
    BY <1>0, <1>5 DEF Apply, Limited, Cut
  <2> HIDE DEF cap
  <2>2. CASE cap # Unset /\ cap < n
    <3>1. cap \in 0..Len(items) BY <1>1, <1>2, <2>2
    <3>2. out.items = SubSeq(items, 1, cap) BY <2>1, <2>2
    <3>3. /\ Len(out.items) = cap /\ Range(out.items) \subseteq Range(items) /\ IsPrefix(out.items, items)
      BY <3>1, <3>2, HeadIsCut
    <3> QED BY <1>2, <1>5, <2>1, <2>2, <3>3
  <2>3. CASE ~(cap # Unset /\ cap < n)
    <3>1. out.items = items /\ ~out.truncated BY <1>3, <2>1, <2>3
    <3> QED BY <1>3, <1>5, <3>1
  <2> QED BY <2>2, <2>3
<1> QED BY <1>4, <1>5

\* Ids are distinct: what is shown for the id of a record is that record.
LEMMA RecordIsShown ==
  ASSUME NEW w, NEW kind, Written(w.files[kind]), Read(w, kind).code = "ok",
         NEW e \in Range(Read(w, kind).value)
  PROVE  RunShow(w, kind, e.id, "yaml") = Ok(e)
<1> DEFINE items == w.files[kind].items
           same == {x \in Range(items) : x.id = e.id}
           hits == Keep(items, same)
<1>1. Range(<<>>) = {} BY DEF Range
<1>2. Read(w, kind).value = items
  <2>1. Read(w, kind).value # <<>> BY <1>1
  <2> QED BY <2>1, ReadIs
<1>3. items \in Seq(Range(items)) BY DEF Written
<1>4. hits \in Seq(Range(items)) /\ Range(hits) = same BY <1>3, KeepHas
<1>5. \A x \in same : x = e
  <2>1. PICK i \in DOMAIN items : e = items[i] BY <1>2 DEF Range
  <2>2. ASSUME NEW x \in same PROVE x = e
    <3>1. PICK j \in DOMAIN items : x = items[j] BY DEF Range
    <3>2. j = i BY <2>1, <2>2, <3>1 DEF Written
    <3> QED BY <2>1, <3>1, <3>2
  <2> QED BY <2>2
<1>6. e \in same BY <1>2
<1>7. RunShow(w, kind, e.id, "yaml") = IF hits = <<>> THEN Error("NotFound") ELSE Ok(Head(hits))
  BY <1>2 DEF RunShow, Then
<1> HIDE DEF hits, same
<1>8. hits # <<>> BY <1>1, <1>4, <1>6
<1>9. Head(hits) = hits[1] /\ 1 \in DOMAIN hits BY <1>4, <1>8
<1>10. Head(hits) = e BY <1>4, <1>5, <1>9 DEF Range
<1> QED BY <1>7, <1>8, <1>10

\* What a list verb answers is what is in the file.
LEMMA ListIs ==
  ASSUME NEW w, NEW kind, Written(w.files[kind]), NEW limits, limits.limit = Unset \/ limits.limit \in Nat,
         NEW format, RunList(w, kind, limits, format).code = "ok"
  PROVE  ListIsWhole(w, kind, limits, RunList(w, kind, limits, format).value)
<1> DEFINE read == Read(w, kind)
           items == read.value
           D == Range(w.files[kind].items)
<1>1. PICK out : out = Cut(kind, items, limits) OBVIOUS
<1>2. RunList(w, kind, limits, format) =
        IF read.code = "ok" THEN IF format = "markdown" THEN Error("InvalidInput") ELSE Ok(out) ELSE read
  BY <1>1 DEF RunList, Then, Cut
<1>3. read.code = "ok" /\ RunList(w, kind, limits, format).value = out
  <2>1. Error("InvalidInput").code # "ok" BY DEF Error
  <2>2. Ok(out).value = out BY DEF Ok
  <2> QED BY <1>2, <2>1, <2>2
<1>4. items \in Seq(D)
  <2>1. w.files[kind].items \in Seq(D) BY DEF Written
  <2>2. <<>> \in Seq(D) OBVIOUS
  <2> QED BY <1>3, <2>1, <2>2, ReadIs
<1> HIDE DEF read, items, D
<1>5. IsCut(kind, items, limits, out) BY <1>1, <1>4, CutIs
<1>6. \A e \in Range(out.items) : RunShow(w, kind, e.id, "yaml") = Ok(e)
  BY <1>3, <1>5, RecordIsShown DEF read, items, IsCut
<1> QED BY <1>3, <1>5, <1>6 DEF ListIsWhole, items, read, IsCut

\* The lint names a task exactly if its prose mentions another that it does not
\* depend on, and names all of those.
LEMMA LintIs ==
  ASSUME NEW file, Written(file)
  PROVE  LintFindsTheDrift(file.items, LintDependencies(file.items))
<1> DEFINE items == file.items
           Missing(e) == AnalyseEntry(e, IdsOf(items))
           drifts == {e \in Range(items) : Missing(e) # {}}
           drifting == Keep(items, drifts)
           told == LintDependencies(items)
<1>1. items \in Seq(Range(items)) BY DEF Written
<1>2. drifting \in Seq(Range(items)) /\ Range(drifting) = drifts BY <1>1, KeepHas
<1>3. told = [n \in DOMAIN drifting |-> [id |-> drifting[n].id, missing |-> Missing(drifting[n])]]
  BY DEF LintDependencies
<1>4. \A e : Missing(e) = {i \in IdsOf(items) \ {e.id} : i \in e.prose /\ i \notin e.deps}
  BY DEF AnalyseEntry
<1> HIDE DEF drifting, told, Missing
<1>5. /\ DOMAIN told = DOMAIN drifting
      /\ \A k \in DOMAIN told : told[k].id = drifting[k].id /\ told[k].missing = Missing(drifting[k])
  BY <1>3
<1>6. ASSUME NEW e \in Range(items), NEW k \in DOMAIN told, told[k].id = e.id
      PROVE  drifting[k] = e
  <2>1. drifting[k] \in Range(items) /\ drifting[k].id = e.id BY <1>2, <1>5, <1>6 DEF Range
  <2>2. PICK i \in DOMAIN items : e = items[i] BY DEF Range
  <2>3. PICK j \in DOMAIN items : drifting[k] = items[j] BY <2>1 DEF Range
  <2>4. i = j BY <2>1, <2>2, <2>3 DEF Written
  <2> QED BY <2>2, <2>3, <2>4
<1>7. ASSUME NEW e \in Range(items)
      PROVE  /\ (\A k \in DOMAIN told : told[k].id # e.id) <=> Missing(e) = {}
             /\ \A k \in DOMAIN told : told[k].id = e.id => told[k].missing = Missing(e)
  <2>1. ASSUME NEW k \in DOMAIN told, told[k].id = e.id PROVE told[k].missing = Missing(e) /\ Missing(e) # {}
    <3>1. drifting[k] = e BY <1>6, <2>1
    <3>2. e \in drifts BY <1>2, <1>5, <3>1 DEF Range
    <3> QED BY <1>5, <3>1, <3>2
  <2>2. ASSUME Missing(e) # {} PROVE \E k \in DOMAIN told : told[k].id = e.id
    <3>1. e \in Range(drifting) BY <1>2, <2>2
    <3>2. PICK k \in DOMAIN drifting : e = drifting[k] BY <3>1 DEF Range
    <3> QED BY <1>5, <3>2
  <2> QED BY <2>1, <2>2
<1> QED BY <1>4, <1>7 DEF LintFindsTheDrift, told

\* An id is found exactly where it stands between blanks.
LEMMA MentionIs ==
  ASSUME NEW D, NEW hay \in Seq(D), NEW E, NEW id \in Seq(E), Blank \notin Range(id)
  PROVE  ContainsIdAsWord(hay, id) = (id \in WordsOf(hay))
<1> DEFINE n == Len(hay)
           m == Len(id)
<1>1. n \in Nat /\ m \in Nat /\ DOMAIN hay = 1..n /\ DOMAIN id = 1..m /\ \A i \in 1..n : hay[i] \in D OBVIOUS
<1>2. \A k \in 1..m : id[k] # Blank BY <1>1 DEF Range
<1>3. id # <<>> <=> m >= 1 OBVIOUS
<1> HIDE DEF n, m
<1>4. ASSUME NEW i \in 1..n, NEW j \in i..n
      PROVE  /\ Len(SubSeq(hay, i, j)) = j - i + 1
             /\ \A k \in 1..(j - i + 1) : SubSeq(hay, i, j)[k] = hay[i + k - 1]
  <2>1. i \in Int /\ j \in Int /\ i <= j /\ \A k \in i..j : hay[k] \in D BY <1>1
  <2>2. /\ Len(SubSeq(hay, i, j)) = IF i <= j THEN j - i + 1 ELSE 0
        /\ \A k \in 1..(j - i + 1) : SubSeq(hay, i, j)[k] = hay[i + k - 1]
    BY <2>1, SubSeqProperties
  <2> QED BY <2>1, <2>2
<1>5. ASSUME ContainsIdAsWord(hay, id) PROVE id \in WordsOf(hay)
  <2>1. PICK i \in 1..(n - m + 1) :
          LET last == i + m - 1
          IN  /\ SubSeq(hay, i, last) = id
              /\ i = 1 \/ hay[i - 1] = Blank
              /\ last = n \/ hay[last + 1] = Blank
    BY <1>5 DEF ContainsIdAsWord, IsSlugByte, n, m
  <2>2. m >= 1 BY <1>3, <1>5 DEF ContainsIdAsWord
  <2> DEFINE j == i + m - 1
  <2>3. i \in 1..n /\ j \in i..n /\ j - i + 1 = m BY <1>1, <2>2
  <2>4. SubSeq(hay, i, j) = id /\ (i = 1 \/ hay[i - 1] = Blank) /\ (j = n \/ hay[j + 1] = Blank) BY <2>1
  <2> HIDE DEF j
  <2>5. ASSUME NEW k \in i..j PROVE hay[k] # Blank
    <3>1. k - i + 1 \in 1..m /\ i + (k - i + 1) - 1 = k BY <1>1, <2>3
    <3>2. SubSeq(hay, i, j)[k - i + 1] = hay[k] BY <1>4, <2>3, <3>1
    <3> QED BY <1>2, <2>4, <3>1, <3>2
  <2>6. i \in DOMAIN hay /\ j \in DOMAIN hay /\ i <= j BY <1>1, <2>3
  <2> DEFINE p == <<i, j>>
  <2>7. /\ p \in (DOMAIN hay) \X (DOMAIN hay) /\ p[1] <= p[2] /\ \A k \in p[1]..p[2] : hay[k] # Blank
        /\ p[1] = 1 \/ hay[p[1] - 1] = Blank
        /\ p[2] = Len(hay) \/ hay[p[2] + 1] = Blank
        /\ SubSeq(hay, p[1], p[2]) = id
    BY <2>4, <2>5, <2>6 DEF n
  <2> HIDE DEF p
  <2> QED BY <2>7 DEF WordsOf
<1>6. ASSUME id \in WordsOf(hay) PROVE ContainsIdAsWord(hay, id)
  <2>1. PICK p \in (DOMAIN hay) \X (DOMAIN hay) :
          /\ p[1] <= p[2]
          /\ p[1] = 1 \/ hay[p[1] - 1] = Blank
          /\ p[2] = n \/ hay[p[2] + 1] = Blank
          /\ SubSeq(hay, p[1], p[2]) = id
    BY <1>6 DEF WordsOf, n
  <2>2. PICK i \in 1..n, j \in 1..n : i = p[1] /\ j = p[2] BY <1>1
  <2>3. j \in i..n BY <2>1, <2>2
  <2>4. m = j - i + 1 BY <1>4, <2>1, <2>2, <2>3 DEF m
  <2>5. m >= 1 /\ i \in 1..(n - m + 1) /\ i + m - 1 = j BY <1>1, <2>3, <2>4
  <2>6. LET last == i + m - 1
        IN  /\ SubSeq(hay, i, last) = id
            /\ i = 1 \/ hay[i - 1] = Blank
            /\ last = n \/ hay[last + 1] = Blank
    BY <2>1, <2>2, <2>5
  <2> QED BY <1>3, <2>5, <2>6 DEF ContainsIdAsWord, IsSlugByte, n, m
<1>7. ContainsIdAsWord(hay, id) \in BOOLEAN BY DEF ContainsIdAsWord
<1> QED BY <1>5, <1>6, <1>7

-----------------------------------------------------------------------------
(* Questions about plans.                                                  *)

\* The files of a question about a plan are files as the verbs write them.
LEMMA PlacedPlan ==
  ASSUME Placed
  PROVE  /\ world.subject = "plan" => PlanWorld(world)
         /\ world.subject = "diff" =>
              PlanFiles(world) /\ (world.baseline.sha # "none" => Written(world.baseline.files["backlog-item"]))
<1>1. "backlog-item" \in Kinds BY DEF Kinds
<1> QED BY <1>1, FilesAssumption DEF Placed, PlanWorld, PlanFiles

\* What is asked of the plan verbs.
PlanVerbsRight == ReportsTellTheChange /\ InspectionFindsEveryItem

LEMMA PlansAnswered == Placed /\ PlanVerbsRight /\ [InspectionNext]_query_vars => PlanVerbsRight'
<1> SUFFICES ASSUME Placed, PlanVerbsRight, [InspectionNext]_query_vars PROVE PlanVerbsRight'
    OBVIOUS
<1>1. CASE UNCHANGED query_vars
  BY <1>1 DEF query_vars, PlanVerbsRight, ReportsTellTheChange, InspectionFindsEveryItem, Answered
<1>2. ASSUME query'.verb \notin PlanVerbs PROVE PlanVerbsRight'
  BY <1>2 DEF PlanVerbsRight, ReportsTellTheChange, InspectionFindsEveryItem, Answered, PlanVerbs
<1>3. ASSUME query'.verb \in {"show-item", "query-by-justification", "check-anchors"} PROVE PlanVerbsRight'
  BY <1>3 DEF PlanVerbsRight, ReportsTellTheChange, InspectionFindsEveryItem, Answered
<1>4. ASSUME NEW k \in Kinds \cup {Unset}, AskPlan([verb |-> "list-items", kind |-> k], ListItems(world, k))
      PROVE  PlanVerbsRight'
  <2>1. /\ world' = world /\ world.subject = "plan"
        /\ query'.verb = "list-items" /\ answer' = ListItems(world, k)
        BY <1>4 DEF AskPlan, Ask
  <2>2. ASSUME ListItems(world, Unset).code = "ok", answer'.code = "ok" PROVE FindsListed(world, answer'.value)
    BY <2>1, <2>2, PlacedPlan, ListedIsFound
  <2> QED BY <2>1, <2>2
         DEF PlanVerbsRight, ReportsTellTheChange, InspectionFindsEveryItem, Answered
<1>5. ASSUME NEW k \in Kinds \cup {Unset}, NEW s,
             AskPlan([verb |-> "query-by-status", kind |-> k, status |-> s], QueryByStatus(world, k, s))
      PROVE  PlanVerbsRight'
  <2>1. /\ world' = world /\ world.subject = "plan"
        /\ query'.verb = "query-by-status" /\ query'.kind = k /\ query'.status = s
        /\ answer' = QueryByStatus(world, k, s)
        BY <1>5 DEF AskPlan, Ask
  <2>2. ASSUME k = Unset, answer'.code = "ok" PROVE FindsByStatus(world, s, answer'.value)
    BY <2>1, <2>2, PlacedPlan, StatusIsFound DEF PlanWorld
  <2> QED BY <2>1, <2>2
         DEF PlanVerbsRight, ReportsTellTheChange, InspectionFindsEveryItem, Answered
<1>6. ASSUME NEW f, NEW n, AskPlan([verb |-> "backlog-list", filter |-> f, limit |-> n], BacklogList(world, f, n))
      PROVE  PlanVerbsRight'
  <2>1. /\ world' = world /\ world.subject = "plan"
        /\ query'.verb = "backlog-list" /\ query'.filter = f /\ answer' = BacklogList(world, f, n)
        BY <1>6 DEF AskPlan, Ask
  <2>2. ASSUME answer'.code = "ok"
        PROVE  ListsBacklog(world.files["backlog-item"].items, f, answer'.value)
    BY <2>1, <2>2, PlacedPlan, BacklogIsListed DEF PlanWorld
  <2> QED BY <2>1, <2>2
         DEF PlanVerbsRight, ReportsTellTheChange, InspectionFindsEveryItem, Answered
<1>7. ASSUME AskPlan([verb |-> "survey-counts"], SurveyCounts(world)) PROVE PlanVerbsRight'
  <2>1. /\ world' = world /\ world.subject = "plan"
        /\ query'.verb = "survey-counts" /\ answer' = SurveyCounts(world)
        BY <1>7 DEF AskPlan, Ask
  <2>2. ASSUME answer'.code = "ok" PROVE CountsEach(world, answer'.value)
    BY <2>1, <2>2, PlacedPlan, CountsAreRight
  <2> QED BY <2>1, <2>2
         DEF PlanVerbsRight, ReportsTellTheChange, InspectionFindsEveryItem, Answered
<1>8. ASSUME AskDiff([verb |-> "backlog-transitions"], BacklogTransitions(world)) PROVE PlanVerbsRight'
  <2>1. /\ world' = world /\ world.subject = "diff"
        /\ query'.verb = "backlog-transitions" /\ answer' = BacklogTransitions(world)
        BY <1>8 DEF AskDiff, Ask
  <2>2. PICK base, now : base = world.baseline.files["backlog-item"].items /\ now = world.files["backlog-item"].items
        OBVIOUS
  <2>3. ASSUME answer'.code = "ok"
        PROVE  /\ /\ world.files["backlog-item"].state = "ok" /\ world.baseline.files["backlog-item"].state = "ok"
                  /\ world.baseline.sha # "none" /\ world.baseline.git = "ok"
                  => TellsTheChange(base, now, answer'.value)
               /\ answer'.value.remark = "no-baseline-found" =>
                    {t[1] : t \in LinesOf(answer'.value, "added")} = IdsOf(now)
    BY <2>1, <2>2, <2>3, PlacedPlan, ReportIs
  <2> QED BY <2>1, <2>2, <2>3
         DEF PlanVerbsRight, ReportsTellTheChange, InspectionFindsEveryItem, Answered
<1>9. ASSUME NEW p, AskDiff([verb |-> "phase-summary", phase |-> p], PhaseSummary(world, p))
      PROVE  PlanVerbsRight'
  <2>1. /\ world' = world /\ world.subject = "diff"
        /\ query'.verb = "phase-summary" /\ query'.phase = p /\ answer' = PhaseSummary(world, p)
        BY <1>9 DEF AskDiff, Ask
  <2>2. ASSUME answer'.code = "ok", p = "triage", world.baseline.sha # "none",
               world.baseline.files["backlog-item"].state = "ok"
        PROVE  LabelsTheChange(world.baseline.files["backlog-item"].items, world.files["backlog-item"].items,
                               answer'.value)
    BY <2>1, <2>2, PlacedPlan, SummaryIs
  <2> QED BY <2>1, <2>2
         DEF PlanVerbsRight, ReportsTellTheChange, InspectionFindsEveryItem, Answered
<1>10. CASE PlanNext
  <2>1. \/ \E k \in Kinds \cup {Unset} : AskPlan([verb |-> "list-items", kind |-> k], ListItems(world, k))
        \/ \E k \in Kinds \cup {Unset} : \E s :
             AskPlan([verb |-> "query-by-status", kind |-> k, status |-> s], QueryByStatus(world, k, s))
        \/ \E f, n : AskPlan([verb |-> "backlog-list", filter |-> f, limit |-> n], BacklogList(world, f, n))
        \/ AskPlan([verb |-> "survey-counts"], SurveyCounts(world))
        \/ AskDiff([verb |-> "backlog-transitions"], BacklogTransitions(world))
        \/ \E p : AskDiff([verb |-> "phase-summary", phase |-> p], PhaseSummary(world, p))
        \/ query'.verb \in {"show-item", "query-by-justification", "check-anchors"}
    BY <1>10 DEF PlanNext, AskPlan, AskDiff, Ask
  <2> QED BY <1>3, <1>4, <1>5, <1>6, <1>7, <1>8, <1>9, <2>1
<1>11. CASE ListingNext BY <1>2, <1>11, ListingAsked DEF ListingVerbs, PlanVerbs
<1>12. CASE CommandNext BY <1>2, <1>12, CommandAsked DEF CommandVerbs, PlanVerbs
<1>13. CASE PromptNext BY <1>2, <1>13, PromptAsked DEF PromptVerbs, PlanVerbs
<1>14. CASE ConfigNext BY <1>2, <1>14, ConfigAsked DEF ConfigVerbs, PlanVerbs
<1>15. CASE RunnerNext BY <1>2, <1>15, RunnerAsked DEF RunnerVerbs, PlanVerbs
<1>16. CASE Elsewhere BY <1>2, <1>16, ElsewhereAsked DEF OwnVerbs
<1> QED BY <1>1, <1>10, <1>11, <1>12, <1>13, <1>14, <1>15, <1>16 DEF InspectionNext

\* The lists keep being what the files hold.
LEMMA ListsAnswered == Placed /\ ListsAreWhole /\ [InspectionNext]_query_vars => ListsAreWhole'
<1> SUFFICES ASSUME Placed, ListsAreWhole, [InspectionNext]_query_vars PROVE ListsAreWhole'
    OBVIOUS
<1>1. CASE UNCHANGED query_vars
  BY <1>1 DEF query_vars, ListsAreWhole, Answered
<1>2. ASSUME query'.verb \notin {"list", "lint", "mentions"} PROVE ListsAreWhole'
  BY <1>2 DEF ListsAreWhole, Answered
<1>3. ASSUME NEW k \in ListedKinds, NEW n \in Limits, NEW m,
             Ask("listing", [verb |-> "list", kind |-> k, limits |-> n], RunList(world, k, n, m))
      PROVE  ListsAreWhole'
  <2>1. /\ world' = world /\ world.subject = "listing"
        /\ query'.verb = "list" /\ query'.kind = k /\ query'.limits = n /\ answer' = RunList(world, k, n, m)
        BY <1>3 DEF Ask
  <2>2. Written(world.files[k]) BY <2>1, ListingsAssumption DEF Placed
  <2>3. n.limit = Unset \/ n.limit \in Nat
    <3>1. CASE n \in [limit : {Unset} \cup 0..3, all : {FALSE}]
      <4>1. n.limit \in {Unset} \cup 0..3 BY <3>1
      <4> QED BY <4>1
    <3>2. CASE n = [limit |-> Unset, all |-> TRUE] BY <3>2
    <3> QED BY <3>1, <3>2 DEF Limits
  <2>4. answer'.code = "ok" => ListIsWhole(world, k, n, answer'.value) BY <2>1, <2>2, <2>3, ListIs
  <2> QED BY <2>1, <2>4 DEF ListsAreWhole, Answered
<1>4. ASSUME NEW m, Ask("listing", [verb |-> "lint"], RunLint(world, m)) PROVE ListsAreWhole'
  <2>1. /\ world' = world /\ world.subject = "listing" /\ query'.verb = "lint" /\ answer' = RunLint(world, m)
        BY <1>4 DEF Ask
  <2> DEFINE file == world.files["backlog-item"]
  <2>2. Written(file) BY <2>1, ListingsAssumption DEF Placed, ListedKinds
  <2>3. ASSUME answer'.code = "ok"
        PROVE  LintFindsTheDrift(Read(world, "backlog-item").value, answer'.value)
    <3>1. Error("InvalidInput").code # "ok" /\ \A v : Ok(v).value = v BY DEF Error, Ok
    <3>2. /\ Read(world, "backlog-item").code = "ok"
          /\ answer'.value = LintDependencies(Read(world, "backlog-item").value)
      BY <2>1, <2>3, <3>1 DEF RunLint, Then
    <3>3. Read(world, "backlog-item").value = file.items BY <3>2, ReadIs
    <3> QED BY <2>2, <3>2, <3>3, LintIs
  <2> QED BY <2>1, <2>3 DEF ListsAreWhole, Answered
<1>5. CASE AskWord
  <2>1. /\ world' = world /\ world.subject = "words" /\ query'.verb = "mentions"
        /\ answer'.value = ContainsIdAsWord(world.hay, world.id)
        BY <1>5 DEF AskWord, Ask, Ok
  <2>2. /\ world.hay \in Seq(Range(world.hay)) /\ world.id \in Seq(Range(world.id)) /\ Blank \notin Range(world.id)
    BY <2>1, ListingsAssumption DEF Placed
  <2>3. answer'.value = (world.id \in WordsOf(world.hay)) BY <2>1, <2>2, MentionIs
  <2> QED BY <2>1, <2>3 DEF ListsAreWhole, Answered
<1>6. CASE ListingNext
  <2>1. CASE AskList BY <1>3, <2>1 DEF AskList
  <2>2. CASE AskLint BY <1>4, <2>2 DEF AskLint
  <2>3. CASE AskShow \/ AskTable BY <1>2, <2>3 DEF AskShow, AskTable, Ask
  <2> QED BY <1>5, <1>6, <2>1, <2>2, <2>3 DEF ListingNext
<1>7. CASE PlanNext BY <1>2, <1>7, PlanAsked DEF PlanVerbs
<1>8. CASE CommandNext BY <1>2, <1>8, CommandAsked DEF CommandVerbs
<1>9. CASE PromptNext BY <1>2, <1>9, PromptAsked DEF PromptVerbs
<1>10. CASE ConfigNext BY <1>2, <1>10, ConfigAsked DEF ConfigVerbs
<1>11. CASE RunnerNext BY <1>2, <1>11, RunnerAsked DEF RunnerVerbs
<1>12. CASE Elsewhere BY <1>2, <1>12, ElsewhereAsked DEF OwnVerbs, ListingVerbs
<1> QED BY <1>1, <1>6, <1>7, <1>8, <1>9, <1>10, <1>11, <1>12 DEF InspectionNext

LEMMA NonePlanned == QueryInit => Placed /\ PlansAnswerRight
BY DEF QueryInit, Placed, PlansAnswerRight, ReportsTellTheChange, InspectionFindsEveryItem, ListsAreWhole,
       Answered, Waiting

\* Whatever a plan's files hold, what the plan verbs list is found by its id
\* and its status, the counts are those of the backlog, the reports determine
\* what changed since the baseline, and lists, lint and mentions say what is in
\* the files (plan_inspect.rs, backlog_transitions.rs, phase_summary.rs,
\* list_limits.rs, lint_dependencies.rs).
THEOREM PlansAreAnsweredRight == InspectionSpec => []PlansAnswerRight
<1>1. QueryInit => Placed /\ PlansAnswerRight BY NonePlanned
<1>2. Placed /\ PlansAnswerRight /\ [InspectionNext]_query_vars => (Placed /\ PlansAnswerRight)'
  BY PlacedKept, PlansAnswered, ListsAnswered DEF PlansAnswerRight, PlanVerbsRight
<1> QED BY <1>1, <1>2, PTL DEF InspectionSpec

-----------------------------------------------------------------------------
(* What the runner reports of the work tree and of the time.               *)

\* What differs from the baseline is in the diff, or untracked.
LEMMA ChangesAreShown ==
  ASSUME NEW w, w.git = "ok", w.baseline = "ok"
  PROVE  ShowsEveryChange(w, WorkTreeSnapshot(w).value)
<1> DEFINE told == WorkTreeSnapshot(w).value
           named == {l.name.path : l \in PorcelainLines(w)}
<1>1. told.diff = ChangedPaths(w) /\ named \subseteq told.status
  BY DEF WorkTreeSnapshot, PathsChangedSinceBaseline, WorkingTreeStatus, Ok
<1>2. SUFFICES ASSUME NEW p \in DOMAIN w.tree, w.tree[p].work # w.tree[p].base
               PROVE  p \in told.diff \cup told.status
  <2> HIDE DEF told
  <2> QED BY DEF ShowsEveryChange, told
<1> HIDE DEF told, named
<1>3. CASE Compared(w, p) # w.tree[p].base BY <1>1, <1>3 DEF ChangedPaths
<1>4. CASE Compared(w, p) = w.tree[p].base
  <2>1. IsUntracked(w, p) BY <1>2, <1>4 DEF Compared, IsUntracked
  <2>2. StatusLine("??", p, NameOf(w, p)) \in PorcelainLines(w) BY <2>1 DEF PorcelainLines
  <2>3. StatusLine("??", p, NameOf(w, p)).name.path = p BY DEF StatusLine, NameOf
  <2>4. p \in named BY <2>2, <2>3 DEF named
  <2> QED BY <1>1, <2>4
<1> QED BY <1>3, <1>4

\* A path has a line of its own, or that of the rename it is the new name of;
\* and the line passes when the path is no old name and not quoted.
LEMMA UncommittedIsWarned ==
  ASSUME NEW w, w.git = "ok", \A p \in DOMAIN w.tree : w.tree[p].blank \in BOOLEAN
  PROVE  WarnsOfTheUncommitted(w, WarnIfProjectTreeDirty(w).value)
<1> DEFINE lines == WarnIfProjectTreeDirty(w).value
           touched == PathsChangedSinceBaseline(w)
<1>1. lines = {l \in PorcelainLines(w) : touched.code = "ok" => l.xy = "??" \/ l.name \in touched.value}
  BY DEF WarnIfProjectTreeDirty, WorkingTreeStatus, ParsePorcelainPath, Ok
<1>2. touched.code = "ok" =>
        touched.value = {[path |-> q, quoted |-> FALSE] :
                           q \in ChangedPaths(w) \ {r[1] : r \in RenamesSinceBaseline(w)}}
  BY DEF PathsChangedSinceBaseline, Ok, Error
<1> HIDE DEF lines, touched
<1>3. SUFFICES ASSUME NEW p \in DOMAIN w.tree,
                      w.tree[p].head # w.tree[p].index \/ w.tree[p].index # w.tree[p].work,
                      w.tree[p].work # w.tree[p].base, ~w.tree[p].blank,
                      \A r \in StagedRenames(w) \cup RenamesSinceBaseline(w) : r[1] # p
               PROVE  \E l \in lines : l.name.path = p
  BY DEF WarnsOfTheUncommitted, lines
<1>4. NameOf(w, p) = [path |-> p, quoted |-> FALSE] BY <1>3 DEF NameOf
<1>5. \A xy, old : LET l == StatusLine(xy, old, NameOf(w, p)) IN l.xy = xy /\ l.name = NameOf(w, p) /\ l.name.path = p
  BY DEF StatusLine, NameOf
<1>6. CASE IsUntracked(w, p)
  <2>1. StatusLine("??", p, NameOf(w, p)) \in PorcelainLines(w) BY <1>6 DEF PorcelainLines
  <2> QED BY <1>1, <1>5, <2>1
<1>7. CASE ~IsUntracked(w, p)
  <2>1. IsModified(w, p) BY <1>3, <1>7 DEF IsModified, IsUntracked
  <2>2. p \in ChangedPaths(w) BY <1>3, <1>7 DEF IsUntracked, ChangedPaths, Compared
  <2>3. touched.code = "ok" => NameOf(w, p) \in touched.value BY <1>2, <1>3, <1>4, <2>2
  <2>4. \E xy, old : StatusLine(xy, old, NameOf(w, p)) \in PorcelainLines(w)
    <3>1. CASE p \in EndsOf(StagedRenames(w))
      <4>1. PICK r \in StagedRenames(w) : r[2] = p BY <1>3, <3>1 DEF EndsOf
      <4>2. StatusLine("R", r[1], NameOf(w, p)) \in PorcelainLines(w) BY <4>1 DEF PorcelainLines
      <4> QED BY <4>2
    <3>2. CASE p \notin EndsOf(StagedRenames(w))
      <4>1. StatusLine("M", p, NameOf(w, p)) \in PorcelainLines(w) BY <2>1, <3>2 DEF PorcelainLines
      <4> QED BY <4>1
    <3> QED BY <3>1, <3>2
  <2>5. PICK xy, old : StatusLine(xy, old, NameOf(w, p)) \in PorcelainLines(w) BY <2>4
  <2> QED BY <1>1, <1>5, <2>3, <2>5
<1> QED BY <1>6, <1>7

\* Passes are numbered.
LEMMA PassesAre ==
  ASSUME NEW n \in Nat
  PROVE  DOMAIN Passes(n) = 1..n /\ \A i \in 1..n : Passes(n)[i] = i
BY DEF Passes

\* The chain of YearLoop.
Years(h, days) ==
  /\ h \in [0..(days \div 365) -> [year : Nat, days : Nat]]
  /\ h[0] = [year |-> 1970, days |-> days] /\ h[(days \div 365)] = YearLoop(days)
  /\ \A k \in 1..(days \div 365) : h[k] = NextYear(h[k - 1])

\* Year after year.
LEMMA YearsFold ==
  ASSUME NEW days \in Nat
  PROVE  \E h : Years(h, days)
<1> DEFINE n == (days \div 365)
           V == [year : Nat, days : Nat]
           base == [year |-> 1970, days |-> days]
           step(v, k) == NextYear(v)
           G == [p \in V \X (1..n) |-> step(p[1], p[2])]
           Iter(iter) == iter = [x \in SUBSET DOMAIN Passes(n) |->
                                   IF x = {} THEN base ELSE NextYear(iter[x \ {Max(x)}])]
           F == CHOOSE iter : Iter(iter)
<1>1. n \in Nat OBVIOUS
<1>0. DOMAIN Passes(n) = 1..n /\ \A i \in 1..n : Passes(n)[i] = i
  <2> HIDE DEF n
  <2> QED BY <1>1, PassesAre
<1>2. YearLoop(days) = F[DOMAIN Passes(n)] BY DEF YearLoop, FoldLeft, MapThenFoldSet
<1>3. \A v \in V, k \in 1..n : step(v, k) \in V
  BY DEF NextYear, YearDays
<1>b. base \in V OBVIOUS
<1> HIDE DEF n, V, base
<1>4. G \in [V \X (1..n) -> V] /\ \A v \in V, k \in 1..n : G[<<v, k>>] = step(v, k)
  <2> HIDE DEF step
  <2> QED BY <1>3
<1> HIDE DEF G
<1>5. \E iter : Iter(iter)
  <2>2. PICK iter \in [SUBSET (1..n) -> V] : Folds(iter, base, n, G)
    BY <1>1, <1>4, <1>b, FoldExists
  <2>3. ASSUME NEW x \in SUBSET (1..n), x # {}
        PROVE  G[<<iter[x \ {Max(x)}], Max(x)>>] = NextYear(iter[x \ {Max(x)}])
    <3>1. Max(x) \in 1..n BY <1>1, <2>3, MaxWithin
    <3>2. iter[x \ {Max(x)}] \in V BY <2>2
    <3>3. Passes(n)[Max(x)] = Max(x) BY <1>0, <3>1
    <3> QED BY <1>4, <3>1, <3>2, <3>3
  <2>4. Iter(iter) BY <1>0, <2>2, <2>3 DEF Folds
  <2> QED BY <2>4
<1>6. Iter(F) BY <1>5, Zenon
<1> HIDE DEF F
<1>7. F[{}] = base BY <1>6
<1>8. \A x \in SUBSET (1..n) :
        x # {} /\ F[x \ {Max(x)}] \in V => F[x] = G[<<F[x \ {Max(x)}], Max(x)>>]
  <2> SUFFICES ASSUME NEW x \in SUBSET (1..n), x # {}, F[x \ {Max(x)}] \in V
               PROVE  F[x] = G[<<F[x \ {Max(x)}], Max(x)>>]
      OBVIOUS
  <2>1. Max(x) \in 1..n BY <1>1, MaxWithin
  <2>2. Passes(n)[Max(x)] = Max(x) BY <1>0, <2>1
  <2>3. F[x] = step(F[x \ {Max(x)}], Max(x)) BY <1>0, <1>6, <2>2
  <2> HIDE DEF step
  <2> QED BY <1>4, <2>1, <2>3
<1> DEFINE h == ChainOf(F, n)
<1>10. h[n] = F[1..n] BY <1>1 DEF ChainOf
<1>11. Chain(h, base, V, n, G)
  <2>2. Follows(F, base, V, n, G) BY <1>7, <1>8 DEF Follows
  <2> QED BY <1>1, <1>4, <2>2, <1>b, FoldChain
<1> HIDE DEF h
<1>12. h \in [0..n -> V] /\ h[0] = base /\ \A k \in 1..n : h[k] = step(h[k - 1], k)
  <2> HIDE DEF step
  <2>1. h \in [0..n -> V] /\ h[0] = base BY <1>11 DEF Chain
  <2> SUFFICES ASSUME NEW k \in 1..n PROVE h[k] = step(h[k - 1], k)
      BY <2>1
  <2>2. k - 1 \in 0..n BY <1>1
  <2>3. h[k - 1] \in V BY <2>1, <2>2
  <2> QED BY <1>4, <1>11, <2>3 DEF Chain
<1>13. h[n] = YearLoop(days) BY <1>0, <1>2, <1>10
<1>14. Years(h, days) BY <1>12, <1>13 DEF Years, n, V, base
<1> QED BY <1>14

\* The chain of MonthLoop.
Months(h, lens, days) ==
  /\ h \in [0..12 -> [month : Nat, days : Nat]]
  /\ h[0] = [month |-> 0, days |-> days] /\ h[12] = MonthLoop(lens, days)
  /\ \A k \in 1..12 : h[k] = NextMonth(lens, h[k - 1], k)

\* Month after month.
LEMMA MonthsFold ==
  ASSUME NEW days \in Nat, NEW lens \in [1..12 -> Nat]
  PROVE  \E h : Months(h, lens, days)
<1> DEFINE n == 12
           V == [month : Nat, days : Nat]
           base == [month |-> 0, days |-> days]
           step(v, k) == NextMonth(lens, v, k)
           G == [p \in V \X (1..n) |-> step(p[1], p[2])]
           Iter(iter) == iter = [x \in SUBSET DOMAIN Passes(n) |->
                                   IF x = {} THEN base ELSE NextMonth(lens, iter[x \ {Max(x)}], Passes(n)[Max(x)])]
           F == CHOOSE iter : Iter(iter)
<1>1. n \in Nat OBVIOUS
<1>0. DOMAIN Passes(n) = 1..n /\ \A i \in 1..n : Passes(n)[i] = i
  <2> HIDE DEF n
  <2> QED BY <1>1, PassesAre
<1>2. MonthLoop(lens, days) = F[DOMAIN Passes(n)] BY DEF MonthLoop, FoldLeft, MapThenFoldSet
<1>3. \A v \in V, k \in 1..n : step(v, k) \in V
  BY DEF NextMonth
<1>b. base \in V OBVIOUS
<1> HIDE DEF n, V, base
<1>4. G \in [V \X (1..n) -> V] /\ \A v \in V, k \in 1..n : G[<<v, k>>] = step(v, k)
  <2> HIDE DEF step
  <2> QED BY <1>3
<1> HIDE DEF G
<1>5. \E iter : Iter(iter)
  <2>2. PICK iter \in [SUBSET (1..n) -> V] : Folds(iter, base, n, G)
    BY <1>1, <1>4, <1>b, FoldExists
  <2>3. ASSUME NEW x \in SUBSET (1..n), x # {}
        PROVE  G[<<iter[x \ {Max(x)}], Max(x)>>] = NextMonth(lens, iter[x \ {Max(x)}], Passes(n)[Max(x)])
    <3>1. Max(x) \in 1..n BY <1>1, <2>3, MaxWithin
    <3>2. iter[x \ {Max(x)}] \in V BY <2>2
    <3>3. Passes(n)[Max(x)] = Max(x) BY <1>0, <3>1
    <3> QED BY <1>4, <3>1, <3>2, <3>3
  <2>4. Iter(iter) BY <1>0, <2>2, <2>3 DEF Folds
  <2> QED BY <2>4
<1>6. Iter(F) BY <1>5, Zenon
<1> HIDE DEF F
<1>7. F[{}] = base BY <1>6
<1>8. \A x \in SUBSET (1..n) :
        x # {} /\ F[x \ {Max(x)}] \in V => F[x] = G[<<F[x \ {Max(x)}], Max(x)>>]
  <2> SUFFICES ASSUME NEW x \in SUBSET (1..n), x # {}, F[x \ {Max(x)}] \in V
               PROVE  F[x] = G[<<F[x \ {Max(x)}], Max(x)>>]
      OBVIOUS
  <2>1. Max(x) \in 1..n BY <1>1, MaxWithin
  <2>2. Passes(n)[Max(x)] = Max(x) BY <1>0, <2>1
  <2>3. F[x] = step(F[x \ {Max(x)}], Max(x)) BY <1>0, <1>6, <2>2
  <2> HIDE DEF step
  <2> QED BY <1>4, <2>1, <2>3
<1> DEFINE h == ChainOf(F, n)
<1>10. h[n] = F[1..n] BY <1>1 DEF ChainOf
<1>11. Chain(h, base, V, n, G)
  <2>2. Follows(F, base, V, n, G) BY <1>7, <1>8 DEF Follows
  <2> QED BY <1>1, <1>4, <2>2, <1>b, FoldChain
<1> HIDE DEF h
<1>12. h \in [0..n -> V] /\ h[0] = base /\ \A k \in 1..n : h[k] = step(h[k - 1], k)
  <2> HIDE DEF step
  <2>1. h \in [0..n -> V] /\ h[0] = base BY <1>11 DEF Chain
  <2> SUFFICES ASSUME NEW k \in 1..n PROVE h[k] = step(h[k - 1], k)
      BY <2>1
  <2>2. k - 1 \in 0..n BY <1>1
  <2>3. h[k - 1] \in V BY <2>1, <2>2
  <2> QED BY <1>4, <1>11, <2>3 DEF Chain
<1>13. h[n] = MonthLoop(lens, days) BY <1>0, <1>2, <1>10
<1>14. Months(h, lens, days) BY <1>12, <1>13 DEF Months, n, V, base
<1> QED BY <1>14

\* The days before the year, counted from a year 0, and those before a month.
Before(year) == 365 * year + (year - 1) \div 4 - (year - 1) \div 100 + (year - 1) \div 400
BeforeMonth(year) ==
  LET leap == IF IsLeap(year) THEN 1 ELSE 0
  IN  <<0, 31, 59 + leap, 90 + leap, 120 + leap, 151 + leap, 181 + leap, 212 + leap, 243 + leap,
        273 + leap, 304 + leap, 334 + leap, 365 + leap>>

\* What one more year adds to the multiples of a number.
LEMMA OneMore ==
  ASSUME NEW y \in Nat, y >= 1
  PROVE  /\ y \div 4 = (y - 1) \div 4 + IF y % 4 = 0 THEN 1 ELSE 0
         /\ y \div 100 = (y - 1) \div 100 + IF y % 100 = 0 THEN 1 ELSE 0
         /\ y \div 400 = (y - 1) \div 400 + IF y % 400 = 0 THEN 1 ELSE 0
         /\ y % 400 = 0 => y % 100 = 0
         /\ y % 100 = 0 => y % 4 = 0
<1>1. y \div 4 = (y - 1) \div 4 + IF y % 4 = 0 THEN 1 ELSE 0 OBVIOUS
<1>2. y \div 100 = (y - 1) \div 100 + IF y % 100 = 0 THEN 1 ELSE 0 OBVIOUS
<1>3. y \div 400 = (y - 1) \div 400 + IF y % 400 = 0 THEN 1 ELSE 0 OBVIOUS
<1>4. y % 400 = 0 => y % 100 = 0 OBVIOUS
<1>5. y % 100 = 0 => y % 4 = 0 OBVIOUS
<1> QED BY <1>1, <1>2, <1>3, <1>4, <1>5

\* The length of a year is what it adds.
LEMMA YearAdds ==
  ASSUME NEW y \in Nat, y >= 1
  PROVE  Before(y + 1) = Before(y) + YearDays(y)
<1>1. (y + 1) - 1 = y OBVIOUS
<1>2. Before(y + 1) = 365 * y + 365 + y \div 4 - y \div 100 + y \div 400 BY <1>1 DEF Before
<1>3. Before(y) = 365 * y + (y - 1) \div 4 - (y - 1) \div 100 + (y - 1) \div 400 BY DEF Before
<1>4. YearDays(y) = 365 + (IF y % 4 = 0 THEN 1 ELSE 0) - (IF y % 100 = 0 THEN 1 ELSE 0) + IF y % 400 = 0 THEN 1 ELSE 0
  BY OneMore DEF YearDays, IsLeap
<1> QED BY <1>2, <1>3, <1>4, OneMore

\* The loop over the years ends in the year of the day.
LEMMA YearIs ==
  ASSUME NEW days \in Nat
  PROVE  LET y == YearLoop(days) IN
         /\ y.year \in Nat /\ y.year >= 1970 /\ y.days \in 0..(YearDays(y.year) - 1)
         /\ Before(y.year) + y.days = Before(1970) + days
<1>1. PICK n \in Nat : n = days \div 365 OBVIOUS
<1>2. PICK h : Years(h, days) BY YearsFold
<1>3. /\ h \in [0..n -> [year : Nat, days : Nat]]
      /\ h[0] = [year |-> 1970, days |-> days] /\ h[n] = YearLoop(days)
      /\ \A k \in 1..n : h[k] = NextYear(h[k - 1])
  BY <1>1, <1>2 DEF Years
<1>4. \A k \in 0..n : h[k].year \in Nat /\ h[k].days \in Nat BY <1>3
<1> DEFINE Reached(k) ==
             /\ h[k].year >= 1970 /\ Before(h[k].year) + h[k].days = Before(1970) + days
             /\ h[k].days < YearDays(h[k].year) \/ h[k].days <= days - 365 * k
           T == {k \in Nat : k <= n => Reached(k)}
<1>5. 0 \in T
  <2>1. h[0].year = 1970 /\ h[0].days = days BY <1>3
  <2> QED BY <2>1 DEF Before
<1>6. ASSUME NEW k \in T PROVE k + 1 \in T
  <2> SUFFICES ASSUME k + 1 <= n PROVE Reached(k + 1)
      OBVIOUS
  <2>1. k \in Nat /\ k \in 0..n /\ k + 1 \in 1..n /\ (k + 1) - 1 = k /\ Reached(k) OBVIOUS
  <2>2. PICK y \in Nat, d \in Nat : y = h[k].year /\ d = h[k].days BY <1>4, <2>1
  <2>3. h[k + 1] = NextYear(h[k]) BY <1>3, <2>1
  <2>4. YearDays(y) \in {365, 366} BY DEF YearDays
  <2>5. CASE d < YearDays(y)
    <3>1. h[k + 1] = h[k] BY <2>2, <2>3, <2>5 DEF NextYear
    <3> QED BY <2>1, <2>2, <2>5, <3>1
  <2>6. CASE d >= YearDays(y)
    <3>1. h[k + 1] = [year |-> y + 1, days |-> d - YearDays(y)] BY <2>2, <2>3, <2>4, <2>6 DEF NextYear
    <3>2. h[k + 1].year = y + 1 /\ h[k + 1].days = d - YearDays(y) BY <3>1
    <3>3. Before(y + 1) = Before(y) + YearDays(y) BY <2>1, <2>2, YearAdds
    <3>4. /\ Before(y) \in Int /\ Before(1970) \in Int /\ y >= 1970
          /\ Before(y) + d = Before(1970) + days
      BY <2>1, <2>2 DEF Before
    <3>5. Before(y + 1) + (d - YearDays(y)) = Before(1970) + days BY <2>4, <3>3, <3>4
    <3>6. d <= days - 365 * k BY <2>1, <2>2, <2>4, <2>6
    <3>7. d - YearDays(y) <= days - 365 * (k + 1) BY <2>1, <2>4, <3>6
    <3> QED BY <2>2, <3>2, <3>4, <3>5, <3>7
  <2> QED BY <2>2, <2>4, <2>5, <2>6
<1>7. T = Nat
  <2>1. T \in SUBSET Nat OBVIOUS
  <2> HIDE DEF T
  <2> QED BY <1>5, <1>6, <2>1, EveryNumber
<1>8. Reached(n) /\ n \in 0..n BY <1>7
<1>9. PICK y \in Nat, d \in Nat : y = h[n].year /\ d = h[n].days BY <1>4, <1>8
<1>10. d < YearDays(y)
  <2>1. YearDays(y) \in {365, 366} BY DEF YearDays
  <2>2. days - 365 * n < 365 BY <1>1
  <2> QED BY <1>8, <1>9, <2>1, <2>2
<1> QED BY <1>3, <1>8, <1>9, <1>10 DEF YearDays

\* The loop over the months ends in the month of the day.
LEMMA MonthIs ==
  ASSUME NEW year \in Nat, NEW days \in 0..(YearDays(year) - 1)
  PROVE  LET m == MonthLoop(MonthLens(year), days) IN
         /\ m.month \in 0..11 /\ m.days \in 0..(MonthLens(year)[m.month + 1] - 1)
         /\ BeforeMonth(year)[m.month + 1] + m.days = days
<1> DEFINE lens == MonthLens(year)
           sum == BeforeMonth(year)
<1>1. lens \in [1..12 -> Nat] BY DEF MonthLens
<1>2. /\ sum \in [1..13 -> Nat] /\ sum[1] = 0 /\ sum[13] = YearDays(year)
      /\ \A m \in 1..12 : sum[m + 1] = sum[m] + lens[m]
  <2>1. sum \in [1..13 -> Nat] /\ sum[1] = 0 /\ sum[13] = YearDays(year) BY DEF BeforeMonth, YearDays
  <2>2. \A m \in 1..12 : \/ m = 1 \/ m = 2 \/ m = 3 \/ m = 4 \/ m = 5 \/ m = 6
                         \/ m = 7 \/ m = 8 \/ m = 9 \/ m = 10 \/ m = 11 \/ m = 12
    OBVIOUS
  <2>3. ASSUME NEW m \in 1..12 PROVE sum[m + 1] = sum[m] + lens[m]
    BY <2>2 DEF BeforeMonth, MonthLens
  <2> QED BY <2>1, <2>3
<1>3. days \in Nat /\ days < sum[13] BY <1>2 DEF YearDays
<1> HIDE DEF lens, sum
<1>4. PICK h : Months(h, lens, days) BY <1>1, <1>3, MonthsFold
<1>5. /\ h \in [0..12 -> [month : Nat, days : Nat]]
      /\ h[0] = [month |-> 0, days |-> days] /\ h[12] = MonthLoop(lens, days)
      /\ \A k \in 1..12 : h[k] = NextMonth(lens, h[k - 1], k)
  BY <1>4 DEF Months
<1>6. \A k \in 0..12 : h[k].month \in Nat /\ h[k].days \in Nat BY <1>5
<1> DEFINE Reached(k) ==
             /\ h[k].month <= k /\ sum[h[k].month + 1] + h[k].days = days
             /\ h[k].month < k => h[k].days < lens[h[k].month + 1]
           T == {k \in Nat : k <= 12 => Reached(k)}
<1>7. 0 \in T
  <2>1. h[0].month = 0 /\ h[0].days = days BY <1>5
  <2> QED BY <1>2, <1>3, <2>1
<1>8. ASSUME NEW k \in T PROVE k + 1 \in T
  <2> SUFFICES ASSUME k + 1 <= 12 PROVE Reached(k + 1)
      OBVIOUS
  <2>1. k \in Nat /\ k \in 0..12 /\ k + 1 \in 1..12 /\ (k + 1) - 1 = k /\ Reached(k) OBVIOUS
  <2>2. PICK m \in Nat, d \in Nat : m = h[k].month /\ d = h[k].days BY <1>6, <2>1
  <2>3. h[k + 1] = NextMonth(lens, h[k], k + 1) BY <1>5, <2>1
  <2>4. m <= k /\ sum[m + 1] + d = days /\ (m < k => d < lens[m + 1]) BY <2>1, <2>2
  <2>5. CASE m = k /\ d >= lens[k + 1]
    <3>1. h[k + 1] = [month |-> k + 1, days |-> d - lens[k + 1]] BY <2>1, <2>2, <2>3, <2>5 DEF NextMonth
    <3>2. h[k + 1].month = k + 1 /\ h[k + 1].days = d - lens[k + 1] BY <3>1
    <3>3. sum[(k + 1) + 1] = sum[k + 1] + lens[k + 1] BY <1>2, <2>1
    <3>4. sum[k + 1] \in Nat /\ lens[k + 1] \in Nat BY <1>1, <1>2, <2>1
    <3>5. sum[(k + 1) + 1] + (d - lens[k + 1]) = days BY <2>4, <2>5, <3>3, <3>4
    <3> QED BY <2>1, <3>2, <3>5
  <2>6. CASE ~(m = k /\ d >= lens[k + 1])
    <3>1. h[k + 1] = h[k] BY <2>1, <2>2, <2>3, <2>6 DEF NextMonth
    <3>2. lens[k + 1] \in Nat BY <1>1, <2>1
    <3> QED BY <2>1, <2>2, <2>4, <2>6, <3>1, <3>2
  <2> QED BY <2>5, <2>6
<1>9. T = Nat
  <2>1. T \in SUBSET Nat OBVIOUS
  <2> HIDE DEF T
  <2> QED BY <1>7, <1>8, <2>1, EveryNumber
<1>10. Reached(12) BY <1>9
<1>11. PICK m \in Nat, d \in Nat : m = h[12].month /\ d = h[12].days BY <1>6
<1>12. m # 12 BY <1>2, <1>3, <1>10, <1>11
<1>13. m \in 0..11 /\ d < lens[m + 1] /\ sum[m + 1] + d = days BY <1>10, <1>11, <1>12
<1>14. lens[m + 1] \in Nat BY <1>1, <1>13
<1> QED BY <1>5, <1>11, <1>13, <1>14 DEF lens, sum

\* The day of a year and a month is the day of the calendar.
LEMMA DayIs ==
  ASSUME NEW year \in Nat, year >= 1970, NEW month \in 1..12, NEW rest \in Nat
  PROVE  DayNumber(year, month, rest + 1) = Before(year) - Before(1970) + BeforeMonth(year)[month] + rest
<1> DEFINE leap == IF IsLeap(year) THEN 1 ELSE 0
           leaps == year \div 4 - year \div 100 + year \div 400
           before == (year - 1) \div 4 - (year - 1) \div 100 + (year - 1) \div 400
           of_year == (153 * ((month + 9) % 12) + 2) \div 5
<1>1. leaps = before + leap BY OneMore, SMT DEF IsLeap
<1>2. before \in Int /\ leaps \in Int /\ leap \in {0, 1} BY SMT
<1>3. Before(year) = 365 * year + before BY SMT DEF Before
<1>4. SinceMarch(1970, 1, 1) = Before(1970) - 59 BY SMT DEF SinceMarch, Before
<1>5. month <= 2 => SinceMarch(year, month, rest + 1) = 365 * year - 365 + before + of_year + rest
  BY SMT DEF SinceMarch
<1>6. month > 2 => SinceMarch(year, month, rest + 1) = 365 * year + leaps + of_year + rest
  BY SMT DEF SinceMarch
<1> HIDE DEF leaps, before
<1>7. \/ month = 1 \/ month = 2 \/ month = 3 \/ month = 4 \/ month = 5 \/ month = 6
      \/ month = 7 \/ month = 8 \/ month = 9 \/ month = 10 \/ month = 11 \/ month = 12
  OBVIOUS
<1>8. /\ month <= 2 => of_year = 306 + BeforeMonth(year)[month]
      /\ month > 2 => of_year + leap = BeforeMonth(year)[month] - 59
  BY <1>7, SMT DEF BeforeMonth
<1>9. BeforeMonth(year)[month] \in Nat BY <1>7, SMT DEF BeforeMonth
<1>10. of_year \in Int /\ 365 * year \in Int /\ Before(1970) \in Int /\ Before(year) \in Int
  BY <1>2, <1>3, SMT DEF Before
<1> HIDE DEF of_year, leap
<1> DEFINE whole == 365 * year
<1> HIDE DEF whole
<1>11. SinceMarch(year, month, rest + 1) = Before(year) + BeforeMonth(year)[month] + rest - 59
  <2>1. CASE month <= 2
    <3>1. of_year = 306 + BeforeMonth(year)[month] BY <1>8, <2>1
    <3> QED BY <1>2, <1>3, <1>5, <1>9, <1>10, <2>1, <3>1, SMT DEF whole
  <2>2. CASE month > 2
    <3>1. of_year + leap = BeforeMonth(year)[month] - 59 BY <1>8, <2>2, SMT
    <3> QED BY <1>1, <1>2, <1>3, <1>6, <1>9, <1>10, <2>2, <3>1, SMT DEF whole
  <2> QED BY <2>1, <2>2
<1> QED BY <1>4, <1>9, <1>10, <1>11, SMT DEF DayNumber

\* The seconds of a day make its time.
LEMMA TimeIs ==
  ASSUME NEW secs \in Nat, secs < 24 * 3600, NEW t,
         t.hours = (secs \div 3600) % 24, t.minutes = (secs \div 60) % 60, t.seconds = secs % 60
  PROVE  IsTime(t, secs)
<1>1. PICK m \in Nat : m = secs \div 60 OBVIOUS
<1>2. secs = 60 * m + (secs % 60) /\ secs % 60 \in 0..59 /\ m < 1440 BY <1>1, SMT
<1>3. secs \div 3600 = m \div 60 BY <1>1, <1>2, SMT
<1>4. m = 60 * (m \div 60) + (m % 60) /\ m % 60 \in 0..59 /\ m \div 60 \in 0..23 BY <1>2, SMT
<1>5. (m \div 60) % 24 = m \div 60 BY <1>4, SMT
<1>6. t.hours = m \div 60 /\ t.minutes = m % 60 BY <1>1, <1>3, <1>5
<1>7. 3600 * t.hours + 60 * t.minutes + t.seconds = secs BY <1>2, <1>4, <1>6, SMT
<1>8. t.hours < 24 /\ t.minutes < 60 /\ t.seconds < 60 BY <1>2, <1>4, <1>6, SMT
<1> QED BY <1>7, <1>8 DEF IsTime

\* What is made of the days and the seconds is their date and time.
LEMMA StampIs ==
  ASSUME NEW days \in Nat, NEW secs \in Nat, secs < 24 * 3600
  PROVE  IsDate(FormatUnixUtc(days, secs), days) /\ IsTime(FormatUnixUtc(days, secs), secs)
<1> DEFINE t == FormatUnixUtc(days, secs)
           y == YearLoop(days)
           m == MonthLoop(MonthLens(y.year), y.days)
<1>1. /\ t.year = y.year /\ t.month = m.month + 1 /\ t.day = m.days + 1
      /\ t.hours = (secs \div 3600) % 24 /\ t.minutes = (secs \div 60) % 60 /\ t.seconds = secs % 60
  BY DEF FormatUnixUtc
<1>2. /\ y.year \in Nat /\ y.year >= 1970 /\ y.days \in 0..(YearDays(y.year) - 1)
      /\ Before(y.year) + y.days = Before(1970) + days
  BY YearIs
<1> HIDE DEF y
<1>3. /\ m.month \in 0..11 /\ m.days \in 0..(MonthLens(y.year)[m.month + 1] - 1)
      /\ BeforeMonth(y.year)[m.month + 1] + m.days = y.days
  BY <1>2, MonthIs
<1> HIDE DEF t, m
<1>4. t.month \in 1..12 /\ m.days \in Nat BY <1>1, <1>3
<1>5. DayNumber(t.year, t.month, m.days + 1) = Before(y.year) - Before(1970) + BeforeMonth(y.year)[t.month] + m.days
  BY <1>1, <1>2, <1>4, DayIs
<1>6. /\ Before(y.year) \in Int /\ Before(1970) \in Int BY <1>2 DEF Before
<1>7. BeforeMonth(y.year)[t.month] \in Nat BY <1>4 DEF BeforeMonth
<1>8. DayNumber(t.year, t.month, t.day) = days BY <1>1, <1>2, <1>3, <1>4, <1>5, <1>6, <1>7
<1>9. MonthLens(y.year)[t.month] \in Nat BY <1>4 DEF MonthLens
<1>10. t.day \in 1..MonthLens(t.year)[t.month] BY <1>1, <1>3, <1>9
<1>11. IsTime(t, secs) BY <1>1, TimeIs
<1> QED BY <1>4, <1>8, <1>10, <1>11 DEF IsDate, t

-----------------------------------------------------------------------------
(* Reference texts.                                                        *)

\* A description is a heading of the text.
LEMMA DescriptionIsIn ==
  ASSUME NEW D, NEW text \in Seq(D), ExtractDescription(text) # Unset
  PROVE  \E l \in Range(text) : l.h1 /\ l.text = ExtractDescription(text)
<1> DEFINE lines == Keep(text, {l \in Range(text) : ~l.blank})
<1>1. lines # <<>> /\ Head(lines).h1 /\ Head(lines).text = ExtractDescription(text) BY DEF ExtractDescription
<1>2. lines \in Seq(D) /\ Range(lines) = Range(text) \cap {l \in Range(text) : ~l.blank} BY KeepHas
<1> HIDE DEF lines
<1>3. Head(lines) = lines[1] /\ 1 \in DOMAIN lines BY <1>1, <1>2
<1>4. Head(lines) \in Range(lines) BY <1>3 DEF Range
<1> QED BY <1>1, <1>2, <1>4

\* What is listed is shown, whole and in order, and its description is in it.
LEMMA ListedIsShown ==
  ASSUME NEW w,
         \A slug \in DOMAIN w.embedded : w.embedded[slug] \in Seq(Range(w.embedded[slug])),
         \A slug \in DOMAIN w.entries : w.user[slug] \in Seq(Range(w.user[slug]))
  PROVE  ShowsWhatIsListed(w, RenderList(w))
<1> DEFINE list == RenderList(w)
           listed(slug) == slug \in DOMAIN w.embedded \cup UserFiles(w)
<1>1. \A slug : slug \in DOMAIN list <=> listed(slug) BY DEF RenderList, Discovered
<1>2. \A slug : listed(slug) => list[slug].description = Project(w, slug) /\ list[slug].sources = Sources(w, slug)
  BY DEF RenderList, Discovered
<1>3. \A slug : UserFiles(w) \subseteq DOMAIN w.entries BY DEF UserFiles
<1> HIDE DEF list
<1> SUFFICES ASSUME NEW slug \in DOMAIN w.entries \cup DOMAIN w.embedded
    PROVE  LET shown == ComposeMemory(w, slug) IN
           /\ shown.code = "ok" => slug \in DOMAIN list
           /\ slug \in DOMAIN list /\ ~Unreadable(w, slug) =>
                /\ shown.code = "ok"
                /\ "embedded" \in list[slug].sources =>
                     slug \in DOMAIN w.embedded /\ IsPrefix(w.embedded[slug], shown.value)
                /\ "user" \in list[slug].sources => IsSuffix(w.user[slug], shown.value)
                /\ list[slug].description # Unset =>
                     \E i \in DOMAIN shown.value : shown.value[i].h1 /\ shown.value[i].text = list[slug].description
  BY DEF ShowsWhatIsListed, list
<1> DEFINE shown == ComposeMemory(w, slug)
           e == w.embedded[slug]
           u == w.user[slug]
<1>4. "embedded" \in Sources(w, slug) <=> slug \in DOMAIN w.embedded BY DEF Sources
<1>5. "user" \in Sources(w, slug) <=> slug \in UserFiles(w) BY DEF Sources
<1>6. Sources(w, slug) \subseteq {"embedded", "user"} BY DEF Sources
<1>7. shown.code = "ok" => listed(slug)
  <2>1. ~listed(slug) => Sources(w, slug) = {} BY DEF Sources
  <2>2. ~listed(slug) => shown = Error("NotFound") BY <2>1 DEF ComposeMemory
  <2> QED BY <2>2 DEF Error
<1>8. ASSUME listed(slug), ~Unreadable(w, slug)
      PROVE  \E D : /\ shown.code = "ok" /\ shown.value \in Seq(D)
                    /\ slug \in DOMAIN w.embedded =>
                         e \in Seq(D) /\ IsPrefix(e, shown.value) /\ Range(e) \subseteq Range(shown.value)
                    /\ slug \in UserFiles(w) =>
                         u \in Seq(D) /\ IsSuffix(u, shown.value) /\ Range(u) \subseteq Range(shown.value)
  <2>1. ~(slug \in UserFiles(w) /\ w.entries[slug] = "unreadable") BY <1>3, <1>8 DEF Unreadable
  <2> DEFINE D == Range(e) \cup Range(u) \cup {Delimiter}
  <2>2. slug \in DOMAIN w.embedded => e \in Seq(D)
    <3>1. slug \in DOMAIN w.embedded => e \in Seq(Range(e)) OBVIOUS
    <3> QED BY <3>1
  <2>3. slug \in UserFiles(w) => u \in Seq(D)
    <3>1. slug \in UserFiles(w) => u \in Seq(Range(u)) BY <1>3
    <3> QED BY <3>1
  <2>4. <<Delimiter>> \in Seq(D) /\ <<>> \in Seq(D)
    <3>1. Delimiter \in D OBVIOUS
    <3> HIDE DEF D
    <3> QED BY <3>1
  <2> HIDE DEF D, e, u
  <2>5. CASE slug \in DOMAIN w.embedded /\ slug \notin UserFiles(w)
    <3>1. Sources(w, slug) = {"embedded"} BY <1>4, <1>5, <1>6, <2>5
    <3>2. shown = Ok(e) BY <2>1, <3>1 DEF ComposeMemory, e
    <3>3. shown.code = "ok" /\ shown.value = e BY <3>2 DEF Ok
    <3>4. e \in Seq(D) BY <2>2, <2>5
    <3>5. IsPrefix(e, e) BY <3>4, PrefixIs
    <3> QED BY <2>5, <3>3, <3>4, <3>5
  <2>6. CASE slug \notin DOMAIN w.embedded /\ slug \in UserFiles(w)
    <3>1. Sources(w, slug) = {"user"} BY <1>4, <1>5, <1>6, <2>6
    <3>2. shown = Ok(u) BY <2>1, <3>1 DEF ComposeMemory, u
    <3>3. shown.code = "ok" /\ shown.value = u BY <3>2 DEF Ok
    <3>4. u \in Seq(D) BY <2>3, <2>6
    <3>5. IsSuffix(u, <<>> \o u) BY <2>4, <3>4, BeginsAndEnds
    <3>6. <<>> \o u = u BY <3>4
    <3> QED BY <2>6, <3>3, <3>4, <3>5, <3>6
  <2>7. CASE slug \in DOMAIN w.embedded /\ slug \in UserFiles(w)
    <3>1. "embedded" \in Sources(w, slug) /\ "user" \in Sources(w, slug) BY <1>4, <1>5, <2>7
    <3>2. Sources(w, slug) # {} /\ Sources(w, slug) # {"embedded"} /\ Sources(w, slug) # {"user"} BY <3>1
    <3>3. shown = Ok(e \o <<Delimiter>> \o u) BY <2>1, <3>2 DEF ComposeMemory, e, u
    <3>4. e \in Seq(D) /\ u \in Seq(D) BY <2>2, <2>3, <2>7
    <3>5. PICK d \in Seq(D) : d = <<Delimiter>> BY <2>4
    <3>0. e \o d \in Seq(D) /\ d \o u \in Seq(D) BY <3>4
    <3>6. PICK a \in Seq(D) : a = e \o d BY <3>0
    <3>7. PICK b \in Seq(D) : b = d \o u BY <3>0
    <3>8. shown.code = "ok" /\ shown.value = a \o u /\ shown.value = e \o b
      <4>1. e \o d \o u = e \o (d \o u) BY <3>4
      <4>2. shown.code = "ok" /\ shown.value = e \o d \o u BY <3>3, <3>5 DEF Ok
      <4> QED BY <3>6, <3>7, <4>1, <4>2
    <3>9. IsPrefix(e, e \o b) /\ Range(e) \subseteq Range(e \o b) /\ e \o b \in Seq(D) BY <3>4, BeginsAndEnds, ConcatHas
    <3>10. IsSuffix(u, a \o u) /\ Range(u) \subseteq Range(a \o u) BY <3>4, BeginsAndEnds, ConcatHas
    <3> QED BY <3>4, <3>8, <3>9, <3>10
  <2> QED BY <1>8, <2>5, <2>6, <2>7
<1>9. ASSUME listed(slug), ~Unreadable(w, slug), Project(w, slug) # Unset
      PROVE  \E i \in DOMAIN shown.value : shown.value[i].h1 /\ shown.value[i].text = Project(w, slug)
  <2>1. PICK D : /\ shown.code = "ok" /\ shown.value \in Seq(D)
                 /\ slug \in DOMAIN w.embedded =>
                      e \in Seq(D) /\ IsPrefix(e, shown.value) /\ Range(e) \subseteq Range(shown.value)
                 /\ slug \in UserFiles(w) =>
                      u \in Seq(D) /\ IsSuffix(u, shown.value) /\ Range(u) \subseteq Range(shown.value)
    BY <1>8, <1>9
  <2>2. \/ slug \in DOMAIN w.embedded /\ ExtractDescription(e) # Unset /\ Project(w, slug) = ExtractDescription(e)
        \/ slug \in UserFiles(w) /\ ExtractDescription(u) # Unset /\ Project(w, slug) = ExtractDescription(u)
    BY <1>9 DEF Project
  <2> HIDE DEF e, u, shown
  <2>3. \E l \in Range(shown.value) : l.h1 /\ l.text = Project(w, slug)
    <3>1. CASE slug \in DOMAIN w.embedded /\ ExtractDescription(e) # Unset /\ Project(w, slug) = ExtractDescription(e)
      <4>1. \E l \in Range(e) : l.h1 /\ l.text = ExtractDescription(e) BY <2>1, <3>1, DescriptionIsIn
      <4> QED BY <2>1, <3>1, <4>1
    <3>2. CASE slug \in UserFiles(w) /\ ExtractDescription(u) # Unset /\ Project(w, slug) = ExtractDescription(u)
      <4>1. \E l \in Range(u) : l.h1 /\ l.text = ExtractDescription(u) BY <2>1, <3>2, DescriptionIsIn
      <4> QED BY <2>1, <3>2, <4>1
    <3> QED BY <2>2, <3>1, <3>2
  <2> QED BY <2>3 DEF Range
<1> HIDE DEF shown
<1> QED BY <1>1, <1>2, <1>4, <1>5, <1>7, <1>8, <1>9 DEF shown

-----------------------------------------------------------------------------
(* The layers of the configuration.                                        *)

CallStep(done, c) == IF done.code = "ok" THEN CallSetter(done.value, c) ELSE done
RunCalls(acc, calls) ==
  FoldLeft(LAMBDA done, c : Then(done, LAMBDA a : CallSetter(a, c)), Ok(acc), calls)

\* What a layer's calls go through, one after another.
Calling(h, acc, calls) ==
  /\ h[0] = Ok(acc) /\ h[Len(calls)] = RunCalls(acc, calls)
  /\ \A k \in 1..Len(calls) : h[k] = CallStep(h[k - 1], calls[k])

LEMMA CallsFold ==
  ASSUME NEW acc, NEW D, NEW calls \in Seq(D)
  PROVE  \E h : Calling(h, acc, calls)
<1> DEFINE n == Len(calls)
           step(v, k) == CallStep(v, calls[k])
           next(f, x) == IF x = {} THEN Ok(acc) ELSE step(f[x \ {Max(x)}], Max(x))
           Iter(f, k) == f = [x \in SUBSET (1..k) |-> next(f, x)]
           F == CHOOSE f : f = [x \in SUBSET DOMAIN calls |-> next(f, x)]
           Has(k) == \E f : Iter(f, k)
           T == {k \in Nat : k <= n => Has(k)}
<1>1. DOMAIN calls = 1..n /\ n \in Nat OBVIOUS
<1>2. RunCalls(acc, calls) = F[DOMAIN calls]
  BY DEF RunCalls, FoldLeft, MapThenFoldSet, CallStep, Then
<1> HIDE DEF step, n
<1>3. 0 \in T
  <2> DEFINE f == [x \in SUBSET (1..0) |-> Ok(acc)]
  <2>1. SUBSET (1..0) = {{}} OBVIOUS
  <2>2. Iter(f, 0) BY <2>1
  <2>3. Has(0) BY <2>2
  <2> QED BY <2>3
<1>4. ASSUME NEW k \in T PROVE k + 1 \in T
  <2>0. SUFFICES ASSUME k + 1 <= n PROVE Has(k + 1)
    <3> HIDE DEF Has
    <3> QED OBVIOUS
  <2>1. k \in Nat /\ k <= n BY <1>1, <2>0
  <2>a. Has(k)
    <3> HIDE DEF Has
    <3> QED BY <2>1
  <2>2. PICK old : Iter(old, k) BY <2>a
  <2> DEFINE new == [x \in SUBSET (1..(k + 1)) |->
                       IF k + 1 \in x THEN step(old[x \ {k + 1}], k + 1) ELSE old[x]]
  <2>3. \A x \in SUBSET (1..k) : old[x] = next(old, x) BY <2>2
  <2>4. ASSUME NEW x \in SUBSET (1..(k + 1)) PROVE new[x] = next(new, x)
    <3>1. CASE k + 1 \in x
      <4>1. Max(x) = k + 1 BY <2>1, <3>1, MaxIs
      <4>2. x \ {k + 1} \in SUBSET (1..(k + 1)) /\ k + 1 \notin x \ {k + 1} OBVIOUS
      <4>3. new[x \ {k + 1}] = old[x \ {k + 1}] BY <4>2
      <4> QED BY <3>1, <4>1, <4>3
    <3>2. CASE k + 1 \notin x
      <4>1. x \in SUBSET (1..k) BY <2>1, <3>2
      <4>2. new[x] = old[x] BY <3>2
      <4>3. new[x \ {Max(x)}] = old[x \ {Max(x)}] BY <3>2
      <4> QED BY <2>3, <4>1, <4>2, <4>3
    <3> QED BY <3>1, <3>2
  <2>5. new = [x \in SUBSET (1..(k + 1)) |-> new[x]] OBVIOUS
  <2>6. Iter(new, k + 1)
    <3> HIDE DEF new, next
    <3>1. [x \in SUBSET (1..(k + 1)) |-> new[x]] = [x \in SUBSET (1..(k + 1)) |-> next(new, x)] BY <2>4
    <3> QED BY <2>5, <3>1
  <2> QED BY <2>6
<1>5. T = Nat
  <2>1. T \in SUBSET Nat OBVIOUS
  <2> HIDE DEF T
  <2> QED BY <1>3, <1>4, <2>1, EveryNumber
<1>6. \E f : f = [x \in SUBSET DOMAIN calls |-> next(f, x)]
  <2>1. Has(n)
    <3> HIDE DEF Has
    <3> QED BY <1>1, <1>5
  <2>2. PICK f : Iter(f, n) BY <2>1
  <2>3. f = [x \in SUBSET DOMAIN calls |-> next(f, x)]
    <3> HIDE DEF next
    <3> QED BY <1>1, <2>2
  <2> QED BY <2>3
<1>7. F = [x \in SUBSET DOMAIN calls |-> next(F, x)]
  <2> HIDE DEF next
  <2> QED BY <1>6, Zenon
<1> HIDE DEF F
<1>8. F[{}] = Ok(acc) BY <1>7
<1>9. ASSUME NEW k \in 1..n PROVE F[1..k] = step(F[1..(k - 1)], k)
  <2>1. Max(1..k) = k
    <3>1. 1..k \in SUBSET Nat /\ k \in 1..k /\ \A y \in 1..k : y <= k BY <1>1
    <3> QED BY <3>1, MaxIs
  <2>2. (1..k) \ {k} = 1..(k - 1) BY <1>1
  <2>3. 1..k \in SUBSET (1..n) /\ 1..k # {}
    <3>1. \A y \in 1..k : y \in 1..n BY <1>1
    <3>2. k \in 1..k BY <1>1
    <3> QED BY <3>1, <3>2
  <2> QED BY <1>1, <1>7, <2>1, <2>2, <2>3
<1> DEFINE h == [k \in 0..n |-> F[1..k]]
<1>10. h[0] = Ok(acc) /\ h[n] = F[1..n]
  <2>1. 1..0 = {} OBVIOUS
  <2> QED BY <1>1, <1>8, <2>1
<1>11. ASSUME NEW k \in 1..n PROVE h[k] = step(h[k - 1], k)
  <2>1. k \in 0..n /\ k - 1 \in 0..n BY <1>1
  <2>2. h[k] = F[1..k] /\ h[k - 1] = F[1..(k - 1)] BY <2>1
  <2> HIDE DEF h
  <2> QED BY <1>9, <2>2
<1> HIDE DEF h
<1>12. Calling(h, acc, calls) BY <1>1, <1>2, <1>10, <1>11 DEF Calling, n, step
<1> QED BY <1>12

(* The last of a set of calls decides.                                     *)
Upto(S, k) == {i \in S : i <= k}
Decided(calls, S, k, shipped) == IF Upto(S, k) = {} THEN shipped ELSE calls[LastIn(Upto(S, k))].value

LEMMA LastIs ==
  ASSUME NEW S \in SUBSET Nat, NEW m \in S, \A y \in S : y <= m
  PROVE  LastIn(S) = m
<1> DEFINE last(i) == \A j \in S : j <= i
           c == CHOOSE i \in S : last(i)
<1>1. \E i \in S : last(i) OBVIOUS
<1>2. LastIn(S) = c BY DEF LastIn
<1>3. c \in S /\ last(c)
  <2> HIDE DEF last
  <2> QED BY <1>1, Zenon
<1> HIDE DEF c
<1>4. c \in Nat /\ m \in Nat /\ c <= m /\ m <= c BY <1>3
<1> QED BY <1>2, <1>4

LEMMA UptoHas ==
  ASSUME NEW n \in Nat, NEW S \in SUBSET (1..n)
  PROVE  /\ \A i \in S : i \in Nat /\ i > 0
         /\ \A k, i : i \in Upto(S, k) <=> i \in S /\ i <= k
<1>1. \A i \in S : i \in Nat /\ i > 0 OBVIOUS
<1>2. \A k, i : i \in Upto(S, k) <=> i \in S /\ i <= k BY Zenon DEF Upto
<1> QED BY <1>1, <1>2

LEMMA NoCallYet ==
  ASSUME NEW calls, NEW n \in Nat, NEW S \in SUBSET (1..n), NEW shipped
  PROVE  Decided(calls, S, 0, shipped) = shipped
<1>1. \A i \in S : ~(i <= 0) BY UptoHas
<1>2. Upto(S, 0) = {} BY <1>1, Zenon DEF Upto
<1> QED BY <1>2 DEF Decided

\* One more call: it decides if it is of the set.
DecidesNext(calls, S, k, shipped) ==
  /\ k + 1 \in S => Decided(calls, S, k + 1, shipped) = calls[k + 1].value /\ Upto(S, k + 1) # {}
  /\ k + 1 \notin S =>
       Decided(calls, S, k + 1, shipped) = Decided(calls, S, k, shipped) /\ Upto(S, k + 1) = Upto(S, k)

LEMMA OneMoreCall ==
  ASSUME NEW calls, NEW n \in Nat, NEW S \in SUBSET (1..n), NEW k \in Nat, NEW shipped
  PROVE  DecidesNext(calls, S, k, shipped)
<1>1. ASSUME k + 1 \in S PROVE LastIn(Upto(S, k + 1)) = k + 1 /\ Upto(S, k + 1) # {}
  <2>1. k + 1 \in Upto(S, k + 1) BY <1>1, UptoHas
  <2>2. Upto(S, k + 1) \in SUBSET Nat
    <3>1. \A i \in Upto(S, k + 1) : i \in Nat BY Zenon, UptoHas
    <3> QED BY <3>1
  <2>3. \A y \in Upto(S, k + 1) : y <= k + 1 BY Zenon DEF Upto
  <2> QED BY <2>1, <2>2, <2>3, LastIs
<1>2. ASSUME k + 1 \notin S PROVE Upto(S, k + 1) = Upto(S, k)
  <2>1. \A i \in S : i <= k + 1 <=> i <= k BY <1>2
  <2> QED BY <2>1, Zenon DEF Upto
<1> QED BY <1>1, <1>2 DEF Decided, DecidesNext

(* One call.                                                               *)
Parts == {"agent", "headroom", "table", "slots", "appends"}
Whole(acc) == DOMAIN acc = Parts /\ acc = [x \in Parts |-> acc[x]] /\ DOMAIN acc.table = Fields
WellFormed(c) == c.do \in Setters /\ (c.do = "write" => c.at \in Fields)

\* What a call leaves of the tables, the slots and the appends.
SlotsAfter(acc, c, new) ==
  \A slot : /\ AimsAt(c, acc.agent, slot) => SlotOf(new, slot) = c.value
            /\ ~AimsAt(c, acc.agent, slot) => SlotOf(new, slot) = SlotOf(acc, slot)
FieldsAfter(acc, c, new) ==
  \A field \in Fields :
    /\ IsAbout(c, field) => new.table[field] = c.value
    /\ ~IsAbout(c, field) => new.table[field] = acc.table[field] /\ new[field] = acc[field]
AppendsAfter(acc, c, new) ==
  /\ c.do = "append_prompt" => new.appends = Append(acc.appends, <<c.at, c.value>>)
  /\ c.do # "append_prompt" => new.appends = acc.appends

LEMMA PutIs ==
  ASSUME NEW acc, Whole(acc), NEW slot, NEW v
  PROVE  /\ Whole(Put(acc, slot, v)) /\ Put(acc, slot, v).table = acc.table
         /\ Put(acc, slot, v).agent = acc.agent /\ Put(acc, slot, v).headroom = acc.headroom
         /\ Put(acc, slot, v).appends = acc.appends
         /\ SlotOf(Put(acc, slot, v), slot) = v
         /\ \A other : other # slot => SlotOf(Put(acc, slot, v), other) = SlotOf(acc, other)
<1> DEFINE new == Put(acc, slot, v)
           slots == [s \in DOMAIN acc.slots \cup {slot} |-> IF s = slot THEN v ELSE acc.slots[s]]
<1>1. new = [acc EXCEPT !.slots = slots] BY DEF Put
<1>2. slot \in DOMAIN slots /\ slots[slot] = v OBVIOUS
<1>3. \A other : other # slot =>
         /\ other \in DOMAIN slots <=> other \in DOMAIN acc.slots
         /\ other \in DOMAIN slots => slots[other] = acc.slots[other]
    OBVIOUS
<1> HIDE DEF slots, new
<1>4. DOMAIN new = Parts /\ new.slots = slots /\ \A x \in Parts \ {"slots"} : new[x] = acc[x]
  BY <1>1 DEF Whole, Parts
<1>5. new = [x \in Parts |-> new[x]] BY <1>1, <1>4 DEF Whole
<1> QED BY <1>2, <1>3, <1>4, <1>5 DEF Whole, SlotOf, Parts, new

LEMMA SetFieldIs ==
  ASSUME NEW acc, Whole(acc), NEW field \in Fields, NEW v
  PROVE  LET new == SetField(acc, field, v) IN
         /\ Whole(new) /\ new[field] = v /\ new.table[field] = v
         /\ new.slots = acc.slots /\ new.appends = acc.appends
         /\ \A other \in Fields \ {field} : new[other] = acc[other] /\ new.table[other] = acc.table[other]
<1> DEFINE new == SetField(acc, field, v)
           table == [acc.table EXCEPT ![field] = v]
<1>1. new = [[acc EXCEPT ![field] = v] EXCEPT !.table = [acc.table EXCEPT ![field] = v]]
  BY DEF SetField, Fields, Whole, Parts
<1>2. DOMAIN table = Fields /\ table[field] = v /\ \A other \in Fields \ {field} : table[other] = acc.table[other]
  BY DEF Whole
<1> HIDE DEF new, table
<1>3. /\ DOMAIN new = Parts /\ new.table = table /\ new[field] = v
      /\ \A x \in Parts \ {field, "table"} : new[x] = acc[x]
  BY <1>1 DEF Whole, Parts, Fields, table
<1>4. new = [x \in Parts |-> new[x]] BY <1>1, <1>3 DEF Whole
<1> QED BY <1>2, <1>3, <1>4 DEF Whole, Parts, Fields, new

LEMMA CallIs ==
  ASSUME NEW acc, Whole(acc), NEW c, WellFormed(c), CallSetter(acc, c).code = "ok"
  PROVE  LET new == CallSetter(acc, c).value IN
         /\ Whole(new) /\ FieldsAfter(acc, c, new) /\ SlotsAfter(acc, c, new) /\ AppendsAfter(acc, c, new)
         /\ c.do = "set_agent" => new.agent = c.value
<1> SUFFICES ASSUME NEW new, new = CallSetter(acc, c).value
             PROVE  /\ Whole(new) /\ FieldsAfter(acc, c, new) /\ SlotsAfter(acc, c, new) /\ AppendsAfter(acc, c, new)
                    /\ c.do = "set_agent" => new.agent = c.value
    OBVIOUS
<1>1. CASE c.do = "set_agent"
  <2>1. new = SetField(acc, "agent", c.value) BY <1>1 DEF CallSetter, Ok
  <2>2. "agent" \in Fields BY DEF Fields
  <2>3. /\ Whole(new) /\ new.agent = c.value /\ new.table.agent = c.value
        /\ new.headroom = acc.headroom /\ new.table.headroom = acc.table.headroom
        /\ new.slots = acc.slots /\ new.appends = acc.appends
    BY <2>1, <2>2, SetFieldIs DEF Fields
  <2>4. FieldsAfter(acc, c, new) BY <1>1, <2>3 DEF FieldsAfter, IsAbout, SetterOf, Fields
  <2>5. SlotsAfter(acc, c, new) BY <1>1, <2>3 DEF SlotsAfter, AimsAt, SlotOf
  <2>6. AppendsAfter(acc, c, new) BY <1>1, <2>3 DEF AppendsAfter
  <2> QED BY <1>1, <2>3, <2>4, <2>5, <2>6
<1>2. CASE c.do = "set_headroom"
  <2>1. new = SetField(acc, "headroom", c.value) BY <1>2 DEF CallSetter, Ok, Error
  <2>2. "headroom" \in Fields BY DEF Fields
  <2>3. /\ Whole(new) /\ new.headroom = c.value /\ new.table.headroom = c.value
        /\ new.agent = acc.agent /\ new.table.agent = acc.table.agent
        /\ new.slots = acc.slots /\ new.appends = acc.appends
    BY <2>1, <2>2, SetFieldIs DEF Fields
  <2>4. FieldsAfter(acc, c, new) BY <1>2, <2>3 DEF FieldsAfter, IsAbout, SetterOf, Fields
  <2>5. SlotsAfter(acc, c, new) BY <1>2, <2>3 DEF SlotsAfter, AimsAt, SlotOf
  <2>6. AppendsAfter(acc, c, new) BY <1>2, <2>3 DEF AppendsAfter
  <2> QED BY <1>2, <2>3, <2>4, <2>5, <2>6
<1>3. CASE c.do \in {"set_model", "set_model_for", "set_provider", "set_provider_for", "set_token"}
  <2>1. PICK slot : new = Put(acc, slot, c.value) /\ \A other : AimsAt(c, acc.agent, other) <=> other = slot
    <3>1. CASE c.do = "set_model" BY <3>1 DEF CallSetter, Ok, AimsAt
    <3>2. CASE c.do = "set_model_for" BY <3>2 DEF CallSetter, Ok, AimsAt
    <3>3. CASE c.do = "set_provider" BY <3>3 DEF CallSetter, Ok, AimsAt
    <3>4. CASE c.do = "set_provider_for" BY <3>4 DEF CallSetter, Ok, AimsAt
    <3>5. CASE c.do = "set_token" BY <3>5 DEF CallSetter, Ok, AimsAt
    <3> QED BY <1>3, <3>1, <3>2, <3>3, <3>4, <3>5
  <2>2. /\ Whole(new) /\ new.table = acc.table /\ new.agent = acc.agent /\ new.headroom = acc.headroom
        /\ new.appends = acc.appends /\ SlotOf(new, slot) = c.value
        /\ \A other : other # slot => SlotOf(new, other) = SlotOf(acc, other)
    BY <2>1, PutIs
  <2>3. FieldsAfter(acc, c, new) BY <1>3, <2>2 DEF FieldsAfter, IsAbout, SetterOf, Fields
  <2>4. SlotsAfter(acc, c, new) BY <2>1, <2>2 DEF SlotsAfter
  <2>5. AppendsAfter(acc, c, new) BY <1>3, <2>2 DEF AppendsAfter
  <2> QED BY <1>3, <2>2, <2>3, <2>4, <2>5
<1>4. CASE c.do = "append_prompt"
  <2>1. new = [acc EXCEPT !.appends = Append(acc.appends, <<c.at, c.value>>)]
    BY <1>4 DEF CallSetter, Ok, Whole, Parts
  <2>2. /\ DOMAIN new = Parts /\ new.appends = Append(acc.appends, <<c.at, c.value>>)
        /\ \A x \in Parts \ {"appends"} : new[x] = acc[x]
        /\ new = [x \in Parts |-> new[x]]
    BY <2>1 DEF Whole, Parts
  <2>3. Whole(new) /\ new.table = acc.table /\ new.slots = acc.slots
        /\ new.agent = acc.agent /\ new.headroom = acc.headroom
    BY <2>2 DEF Whole, Parts
  <2>4. FieldsAfter(acc, c, new) BY <1>4, <2>3 DEF FieldsAfter, IsAbout, SetterOf, Fields
  <2>5. SlotsAfter(acc, c, new) BY <1>4, <2>3 DEF SlotsAfter, AimsAt, SlotOf
  <2>6. AppendsAfter(acc, c, new) BY <1>4, <2>2 DEF AppendsAfter
  <2> QED BY <1>4, <2>3, <2>4, <2>5, <2>6
<1>5. CASE c.do = "write"
  <2>1. c.at \in Fields BY <1>5 DEF WellFormed
  <2>2. new = [acc EXCEPT !.table[c.at] = c.value] BY <1>5 DEF CallSetter, Ok
  <2>3. /\ DOMAIN new = Parts /\ new.table = [acc.table EXCEPT ![c.at] = c.value]
        /\ \A x \in Parts \ {"table"} : new[x] = acc[x]
        /\ new = [x \in Parts |-> new[x]]
    BY <2>2 DEF Whole, Parts
  <2>4. DOMAIN new.table = Fields /\ new.table[c.at] = c.value
        /\ \A other \in Fields \ {c.at} : new.table[other] = acc.table[other]
    BY <2>1, <2>3 DEF Whole
  <2>5. Whole(new) /\ new.slots = acc.slots /\ new.appends = acc.appends
        /\ new.agent = acc.agent /\ new.headroom = acc.headroom
    BY <2>3, <2>4 DEF Whole, Parts
  <2>6. FieldsAfter(acc, c, new) BY <1>5, <2>1, <2>4, <2>5 DEF FieldsAfter, IsAbout, SetterOf, Fields
  <2>7. SlotsAfter(acc, c, new) BY <1>5, <2>5 DEF SlotsAfter, AimsAt, SlotOf
  <2>8. AppendsAfter(acc, c, new) BY <1>5, <2>5 DEF AppendsAfter
  <2> QED BY <1>5, <2>5, <2>6, <2>7, <2>8
<1>6. c.do # "throw" BY DEF CallSetter, Error
<1> QED BY <1>1, <1>2, <1>3, <1>4, <1>5, <1>6 DEF WellFormed, Setters

(* The calls so far.                                                       *)
OnlySet(calls) == \A i \in About(calls, "agent") : calls[i].do = "set_agent"
Aiming(calls, slot) == {i \in DOMAIN calls : Aims(calls, i, slot)}
Saying(calls) == Rows(calls, {c \in Range(calls) : c.do = "append_prompt"})

TableFits(acc, calls, k) ==
  \A field \in Fields :
    /\ acc.table[field] = Decided(calls, About(calls, field), k, Seed[field])
    /\ Upto(About(calls, field), k) = {} => acc[field] = Seed[field]
AgentFits(acc, calls) == OnlySet(calls) => acc.agent = acc.table.agent
SlotsFit(acc, calls, k) ==
  OnlySet(calls) => \A slot : SlotOf(acc, slot) = Decided(calls, Aiming(calls, slot), k, SlotOf(Seed, slot))
AppendsFit(acc, said, k) == acc.appends = Appends(said[k])

\* What the first k of the calls have made of the shipped configuration.
Fits(acc, calls, said, k) ==
  /\ Whole(acc) /\ TableFits(acc, calls, k) /\ AgentFits(acc, calls)
  /\ SlotsFit(acc, calls, k) /\ AppendsFit(acc, said, k)

\* A sequence of well-formed calls, and the appends among them one after another.
Script(calls, said, D) ==
  /\ calls \in Seq(D) /\ \A c \in D : WellFormed(c)
  /\ Flattened(said, Saying(calls), D)

LEMMA SeedFits ==
  ASSUME NEW calls, NEW said, NEW D, Script(calls, said, D)
  PROVE  Fits(Seed, calls, said, 0)
<1> DEFINE n == Len(calls)
<1>1. n \in Nat /\ DOMAIN calls = 1..n BY DEF Script
<1>2. Whole(Seed) BY DEF Whole, Seed, Parts, Fields
<1>3. TableFits(Seed, calls, 0)
  <2> SUFFICES ASSUME NEW field \in Fields
               PROVE  Seed.table[field] = Decided(calls, About(calls, field), 0, Seed[field])
      BY DEF TableFits
  <2>1. About(calls, field) \in SUBSET (1..n) BY <1>1 DEF About
  <2>2. Decided(calls, About(calls, field), 0, Seed[field]) = Seed[field] BY <1>1, <2>1, NoCallYet
  <2>3. Seed.table[field] = Seed[field] BY DEF Seed, Fields
  <2> QED BY <2>2, <2>3
<1>4. AgentFits(Seed, calls) BY DEF AgentFits, Seed
<1>5. SlotsFit(Seed, calls, 0)
  <2> SUFFICES ASSUME NEW slot
               PROVE  SlotOf(Seed, slot) = Decided(calls, Aiming(calls, slot), 0, SlotOf(Seed, slot))
      BY DEF SlotsFit
  <2>1. Aiming(calls, slot) \in SUBSET (1..n) BY <1>1 DEF Aiming
  <2> QED BY <1>1, <2>1, NoCallYet
<1>6. AppendsFit(Seed, said, 0)
  <2>1. said[0] = <<>> BY DEF Script, Flattened
  <2>2. DOMAIN <<>> = {} /\ Appends(<<>>) = <<>> BY DEF Appends
  <2>3. Seed.appends = <<>> BY DEF Seed
  <2> QED BY <2>1, <2>2, <2>3 DEF AppendsFit
<1> QED BY <1>2, <1>3, <1>4, <1>5, <1>6 DEF Fits

\* One append more.
LEMMA AppendsGrow ==
  ASSUME NEW D, NEW q \in Seq(D), NEW c \in D
  PROVE  Appends(q \o <<c>>) = Append(Appends(q), <<c.at, c.value>>)
<1> DEFINE n == Len(q)
           V == {<<x.at, x.value>> : x \in D}
           old == Appends(q)
           new == Appends(q \o <<c>>)
<1>1. n \in Nat /\ DOMAIN q = 1..n /\ \A i \in 1..n : q[i] \in D OBVIOUS
<1>2. /\ DOMAIN (q \o <<c>>) = 1..(n + 1) /\ (q \o <<c>>)[n + 1] = c
      /\ \A i \in 1..n : (q \o <<c>>)[i] = q[i]
    OBVIOUS
<1>3. old = [i \in 1..n |-> <<q[i].at, q[i].value>>] BY <1>1 DEF Appends
<1>4. new = [i \in 1..(n + 1) |-> <<(q \o <<c>>)[i].at, (q \o <<c>>)[i].value>>] BY <1>2 DEF Appends
<1>5. \A x \in D : <<x.at, x.value>> \in V OBVIOUS
<1> HIDE DEF V, old, new, n
<1>6. old \in Seq(V) /\ Len(old) = n /\ \A i \in 1..n : old[i] = <<q[i].at, q[i].value>> BY <1>1, <1>3, <1>5
<1>7. DOMAIN new = 1..(n + 1) /\ new = [i \in 1..(n + 1) |-> new[i]] BY <1>4
<1>8. new[n + 1] = <<c.at, c.value>> /\ \A i \in 1..n : new[i] = old[i]
  <2>1. n + 1 \in 1..(n + 1) /\ \A i \in 1..n : i \in 1..(n + 1) BY <1>1
  <2> QED BY <1>2, <1>4, <1>6, <2>1
<1>9. <<c.at, c.value>> \in V BY <1>5
<1> DEFINE appended == Append(old, <<c.at, c.value>>)
<1>10. appended \in Seq(V) /\ Len(appended) = n + 1 /\ appended[n + 1] = <<c.at, c.value>>
       /\ \A i \in 1..n : appended[i] = old[i]
    BY <1>1, <1>6, <1>9
<1>11. DOMAIN appended = 1..(n + 1) /\ appended = [i \in 1..(n + 1) |-> appended[i]] BY <1>10
<1> HIDE DEF appended
<1>12. \A i \in 1..(n + 1) : new[i] = appended[i]
  <2>1. \A i \in 1..(n + 1) : i = n + 1 \/ i \in 1..n BY <1>1
  <2> QED BY <1>8, <1>10, <2>1
<1>13. new = appended BY <1>7, <1>11, <1>12
<1> QED BY <1>13 DEF new, appended, old

(* A call, a layer and two layers.                                         *)
LEMMA StepKeeps ==
  ASSUME NEW calls, NEW said, NEW D, Script(calls, said, D),
         NEW k \in Nat, k < Len(calls), NEW acc, Fits(acc, calls, said, k),
         CallSetter(acc, calls[k + 1]).code = "ok"
  PROVE  Fits(CallSetter(acc, calls[k + 1]).value, calls, said, k + 1)
<1> DEFINE n == Len(calls)
           c == calls[k + 1]
<1>1. /\ n \in Nat /\ DOMAIN calls = 1..n /\ k + 1 \in 1..n /\ c \in D
      /\ WellFormed(c) /\ c \in Range(calls)
  <2>1. calls \in Seq(D) /\ \A x \in D : WellFormed(x) BY DEF Script
  <2>2. n \in Nat /\ DOMAIN calls = 1..n /\ k + 1 \in 1..n /\ c \in D BY <2>1
  <2> QED BY <2>1, <2>2 DEF Range
<1> SUFFICES ASSUME NEW new, new = CallSetter(acc, c).value PROVE Fits(new, calls, said, k + 1)
    OBVIOUS
<1> HIDE DEF n
<1>2. Whole(acc) /\ TableFits(acc, calls, k) /\ AgentFits(acc, calls) /\ SlotsFit(acc, calls, k)
      /\ AppendsFit(acc, said, k)
    BY DEF Fits
<1>3. /\ Whole(new) /\ FieldsAfter(acc, c, new) /\ SlotsAfter(acc, c, new) /\ AppendsAfter(acc, c, new)
      /\ c.do = "set_agent" => new.agent = c.value
    BY <1>1, <1>2, CallIs
<1>4. TableFits(new, calls, k + 1)
  <2> SUFFICES ASSUME NEW field \in Fields
               PROVE  /\ new.table[field] = Decided(calls, About(calls, field), k + 1, Seed[field])
                      /\ Upto(About(calls, field), k + 1) = {} => new[field] = Seed[field]
      BY DEF TableFits
  <2>1. About(calls, field) \in SUBSET (1..n) BY <1>1 DEF About
  <2>2. k + 1 \in About(calls, field) <=> IsAbout(c, field) BY <1>1 DEF About
  <2>3. /\ acc.table[field] = Decided(calls, About(calls, field), k, Seed[field])
        /\ Upto(About(calls, field), k) = {} => acc[field] = Seed[field]
    BY <1>2 DEF TableFits
  <2>4. /\ IsAbout(c, field) => new.table[field] = c.value
        /\ ~IsAbout(c, field) => new.table[field] = acc.table[field] /\ new[field] = acc[field]
    BY <1>3 DEF FieldsAfter
  <2> DEFINE S == About(calls, field)
             shipped == Seed[field]
  <2>a. S \in SUBSET (1..n) BY <2>1
  <2> HIDE DEF S, shipped
  <2>5. DecidesNext(calls, S, k, shipped) BY <1>1, <2>a, OneMoreCall
  <2> HIDE DEF c
  <2> QED BY <2>2, <2>3, <2>4, <2>5 DEF S, shipped, c, DecidesNext
<1>5. "agent" \in Fields BY DEF Fields
<1>6. OnlySet(calls) => (IsAbout(c, "agent") <=> c.do = "set_agent")
  <2>1. k + 1 \in About(calls, "agent") <=> IsAbout(c, "agent") BY <1>1 DEF About
  <2> QED BY <2>1 DEF OnlySet, IsAbout, SetterOf
<1>7. AgentFits(new, calls) BY <1>2, <1>3, <1>5, <1>6 DEF AgentFits, FieldsAfter
<1>8. SlotsFit(new, calls, k + 1)
  <2> SUFFICES ASSUME OnlySet(calls), NEW slot
               PROVE  SlotOf(new, slot) = Decided(calls, Aiming(calls, slot), k + 1, SlotOf(Seed, slot))
      BY DEF SlotsFit
  <2>1. Aiming(calls, slot) \in SUBSET (1..n) BY <1>1 DEF Aiming
  <2>2. AgentAt(calls, k + 1) = acc.agent
    <3>1. acc.agent = Decided(calls, About(calls, "agent"), k, Seed.agent) BY <1>2, <1>5 DEF AgentFits, TableFits
    <3>2. {j \in DOMAIN calls : j < k + 1 /\ calls[j].do = "set_agent"} = Upto(About(calls, "agent"), k)
      <4>1. \A j \in DOMAIN calls : j < k + 1 <=> j <= k BY <1>1
      <4>2. \A j \in DOMAIN calls : calls[j].do = "set_agent" <=> j \in About(calls, "agent")
        BY DEF OnlySet, About, IsAbout, SetterOf
      <4> QED BY <4>1, <4>2 DEF Upto, About
    <3>3. Seed.agent = "claude-code" BY DEF Seed
    <3> QED BY <3>1, <3>2, <3>3 DEF AgentAt, Decided
  <2>3. k + 1 \in Aiming(calls, slot) <=> AimsAt(c, acc.agent, slot) BY <1>1, <2>2 DEF Aiming, Aims
  <2>4. SlotOf(acc, slot) = Decided(calls, Aiming(calls, slot), k, SlotOf(Seed, slot)) BY <1>2 DEF SlotsFit
  <2>5. /\ AimsAt(c, acc.agent, slot) => SlotOf(new, slot) = c.value
        /\ ~AimsAt(c, acc.agent, slot) => SlotOf(new, slot) = SlotOf(acc, slot)
    BY <1>3 DEF SlotsAfter
  <2> DEFINE S == Aiming(calls, slot)
             shipped == SlotOf(Seed, slot)
  <2>a. S \in SUBSET (1..n) BY <2>1
  <2> HIDE DEF S, shipped
  <2>6. DecidesNext(calls, S, k, shipped) BY <1>1, <2>a, OneMoreCall
  <2> HIDE DEF c
  <2> QED BY <2>3, <2>4, <2>5, <2>6 DEF S, shipped, c, DecidesNext
<1>9. AppendsFit(new, said, k + 1)
  <2> DEFINE P == {x \in Range(calls) : x.do = "append_prompt"}
  <2>1. /\ Len(Saying(calls)) = n
        /\ Saying(calls)[k + 1] = IF c \in P THEN <<c>> ELSE <<>>
    BY <1>1, RowsTyped DEF Script, Saying, n
  <2>2. said[k] \in Seq(D) /\ said[k + 1] = said[k] \o Saying(calls)[k + 1]
    <3>1. k \in 0..n /\ k + 1 \in 1..n /\ (k + 1) - 1 = k BY <1>1
    <3>2. said \in [0..n -> Seq(D)] /\ \A j \in 1..n : said[j] = said[j - 1] \o Saying(calls)[j]
      BY <2>1 DEF Script, Flattened
    <3> QED BY <3>1, <3>2
  <2>3. c \in P <=> c.do = "append_prompt" BY <1>1
  <2> HIDE DEF P, c
  <2>6. \A q \in Seq(D) : q \o <<>> = q OBVIOUS
  <2>4. CASE c.do = "append_prompt"
    <3>1. said[k + 1] = said[k] \o <<c>> BY <2>1, <2>2, <2>3, <2>4
    <3>2. Appends(said[k + 1]) = Append(Appends(said[k]), <<c.at, c.value>>) BY <1>1, <2>2, <3>1, AppendsGrow
    <3> QED BY <1>2, <1>3, <2>4, <3>2 DEF AppendsFit, AppendsAfter
  <2>5. CASE c.do # "append_prompt"
    <3>1. said[k + 1] = said[k] BY <2>1, <2>2, <2>3, <2>5, <2>6
    <3> QED BY <1>2, <1>3, <2>5, <3>1 DEF AppendsFit, AppendsAfter
  <2> QED BY <2>4, <2>5
<1> QED BY <1>3, <1>4, <1>7, <1>8, <1>9 DEF Fits

\* What is in ravel.config after a layer is what the setters' state says.
Committed(acc) == \A field \in Fields : acc.table[field] \notin {Unset, "negative"} => acc[field] = acc.table[field]

LEMMA CommitKeeps ==
  ASSUME NEW calls, NEW said, NEW k, NEW acc, Fits(acc, calls, said, k)
  PROVE  Fits(CommitConfigTable(acc), calls, said, k) /\ Committed(CommitConfigTable(acc))
<1> SUFFICES ASSUME NEW new, new = CommitConfigTable(acc) PROVE Fits(new, calls, said, k) /\ Committed(new)
    OBVIOUS
<1>1. Whole(acc) /\ TableFits(acc, calls, k) /\ AgentFits(acc, calls) /\ SlotsFit(acc, calls, k)
      /\ AppendsFit(acc, said, k)
    BY DEF Fits
<1> DEFINE agent == IF acc.table.agent = Unset THEN acc.agent ELSE acc.table.agent
           headroom == IF acc.table.headroom \in {Unset, "negative"} THEN acc.headroom ELSE acc.table.headroom
<1>2. new = [acc EXCEPT !.agent = agent, !.headroom = headroom] BY <1>1 DEF CommitConfigTable, Whole, Parts
<1> HIDE DEF agent, headroom
<1>3. /\ DOMAIN new = Parts /\ new = [x \in Parts |-> new[x]]
      /\ new.agent = agent /\ new.headroom = headroom
      /\ new.table = acc.table /\ new.slots = acc.slots /\ new.appends = acc.appends
    BY <1>1, <1>2 DEF Whole, Parts
<1>4. Whole(new) BY <1>1, <1>3 DEF Whole
<1>5. TableFits(new, calls, k)
  <2> SUFFICES ASSUME NEW field \in Fields
               PROVE  /\ new.table[field] = Decided(calls, About(calls, field), k, Seed[field])
                      /\ Upto(About(calls, field), k) = {} => new[field] = Seed[field]
      BY DEF TableFits
  <2>1. /\ acc.table[field] = Decided(calls, About(calls, field), k, Seed[field])
        /\ Upto(About(calls, field), k) = {} => acc[field] = Seed[field]
    BY <1>1 DEF TableFits
  <2>2. Upto(About(calls, field), k) = {} => acc.table[field] = Seed[field] BY <2>1 DEF Decided
  <2>3. new[field] \in {acc[field], acc.table[field]} BY <1>3 DEF Fields, agent, headroom
  <2> QED BY <1>3, <2>1, <2>2, <2>3
<1>6. AgentFits(new, calls) BY <1>1, <1>3 DEF AgentFits, agent
<1>7. SlotsFit(new, calls, k) BY <1>1, <1>3 DEF SlotsFit, SlotOf
<1>8. AppendsFit(new, said, k) BY <1>1, <1>3 DEF AppendsFit
<1>9. Committed(new) BY <1>3 DEF Committed, Fields, agent, headroom
<1> QED BY <1>4, <1>5, <1>6, <1>7, <1>8, <1>9 DEF Fits

\* The calls of a layer are those of the script from the o-th on.
LEMMA LayerKeeps ==
  ASSUME NEW calls, NEW said, NEW D, Script(calls, said, D),
         NEW o \in Nat, NEW acc, Fits(acc, calls, said, o), Committed(acc),
         NEW layer, CallsOf(layer) \in Seq(D), o + Len(CallsOf(layer)) <= Len(calls),
         \A i \in 1..Len(CallsOf(layer)) : calls[o + i] = CallsOf(layer)[i],
         RunLayer(acc, layer).code = "ok"
  PROVE  /\ Fits(RunLayer(acc, layer).value, calls, said, o + Len(CallsOf(layer)))
         /\ Committed(RunLayer(acc, layer).value)
<1> DEFINE own == CallsOf(layer)
           n == Len(own)
<1>1. n \in Nat OBVIOUS
<1>2. CASE layer = Unset
  <2>1. own = <<>> /\ RunLayer(acc, layer) = Ok(acc) BY <1>2 DEF CallsOf, RunLayer
  <2>2. n = 0 /\ RunLayer(acc, layer).value = acc BY <2>1 DEF Ok
  <2>3. o + n = o BY <2>2
  <2> QED BY <2>2, <2>3
<1>3. CASE layer # Unset
  <2>1. own = layer.calls BY <1>3 DEF CallsOf
  <2> DEFINE run == RunCalls(acc, own)
  <2>2. /\ run.code = "ok"
        /\ RunLayer(acc, layer).value = CommitConfigTable(run.value)
    <3>1. layer.readable BY <1>3 DEF RunLayer, Error
    <3>2. RunLayer(acc, layer) = Then(run, LAMBDA a : Ok(CommitConfigTable(a)))
      BY <1>3, <2>1, <3>1 DEF RunLayer, RunCalls
    <3> HIDE DEF run
    <3> QED BY <3>2 DEF Then, Ok
  <2>3. own \in Seq(D) OBVIOUS
  <2> HIDE DEF own, run
  <2>4. PICK h : Calling(h, acc, own) BY <2>3, CallsFold
  <2> DEFINE Good(k) == h[k].code = "ok" => Fits(h[k].value, calls, said, o + k)
             T == {k \in Nat : k <= n => Good(k)}
  <2>5. 0 \in T
    <3>1. h[0] = Ok(acc) BY <2>4 DEF Calling
    <3>2. h[0].value = acc /\ o + 0 = o BY <3>1 DEF Ok
    <3> QED BY <3>2
  <2>6. ASSUME NEW k \in T PROVE k + 1 \in T
    <3>1. SUFFICES ASSUME k + 1 <= n PROVE Good(k + 1)
      <4> HIDE DEF Good
      <4> QED OBVIOUS
    <3>2. k \in Nat /\ Good(k) /\ k + 1 \in 1..n
      <4> HIDE DEF Good
      <4> QED BY <1>1, <3>1
    <3>3. h[k + 1] = CallStep(h[k], own[k + 1])
      <4>1. (k + 1) - 1 = k BY <3>2
      <4> QED BY <2>4, <3>2, <4>1 DEF Calling, n
    <3>4. own[k + 1] = calls[(o + k) + 1] /\ o + k \in Nat /\ o + k < Len(calls) /\ o + (k + 1) = (o + k) + 1
      <4>1. Len(calls) \in Nat BY DEF Script
      <4>2. calls[o + (k + 1)] = own[k + 1] BY <3>2 DEF own, n
      <4>3. o + n <= Len(calls) BY DEF own, n
      <4> HIDE DEF n
      <4> QED BY <1>1, <3>1, <3>2, <4>1, <4>2, <4>3
    <3>5. SUFFICES ASSUME h[k + 1].code = "ok" PROVE Fits(h[k + 1].value, calls, said, (o + k) + 1)
      BY <3>4
    <3>6. h[k].code = "ok" BY <3>3, <3>5 DEF CallStep
    <3>7. Fits(h[k].value, calls, said, o + k) BY <3>2, <3>6
    <3>8. h[k + 1] = CallSetter(h[k].value, calls[(o + k) + 1]) BY <3>3, <3>4, <3>6 DEF CallStep
    <3> QED BY <3>4, <3>5, <3>7, <3>8, StepKeeps
  <2>7. T = Nat
    <3>1. T \in SUBSET Nat OBVIOUS
    <3> HIDE DEF T
    <3> QED BY <2>5, <2>6, <3>1, EveryNumber
  <2>8. Good(n)
    <3> HIDE DEF Good
    <3> QED BY <1>1, <2>7
  <2>9. h[n] = run BY <2>4 DEF Calling, run, n
  <2>10. Fits(run.value, calls, said, o + n) BY <2>2, <2>8, <2>9
  <2>11. Fits(CommitConfigTable(run.value), calls, said, o + n) /\ Committed(CommitConfigTable(run.value))
    BY <2>10, CommitKeeps
  <2> QED BY <2>2, <2>11 DEF own
<1> QED BY <1>2, <1>3

LEMMA ResolveDecides ==
  ASSUME NEW w \in Worlds, w.subject = "config", ResolveLayers(w.global, w.plan).code = "ok"
  PROVE  LastCallDecides(AllCalls(w), ResolveLayers(w.global, w.plan).value)
<1> DEFINE global == CallsOf(w.global)
           plan == CallsOf(w.plan)
           D == Range(global) \cup Range(plan)
           calls == AllCalls(w)
           first == RunLayer(Seed, w.global)
<1>1. /\ global \in Seq(Range(global)) /\ plan \in Seq(Range(plan))
      /\ \A c \in D : WellFormed(c)
  BY LayersAssumption DEF WellFormed
<1>2. global \in Seq(D) /\ plan \in Seq(D)
  <2>1. Range(global) \subseteq D /\ Range(plan) \subseteq D OBVIOUS
  <2> HIDE DEF global, plan, D
  <2> QED BY <1>1, <2>1
<1>3. calls = global \o plan BY DEF AllCalls
<1>4. /\ first.code = "ok" /\ RunLayer(first.value, w.plan).code = "ok"
      /\ ResolveLayers(w.global, w.plan) = RunLayer(first.value, w.plan)
  <2>1. ResolveLayers(w.global, w.plan) = Then(first, LAMBDA acc : RunLayer(acc, w.plan)) BY DEF ResolveLayers
  <2> HIDE DEF first
  <2> QED BY <2>1 DEF Then
<1> HIDE DEF first
<1> SUFFICES ASSUME NEW out, out = RunLayer(first.value, w.plan).value PROVE LastCallDecides(calls, out)
    BY <1>4
<1>5. PICK said : Script(calls, said, D)
  <2> HIDE DEF global, plan, D, calls
  <2>1. calls \in Seq(D) BY <1>2, <1>3
  <2>2. Saying(calls) \in Seq(Seq(D)) BY <2>1, RowsTyped DEF Saying
  <2>3. PICK said : Flattened(said, Saying(calls), D) BY <2>2, FlattenChain
  <2>4. Script(calls, said, D) BY <1>1, <2>1, <2>3 DEF Script
  <2> QED BY <2>4
<1> DEFINE m == Len(global)
           n == Len(calls)
<1>6. /\ m \in Nat /\ n = m + Len(plan) /\ Len(plan) \in Nat
      /\ \A i \in 1..m : calls[i] = global[i]
      /\ \A i \in 1..Len(plan) : calls[m + i] = plan[i]
  <2> HIDE DEF D, global, plan, calls
  <2> QED BY <1>2, <1>3
<1>7. Committed(Seed) BY DEF Committed, Seed, Fields
<1>8. Fits(first.value, calls, said, m) /\ Committed(first.value)
  <2>1. Fits(Seed, calls, said, 0) BY <1>5, SeedFits
  <2>2. 0 + m <= n /\ 0 + m = m /\ \A i \in 1..m : calls[0 + i] = global[i] BY <1>6
  <2>3. RunLayer(Seed, w.global).code = "ok" BY <1>4 DEF first
  <2> HIDE DEF D, calls
  <2>4. Fits(first.value, calls, said, 0 + m) /\ Committed(first.value)
    BY <1>2, <1>5, <1>7, <2>1, <2>2, <2>3, LayerKeeps DEF first
  <2> QED BY <2>2, <2>4
<1>9. Fits(out, calls, said, n) /\ Committed(out)
  <2>1. m + Len(plan) <= Len(calls) /\ m \in Nat BY <1>6
  <2> HIDE DEF D, calls
  <2>2. Fits(out, calls, said, m + Len(plan)) /\ Committed(out)
    BY <1>2, <1>4, <1>5, <1>6, <1>8, <2>1, LayerKeeps
  <2> QED BY <1>6, <2>2
<1>10. n \in Nat /\ DOMAIN calls = 1..n BY <1>5 DEF Script
<1>11. Whole(out) /\ TableFits(out, calls, n) /\ SlotsFit(out, calls, n) /\ AppendsFit(out, said, n)
  BY <1>9 DEF Fits
<1> HIDE DEF global, plan, calls, n
<1>12. \A S \in SUBSET (1..n) : Upto(S, n) = S
  <2>1. \A S \in SUBSET (1..n) : \A i \in S : i <= n BY <1>10
  <2> QED BY <2>1, Zenon DEF Upto
<1>13. FieldsDecided(calls, out)
  <2> SUFFICES ASSUME NEW field \in Fields, NEW S, S = About(calls, field)
               PROVE  /\ S = {} => out[field] = Seed[field]
                      /\ S # {} /\ calls[LastIn(S)].value \notin {Unset, "negative"} =>
                           out[field] = calls[LastIn(S)].value
      BY DEF FieldsDecided
  <2>1. S \in SUBSET (1..n) BY <1>10 DEF About
  <2>2. Upto(S, n) = S BY <1>12, <2>1
  <2>3. /\ out.table[field] = Decided(calls, S, n, Seed[field])
        /\ Upto(S, n) = {} => out[field] = Seed[field]
    BY <1>11 DEF TableFits
  <2>4. S # {} => out.table[field] = calls[LastIn(S)].value BY <2>2, <2>3 DEF Decided
  <2> QED BY <1>9, <2>2, <2>3, <2>4 DEF Committed
<1>14. SlotsDecided(calls, out)
  <2> SUFFICES ASSUME OnlySet(calls), NEW slot
               PROVE  LET S == {i \in DOMAIN calls : Aims(calls, i, slot)}
                      IN  SlotOf(out, slot) = IF S = {} THEN SlotOf(Seed, slot) ELSE calls[LastIn(S)].value
      BY DEF SlotsDecided, OnlySet
  <2>1. Aiming(calls, slot) \in SUBSET (1..n) BY <1>10 DEF Aiming
  <2>2. Upto(Aiming(calls, slot), n) = Aiming(calls, slot) BY <1>12, <2>1
  <2>3. SlotOf(out, slot) = Decided(calls, Aiming(calls, slot), n, SlotOf(Seed, slot)) BY <1>11 DEF SlotsFit
  <2> QED BY <2>2, <2>3 DEF Decided, Aiming
<1>15. out.appends = Appends(Said(calls))
  <2>1. Len(Saying(calls)) = n BY <1>5, RowsTyped DEF Script, Saying, n
  <2>2. said[n] = FlattenSeq(Saying(calls)) BY <1>5, <2>1 DEF Script, Flattened
  <2>3. said[n] = Said(calls) BY <2>2 DEF Said, Keep, Saying, Rows
  <2> QED BY <1>11, <2>3 DEF AppendsFit
<1> QED BY <1>13, <1>14, <1>15 DEF LastCallDecides

\* The directory that is named is the one used.
LEMMA DirIsTheNamed ==
  ASSUME NEW w, ResolveConfigDir(w).code = "ok"
  PROVE  ResolveConfigDir(w).value =
           IF w.flag # Unset THEN w.flag ELSE IF w.env # Unset THEN w.env ELSE w.xdg
<1>1. SelectConfigDir(w).code = "ok" =>
        SelectConfigDir(w).value = IF w.flag # Unset THEN w.flag ELSE IF w.env # Unset THEN w.env ELSE w.xdg
  BY DEF SelectConfigDir, Ok, Error
<1> DEFINE selected == SelectConfigDir(w)
<1>2. ResolveConfigDir(w) = Then(selected, LAMBDA p : IF p \in {"context", "other"} THEN Ok(p) ELSE Error("NotFound"))
  BY DEF ResolveConfigDir
<1>3. selected.code = "ok" /\ ResolveConfigDir(w).value = selected.value
  <2> HIDE DEF selected
  <2> QED BY <1>2 DEF Then, Ok, Error
<1> QED BY <1>1, <1>3

-----------------------------------------------------------------------------
(* What an agent is started with and told.                                 *)

StartVerbs == {"config-dir", "resolve", "list-fixed", "snapshot", "warning", "stamp"}

LEMMA OthersStartNothing ==
  ASSUME query'.verb \notin StartVerbs
  PROVE  SessionsStartRight'
BY DEF SessionsStartRight, ConfigLayersApply, MemoryIsShown, WorkIsSeen, StampsAreDates, Answered, StartVerbs

LEMMA SessionsStarted == Placed /\ SessionsStartRight /\ [InspectionNext]_query_vars => SessionsStartRight'
<1> SUFFICES ASSUME Placed, SessionsStartRight, [InspectionNext]_query_vars PROVE SessionsStartRight'
    OBVIOUS
<1> USE DEF SessionsStartRight, ConfigLayersApply, MemoryIsShown, WorkIsSeen, StampsAreDates, Answered
<1>1. CASE UNCHANGED query_vars BY <1>1 DEF query_vars
<1>2. CASE AskDir
  <2>1. /\ world' = world /\ query'.verb = "config-dir" /\ answer' = ResolveConfigDir(world)
    BY <1>2 DEF AskDir, Ask
  <2> QED BY <2>1, DirIsTheNamed
<1>3. CASE AskResolve
  <2>1. /\ world' = world /\ world.subject = "config" /\ query'.verb = "resolve"
        /\ answer' = ResolveLayers(world.global, world.plan)
    BY <1>3 DEF AskResolve, Ask
  <2>2. ASSUME answer'.code = "ok" PROVE LastCallDecides(AllCalls(world), answer'.value)
    BY <2>1, <2>2, ResolveDecides DEF Placed
  <2> QED BY <2>1, <2>2
<1>4. CASE AskMemoryList
  <2>1. /\ world' = world /\ world.subject = "fixed-memory" /\ query'.verb = "list-fixed"
        /\ answer'.value = RenderList(world)
    BY <1>4 DEF AskMemoryList, Ask, Ok
  <2>2. ShowsWhatIsListed(world, RenderList(world)) BY <2>1, TextsAssumption, ListedIsShown DEF Placed
  <2> QED BY <2>1, <2>2
<1>5. CASE Ask("work-tree", [verb |-> "snapshot"], WorkTreeSnapshot(world))
  <2>1. /\ world' = world /\ query'.verb = "snapshot" /\ answer' = WorkTreeSnapshot(world) BY <1>5 DEF Ask
  <2>2. ASSUME world.git = "ok", world.baseline = "ok" PROVE ShowsEveryChange(world, answer'.value)
    BY <2>1, <2>2, ChangesAreShown
  <2> QED BY <2>1, <2>2
<1>6. CASE Ask("work-tree", [verb |-> "warning"], WarnIfProjectTreeDirty(world))
  <2>1. /\ world' = world /\ world.subject = "work-tree" /\ query'.verb = "warning"
        /\ answer' = WarnIfProjectTreeDirty(world)
    BY <1>6 DEF Ask
  <2>2. ASSUME world.git = "ok" PROVE WarnsOfTheUncommitted(world, answer'.value)
    BY <2>1, <2>2, RunnerAssumption, UncommittedIsWarned DEF Placed
  <2> QED BY <2>1, <2>2
<1>7. CASE Ask("clock", [verb |-> "stamp"], Ok(FormatUnixUtc(world.days, world.secs)))
  <2>1. /\ world' = world /\ world.subject = "clock" /\ query'.verb = "stamp"
        /\ answer'.value = FormatUnixUtc(world.days, world.secs)
    BY <1>7 DEF Ask, Ok
  <2>2. IsDate(answer'.value, world.days) /\ IsTime(answer'.value, world.secs)
    BY <2>1, RunnerAssumption, StampIs DEF Placed
  <2> QED BY <2>1, <2>2
<1>8. CASE RunnerNext BY <1>5, <1>6, <1>7, <1>8 DEF RunnerNext
<1>9. CASE ConfigNext
  <2>1. AskRun \/ AskOneShot => query'.verb \notin StartVerbs BY DEF AskRun, AskOneShot, Ask, StartVerbs
  <2> QED BY <1>2, <1>3, <1>9, <2>1, OthersStartNothing DEF ConfigNext
<1>10. CASE PromptNext
  <2>1. AskPrompt \/ AskMemoryShow => query'.verb \notin StartVerbs BY DEF AskPrompt, AskMemoryShow, Ask, StartVerbs
  <2> QED BY <1>4, <1>10, <2>1, OthersStartNothing DEF PromptNext
<1>11. CASE PlanNext
  <2>1. query'.verb \notin StartVerbs BY <1>11, PlanAsked DEF PlanVerbs, StartVerbs
  <2> QED BY <2>1, OthersStartNothing
<1>12. CASE ListingNext
  <2>1. query'.verb \notin StartVerbs BY <1>12, ListingAsked DEF ListingVerbs, StartVerbs
  <2> QED BY <2>1, OthersStartNothing
<1>13. CASE CommandNext
  <2>1. query'.verb \notin StartVerbs BY <1>13, CommandAsked DEF CommandVerbs, StartVerbs
  <2> QED BY <2>1, OthersStartNothing
<1>14. CASE Elsewhere
  <2>1. query'.verb \notin StartVerbs
    BY <1>14, ElsewhereAsked DEF OwnVerbs, PromptVerbs, ConfigVerbs, RunnerVerbs, StartVerbs
  <2> QED BY <2>1, OthersStartNothing
<1> QED BY <1>1, <1>8, <1>9, <1>10, <1>11, <1>12, <1>13, <1>14 DEF InspectionNext

LEMMA NoneStarted == QueryInit => Placed /\ SessionsStartRight
BY DEF QueryInit, Placed, SessionsStartRight, ConfigLayersApply, MemoryIsShown, WorkIsSeen, StampsAreDates,
       Answered, Waiting

\* Of all the calls of the configuration, in layers of any length, the last one
\* about a thing decides; the reference texts that are listed are shown whole;
\* no change of the work tree is hidden; and a stamp is the date and the time,
\* in every year from 1970 on (config_lua.rs, config.rs, fixed_memory.rs,
\* git.rs, debug_log.rs).
THEOREM SessionsAreStartedRight == InspectionSpec => []SessionsStartRight
<1>1. QueryInit => Placed /\ SessionsStartRight BY NoneStarted
<1>2. Placed /\ SessionsStartRight /\ [InspectionNext]_query_vars => (Placed /\ SessionsStartRight)'
  BY PlacedKept, SessionsStarted
<1> QED BY <1>1, <1>2, PTL DEF InspectionSpec
=============================================================================
