----------------------------- MODULE ListFacts -----------------------------
(***************************************************************************)
(* Facts about lists that name each of their elements once (the eviction   *)
(* orders, the remembered identities and the images of the planning        *)
(* history are such lists), and about finite sets under a strict order,    *)
(* which rank their elements.                                              *)
(***************************************************************************)
EXTENDS SequenceTheorems, FiniteSetTheorems, WellFoundedInduction, TLAPS

\* No element occurs at two places of s.
ListsOnce(s) == \A i, j \in 1..Len(s) : s[i] = s[j] => i = j

\* What s lists.
Listed(s) == {s[i] : i \in 1..Len(s)}

\* A sequence without repetitions lists as many elements as it is long.
LEMMA ListedCardinality ==
    ASSUME NEW S, NEW s \in Seq(S), ListsOnce(s)
    PROVE  /\ IsFiniteSet(Listed(s))
           /\ Cardinality(Listed(s)) = Len(s)
    <1> DEFINE f == [i \in 1..Len(s) |-> s[i]]
    <1>1. Len(s) \in Nat
        OBVIOUS
    <1>2. f \in [1..Len(s) -> Listed(s)]
        BY DEF Listed
    <1>3. \A x \in Listed(s) : \E i \in 1..Len(s) : f[i] = x
        BY DEF Listed
    <1>4. \A i, j \in 1..Len(s) : f[i] = f[j] => i = j
        BY DEF ListsOnce
    <1>5. f \in Bijection(1..Len(s), Listed(s))
        BY <1>2, <1>3, <1>4 DEF Bijection, Injection, Surjection, IsInjective
    <1>6. ExistsBijection(1..Len(s), Listed(s))
        BY <1>5 DEF ExistsBijection
    <1> QED
        BY <1>1, <1>6, FS_CountingElements, FS_NatBijection

\* And a sequence that lists as many elements as it is long repeats none.
LEMMA ListsOnceByCardinality ==
    ASSUME NEW S, NEW s \in Seq(S), Cardinality(Listed(s)) = Len(s)
    PROVE  ListsOnce(s)
    <1> DEFINE f == [i \in 1..Len(s) |-> s[i]]
    <1>1. Len(s) \in Nat
        OBVIOUS
    <1>2. f \in Surjection(1..Len(s), Listed(s))
        BY DEF Listed, Surjection
    <1>3. IsFiniteSet(1..Len(s)) /\ Cardinality(1..Len(s)) = Len(s)
        <2> DEFINE n == Len(s)
        <2>1. 1 \in Int /\ n \in Int /\ n \in Nat
            BY <1>1
        <2> HIDE DEF n
        <2>2. /\ IsFiniteSet(1..n)
              /\ Cardinality(1..n) = IF 1 > n THEN 0 ELSE n - 1 + 1
            BY <2>1, FS_Interval
        <2>3. Cardinality(1..n) = n
            BY <2>1, <2>2
        <2> QED
            BY <2>2, <2>3 DEF n
    <1>4. f \in Injection(1..Len(s), Listed(s))
        <2> HIDE DEF f
        <2> QED
            BY <1>2, <1>3, FS_SurjSameCardinalityImpliesInj
    <1>5. \A i, j \in 1..Len(s) : f[i] = f[j] => i = j
        <2> HIDE DEF f
        <2> QED
            BY <1>4 DEF Injection, IsInjective
    <1> QED
        BY <1>5 DEF ListsOnce

\* Dropping the oldest k elements and appending a new one keeps a sequence
\* free of repetitions, and drops exactly the first k elements.
LEMMA DropAndAppend ==
    ASSUME NEW S, NEW s \in Seq(S), ListsOnce(s), NEW k \in 0..Len(s),
           NEW x \in S, x \notin Listed(s)
    PROVE  LET t == Append(SubSeq(s, k + 1, Len(s)), x)
           IN  /\ t \in Seq(S)
               /\ Len(t) = Len(s) - k + 1
               /\ ListsOnce(t)
               /\ Listed(t) = (Listed(s) \ {s[i] : i \in 1..k}) \cup {x}
    <1> DEFINE n == Len(s) - k
               r == SubSeq(s, k + 1, Len(s))
               t == Append(r, x)
    <1>1. /\ Len(s) \in Nat /\ k \in Nat /\ n \in Nat /\ Len(s) = k + n
          /\ \A i \in 1..n : k + i \in 1..Len(s) /\ k + i \notin 1..k
          /\ \A i \in 1..(n + 1) : i \in 1..n \/ i = n + 1
        OBVIOUS
    <1>2. \A i \in k + 1 .. Len(s) : s[i] \in S
        BY <1>1
    <1>3. /\ r \in Seq(S) /\ Len(r) = n
          /\ \A i \in 1..n : r[i] = s[k + i]
        <2>1. /\ r \in Seq(S)
              /\ Len(r) = IF k + 1 <= Len(s) THEN Len(s) - (k + 1) + 1 ELSE 0
              /\ \A i \in 1 .. Len(s) - (k + 1) + 1 : r[i] = s[(k + 1) + i - 1]
            BY <1>1, <1>2, SubSeqProperties
        <2> HIDE DEF r, n
        <2>2. Len(s) - (k + 1) + 1 = n /\ (k + 1 <= Len(s) \/ n = 0)
            BY <1>1
        <2>3. \A i \in 1..n : (k + 1) + i - 1 = k + i
            BY <1>1
        <2> QED
            BY <1>1, <2>1, <2>2, <2>3
    <1> HIDE DEF r, n
    <1>4. /\ t \in Seq(S) /\ Len(t) = n + 1
          /\ \A i \in 1..n : t[i] = s[k + i]
          /\ t[n + 1] = x
        <2>1. /\ Append(r, x) \in Seq(S)
              /\ Len(Append(r, x)) = Len(r) + 1
              /\ \A i \in 1 .. Len(r) : Append(r, x)[i] = r[i]
              /\ Append(r, x)[Len(r) + 1] = x
            BY <1>3, AppendProperties
        <2> QED
            BY <1>1, <1>3, <2>1
    <1> HIDE DEF t
    <1>5. ListsOnce(t)
        <2> SUFFICES ASSUME NEW i \in 1..(n + 1), NEW j \in 1..(n + 1), t[i] = t[j]
                     PROVE  i = j
            BY <1>4 DEF ListsOnce
        <2>1. \A m \in 1..n : t[m] \in Listed(s)
            BY <1>1, <1>4 DEF Listed
        <2>2. CASE i = n + 1 \/ j = n + 1
            BY <1>1, <1>4, <2>1, <2>2
        <2>3. CASE i \in 1..n /\ j \in 1..n
            <3>1. s[k + i] = s[k + j]
                BY <1>4, <2>3
            <3>2. k + i = k + j
                BY <1>1, <2>3, <3>1 DEF ListsOnce
            <3> QED
                BY <1>1, <2>3, <3>2
        <2> QED
            BY <1>1, <2>2, <2>3
    <1>6. ASSUME NEW y \in Listed(t)
          PROVE  y \in (Listed(s) \ {s[i] : i \in 1..k}) \cup {x}
        <2>1. PICK i \in 1..(n + 1) : y = t[i]
            BY <1>4 DEF Listed
        <2>2. CASE i = n + 1
            BY <1>4, <2>1, <2>2
        <2>3. CASE i \in 1..n
            <3>1. y = s[k + i] /\ k + i \in 1..Len(s) /\ k + i \notin 1..k
                BY <1>1, <1>4, <2>1, <2>3
            <3>2. \A j \in 1..k : s[j] # s[k + i]
                BY <1>1, <3>1 DEF ListsOnce
            <3> QED
                BY <3>1, <3>2 DEF Listed
        <2> QED
            BY <1>1, <2>2, <2>3
    <1>7. ASSUME NEW y \in (Listed(s) \ {s[i] : i \in 1..k}) \cup {x}
          PROVE  y \in Listed(t)
        <2>1. CASE y = x
            BY <1>1, <1>4, <2>1 DEF Listed
        <2>2. CASE y \in Listed(s) /\ y \notin {s[i] : i \in 1..k}
            <3>1. PICK i \in 1..Len(s) : y = s[i]
                BY <2>2 DEF Listed
            <3>2. i - k \in 1..n /\ i - k \in 1..(n + 1) /\ i = k + (i - k)
                BY <1>1, <2>2, <3>1
            <3>3. t[i - k] = y
                BY <1>4, <3>1, <3>2
            <3> QED
                BY <1>4, <3>2, <3>3 DEF Listed
        <2> QED
            BY <2>1, <2>2
    <1>8. Listed(t) = (Listed(s) \ {s[i] : i \in 1..k}) \cup {x}
        BY <1>6, <1>7
    <1> QED
        BY <1>1, <1>4, <1>5, <1>8 DEF t, r, n

----------------------------------------------------------------------------
(* Ends of lists.                                                          *)

\* s is the last part of t.
EndsWith(t, s) ==
    /\ Len(s) <= Len(t)
    /\ \A i \in 1..Len(s) : s[i] = t[Len(t) - Len(s) + i]

\* A list ends with itself and with the empty list.
LEMMA EndsWithSelf ==
    ASSUME NEW S, NEW t \in Seq(S)
    PROVE  EndsWith(t, t) /\ EndsWith(t, <<>>)
    BY DEF EndsWith

\* What a list ends with is listed by it.
LEMMA EndsWithListed ==
    ASSUME NEW S, NEW s \in Seq(S), NEW t \in Seq(S), EndsWith(t, s)
    PROVE  Listed(s) \subseteq Listed(t)
    <1>1. \A i \in 1..Len(s) : Len(t) - Len(s) + i \in 1..Len(t)
        BY DEF EndsWith
    <1> QED
        BY <1>1 DEF EndsWith, Listed

\* The end of a list without repetitions repeats nothing either.
LEMMA EndsWithListsOnce ==
    ASSUME NEW S, NEW s \in Seq(S), NEW t \in Seq(S), EndsWith(t, s), ListsOnce(t)
    PROVE  ListsOnce(s)
    <1>1. Len(s) \in Nat /\ Len(t) \in Nat
        OBVIOUS
    <1> SUFFICES ASSUME NEW i \in 1..Len(s), NEW j \in 1..Len(s), s[i] = s[j]
                 PROVE  i = j
        BY DEF ListsOnce
    <1>2. /\ Len(t) - Len(s) + i \in 1..Len(t) /\ Len(t) - Len(s) + j \in 1..Len(t)
          /\ t[Len(t) - Len(s) + i] = t[Len(t) - Len(s) + j]
        BY <1>1 DEF EndsWith
    <1>3. Len(t) - Len(s) + i = Len(t) - Len(s) + j
        BY <1>2 DEF ListsOnce
    <1> QED
        BY <1>1, <1>3

\* Appending to both keeps the relation.
LEMMA EndsWithAppend ==
    ASSUME NEW S, NEW s \in Seq(S), NEW t \in Seq(S), NEW x \in S, EndsWith(t, s)
    PROVE  EndsWith(Append(t, x), Append(s, x))
    <1> DEFINE m == Len(s)
               n == Len(t)
               u == Append(s, x)
               v == Append(t, x)
    <1>1. m \in Nat /\ n \in Nat /\ m <= n /\ \A i \in 1..m : s[i] = t[n - m + i]
        BY DEF EndsWith
    <1>2. /\ Len(u) = m + 1 /\ \A i \in 1..m : u[i] = s[i]
          /\ u[m + 1] = x
          /\ Len(v) = n + 1 /\ \A i \in 1..n : v[i] = t[i]
          /\ v[n + 1] = x
        BY AppendProperties
    <1> HIDE DEF m, n, u, v
    <1>3. ASSUME NEW i \in 1..(m + 1)
          PROVE  u[i] = v[(n + 1) - (m + 1) + i]
        <2>1. CASE i = m + 1
            <3>1. (n + 1) - (m + 1) + i = n + 1
                BY <1>1, <2>1
            <3> QED
                BY <1>2, <2>1, <3>1
        <2>2. CASE i \in 1..m
            <3>1. (n + 1) - (m + 1) + i = n - m + i /\ n - m + i \in 1..n
                BY <1>1, <2>2
            <3> QED
                BY <1>1, <1>2, <2>2, <3>1
        <2>3. i = m + 1 \/ i \in 1..m
            BY <1>1
        <2> QED
            BY <2>1, <2>2, <2>3
    <1>4. m + 1 <= n + 1
        BY <1>1
    <1>5. EndsWith(v, u)
        BY <1>2, <1>3, <1>4 DEF EndsWith
    <1> QED
        BY <1>5 DEF u, v

\* Dropping the oldest elements of the end leaves an end.
LEMMA EndsWithDrop ==
    ASSUME NEW S, NEW s \in Seq(S), NEW t \in Seq(S), EndsWith(t, s),
           NEW k \in 0..Len(s)
    PROVE  /\ SubSeq(s, k + 1, Len(s)) \in Seq(S)
           /\ Len(SubSeq(s, k + 1, Len(s))) = Len(s) - k
           /\ EndsWith(t, SubSeq(s, k + 1, Len(s)))
    <1> DEFINE m == Len(s)
               n == Len(t)
               u == SubSeq(s, k + 1, m)
    <1>1. /\ m \in Nat /\ n \in Nat /\ m <= n /\ k \in Nat /\ k <= m
          /\ \A i \in 1..m : s[i] = t[n - m + i]
        BY DEF EndsWith
    <1>2. \A i \in k + 1 .. m : s[i] \in S
        BY <1>1
    <1> HIDE DEF m, n
    <1>3. /\ u \in Seq(S)
          /\ Len(u) = IF k + 1 <= m THEN m - (k + 1) + 1 ELSE 0
          /\ \A i \in 1 .. m - (k + 1) + 1 : u[i] = s[(k + 1) + i - 1]
        BY <1>1, <1>2, SubSeqProperties
    <1> HIDE DEF u
    <1>4. m - (k + 1) + 1 = m - k /\ (k + 1 <= m \/ m - k = 0)
        BY <1>1
    <1>5. Len(u) = m - k
        BY <1>3, <1>4
    <1>6. ASSUME NEW i \in 1..(m - k)
          PROVE  u[i] = t[n - (m - k) + i]
        <2>1. (k + 1) + i - 1 = k + i /\ k + i \in 1..m
            BY <1>1
        <2>2. n - m + (k + i) = n - (m - k) + i
            BY <1>1
        <2> QED
            BY <1>1, <1>3, <1>4, <2>1, <2>2
    <1>7. EndsWith(t, u)
        BY <1>1, <1>5, <1>6 DEF EndsWith, n
    <1> QED
        BY <1>3, <1>5, <1>7 DEF u, m
\* An end of an end is an end.
LEMMA EndsWithTransitive ==
    ASSUME NEW S, NEW s \in Seq(S), NEW t \in Seq(S), NEW u \in Seq(S),
           EndsWith(u, t), EndsWith(t, s)
    PROVE  EndsWith(u, s)
    <1> DEFINE l == Len(s)
               m == Len(t)
               n == Len(u)
    <1>1. /\ l \in Nat /\ m \in Nat /\ n \in Nat /\ l <= m /\ m <= n
          /\ \A i \in 1..l : s[i] = t[m - l + i]
          /\ \A i \in 1..m : t[i] = u[n - m + i]
        BY DEF EndsWith
    <1> HIDE DEF l, m, n
    <1>2. ASSUME NEW i \in 1..l
          PROVE  s[i] = u[n - l + i]
        <2>1. m - l + i \in 1..m /\ n - m + (m - l + i) = n - l + i
            BY <1>1
        <2> QED
            BY <1>1, <2>1
    <1>3. l <= n
        BY <1>1
    <1> QED
        BY <1>2, <1>3 DEF EndsWith, l, n

\* Appending something new keeps a list free of repetitions.
LEMMA ListsOnceAppend ==
    ASSUME NEW S, NEW s \in Seq(S), ListsOnce(s), NEW x \in S, x \notin Listed(s)
    PROVE  ListsOnce(Append(s, x))
    <1> DEFINE n == Len(s)
               t == Append(s, x)
    <1>1. n \in Nat /\ (\A i \in 1..n : s[i] # x)
          /\ \A i, j \in 1..n : s[i] = s[j] => i = j
        BY DEF ListsOnce, Listed
    <1>2. Len(t) = n + 1 /\ (\A i \in 1..n : t[i] = s[i]) /\ t[n + 1] = x
        BY AppendProperties
    <1> HIDE DEF n, t
    <1>3. ASSUME NEW i \in 1..(n + 1), NEW j \in 1..(n + 1), t[i] = t[j]
          PROVE  i = j
        <2>1. (i \in 1..n \/ i = n + 1) /\ (j \in 1..n \/ j = n + 1)
            BY <1>1
        <2> QED
            BY <1>1, <1>2, <1>3, <2>1
    <1>4. ListsOnce(t)
        BY <1>2, <1>3 DEF ListsOnce
    <1> QED
        BY <1>4 DEF t

\* The rest of an end is an end.
LEMMA EndsWithTail ==
    ASSUME NEW S, NEW s \in Seq(S), NEW t \in Seq(S), EndsWith(t, s), s # <<>>
    PROVE  /\ Tail(s) \in Seq(S) /\ Len(Tail(s)) = Len(s) - 1
           /\ EndsWith(t, Tail(s))
           /\ Len(s) \in 1..Len(t) /\ Head(s) = t[Len(t) - Len(s) + 1]
    <1> DEFINE m == Len(s)
               n == Len(t)
               u == Tail(s)
    <1>1. /\ m \in Nat /\ n \in Nat /\ m <= n /\ m # 0
          /\ \A i \in 1..m : s[i] = t[n - m + i]
        BY EmptySeq DEF EndsWith
    <1>2. /\ u \in Seq(S) /\ Len(u) = m - 1 /\ \A i \in 1..(m - 1) : u[i] = s[i + 1]
          /\ Head(s) = s[1]
        BY HeadTailProperties
    <1> HIDE DEF m, n, u
    <1>3. ASSUME NEW i \in 1..(m - 1)
          PROVE  u[i] = t[n - (m - 1) + i]
        <2>1. i + 1 \in 1..m /\ n - m + (i + 1) = n - (m - 1) + i
            BY <1>1
        <2> QED
            BY <1>1, <1>2, <2>1
    <1>4. m - 1 <= n /\ 1 \in 1..m /\ m \in 1..n
        BY <1>1
    <1>5. EndsWith(t, u)
        BY <1>2, <1>3, <1>4 DEF EndsWith, n
    <1> QED
        BY <1>1, <1>2, <1>4, <1>5 DEF m, n, u

-----------------------------------------------------------------------------
(* Induction and recursion without operator parameters: a set stands for   *)
(* the predicate, a function for the step.                                 *)

\* A set of indices that holds 0 and every successor up to n holds them all.
LEMMA IndexInduction ==
    ASSUME NEW n \in Nat, NEW I, 0 \in I, \A i \in 1..n : i - 1 \in I => i \in I
    PROVE  \A i \in 0..n : i \in I
    <1> SUFFICES ASSUME \E i \in 0..n : i \notin I
                 PROVE  FALSE
        OBVIOUS
    <1> DEFINE R == OpToRel(<, Nat)
               Bad == {i \in 0..n : i \notin I}
    <1>1. Bad \subseteq Nat /\ Bad # {}
        OBVIOUS
    <1>2. PICK s \in Bad : \A u \in Bad : ~(<<u, s>> \in R)
        <2> HIDE DEF Bad
        <2> QED
            BY <1>1, NatLessThanWellFounded, WFMin
    <1>3. \A u \in Nat : u < s => <<u, s>> \in R
        BY <1>1 DEF OpToRel
    <1>4. s # 0 /\ s \in 1..n /\ s - 1 \in 0..n /\ s - 1 < s
        OBVIOUS
    <1>5. s - 1 \notin Bad
        <2>1. s - 1 \in Nat /\ s - 1 < s
            BY <1>4
        <2> HIDE DEF R, Bad
        <2>2. <<s - 1, s>> \in R
            BY <1>3, <2>1
        <2> QED
            BY <1>2, <2>2, Zenon
    <1> QED
        BY <1>4, <1>5

\* mx picks the largest index of every set of indices up to n.
PicksLargest(mx, n) ==
  \A s \in SUBSET (1..n) : s # {} => mx[s] \in s /\ \A y \in s : y <= mx[s]

\* F solves the recursion behind a fold: a set of indices is given the value that
\* its largest index makes of the value of the others.
SolvesFold(F, n, T, base, g, mx) ==
  /\ F \in [SUBSET (1..n) -> T]
  /\ F[{}] = base
  /\ \A s \in SUBSET (1..n) : s # {} => F[s] = g[<<F[s \ {mx[s]}], mx[s]>>]

LEMMA FoldExists ==
    ASSUME NEW n \in Nat, NEW T, NEW base \in T, NEW g \in [T \X (1..n) -> T],
           NEW mx, PicksLargest(mx, n)
    PROVE  \E F : SolvesFold(F, n, T, base, g, mx)
    <1>0. \A s \in SUBSET (1..n) : s # {} => mx[s] \in s /\ \A y \in s : y <= mx[s]
        BY DEF PicksLargest
    <1> DEFINE Good(m, F) ==
                 /\ F[{}] = base
                 /\ \A s \in SUBSET (1..m) : s # {} => F[s] = g[<<F[s \ {mx[s]}], mx[s]>>]
               I == {m \in 0..n : \E F \in [SUBSET (1..m) -> T] : Good(m, F)}
    <1>1. 0 \in I
        <2> DEFINE F == [s \in SUBSET (1..0) |-> base]
        <2>1. F \in [SUBSET (1..0) -> T] /\ F[{}] = base /\ \A s \in SUBSET (1..0) : s = {}
            OBVIOUS
        <2> HIDE DEF F
        <2>2. Good(0, F)
            BY <2>1
        <2>3. 0 \in 0..n
            OBVIOUS
        <2> HIDE DEF Good
        <2> QED
            BY <2>1, <2>2, <2>3
    <1>2. ASSUME NEW k \in 1..n, k - 1 \in I
          PROVE  k \in I
        <2> DEFINE m == k - 1
        <2>1. PICK F \in [SUBSET (1..m) -> T] : Good(m, F)
            BY <1>2
        <2> DEFINE G == [s \in SUBSET (1..k) |->
                           IF k \in s THEN g[<<F[s \ {k}], k>>] ELSE F[s]]
        <2>2. \A s \in SUBSET (1..k) : /\ k \in s => s \ {k} \in SUBSET (1..m)
                                       /\ k \notin s => s \in SUBSET (1..m)
                                       /\ s \in SUBSET (1..n)
                                       /\ s \ {mx[s]} \in SUBSET (1..k)
            <3>1. \A i \in 1..k : i \in 1..n /\ (i # k => i \in 1..m)
                OBVIOUS
            <3> HIDE DEF m
            <3> QED
                BY <3>1, Zenon
        <2>3. G \in [SUBSET (1..k) -> T]
            <3>1. \A s \in SUBSET (1..k) : k \in s => g[<<F[s \ {k}], k>>] \in T
                BY <2>1, <2>2
            <3>2. \A s \in SUBSET (1..k) : k \notin s => F[s] \in T
                BY <2>1, <2>2
            <3> QED
                BY <3>1, <3>2
        <2>4. G[{}] = base
            BY <2>1
        <2>5. ASSUME NEW s \in SUBSET (1..k), s # {}
              PROVE  G[s] = g[<<G[s \ {mx[s]}], mx[s]>>]
            <3>1. mx[s] \in s /\ \A y \in s : y <= mx[s]
                BY <1>0, <2>2, <2>5
            <3>2. CASE k \in s
                <4>1. mx[s] = k
                    BY <3>1, <3>2
                <4>2. G[s \ {k}] = F[s \ {k}]
                    BY <2>2
                <4> QED
                    BY <3>2, <4>1, <4>2
            <3>3. CASE k \notin s
                <4>1. s \in SUBSET (1..m) /\ s \ {mx[s]} \in SUBSET (1..m)
                    BY <2>2, <3>3
                <4>2. k \notin s \ {mx[s]} /\ s \ {mx[s]} \in SUBSET (1..k)
                    BY <2>2, <3>3
                <4>3. G[s] = F[s] /\ G[s \ {mx[s]}] = F[s \ {mx[s]}]
                    BY <3>3, <4>2
                <4>4. F[s] = g[<<F[s \ {mx[s]}], mx[s]>>]
                    BY <2>1, <2>5, <4>1
                <4> QED
                    BY <4>3, <4>4
            <3> QED
                BY <3>2, <3>3
        <2>6. Good(k, G)
            <3> HIDE DEF G
            <3> QED
                BY <2>4, <2>5
        <2> HIDE DEF G, Good
        <2> QED
            BY <2>3, <2>6
    <1>3. n \in I
        <2>1. \A k \in 1..n : k - 1 \in I => k \in I
            BY <1>2
        <2> HIDE DEF I
        <2>2. \A i \in 0..n : i \in I
            BY <1>1, <2>1, IndexInduction
        <2> QED
            BY <2>2
    <1>4. PICK F \in [SUBSET (1..n) -> T] : Good(n, F)
        BY <1>3
    <1> QED
        BY <1>4 DEF SolvesFold

-----------------------------------------------------------------------------
(* Strict total orders on finite sets.                                     *)

StrictOrder(R, S) ==
  /\ \A x \in S : <<x, x>> \notin R
  /\ \A x, y, z \in S : <<x, y>> \in R /\ <<y, z>> \in R => <<x, z>> \in R
  /\ \A x, y \in S : x # y => <<x, y>> \in R \/ <<y, x>> \in R

\* A finite set that is not empty has a least element.
LEMMA LeastExists ==
    ASSUME NEW S, IsFiniteSet(S), S # {}, NEW R, StrictOrder(R, S)
    PROVE  \E x \in S : \A y \in S \ {x} : <<x, y>> \in R
    <1> DEFINE Least(T) == \E x \in T : \A y \in T \ {x} : <<x, y>> \in R
               Q == StrictSubsetOrdering(S)
               Fin == FiniteSubsetsOf(S)
               Bad == {T \in Fin : T # {} /\ ~Least(T)}
    <1>1. \A x, y, z \in S : /\ <<x, y>> \in R /\ <<y, z>> \in R => <<x, z>> \in R
                             /\ x # y => <<x, y>> \in R \/ <<y, x>> \in R
        BY DEF StrictOrder
    <1>2. S \in Fin
        BY DEF FiniteSubsetsOf
    <1> SUFFICES ASSUME Bad # {}
                 PROVE  FALSE
        BY <1>2
    <1>3. IsWellFoundedOn(Q, Fin)
        BY FS_StrictSubsetOrderingWellFounded
    <1>4. PICK T \in Bad : \A U \in Bad : ~(<<U, T>> \in Q)
        <2>1. Bad \subseteq Fin
            OBVIOUS
        <2> HIDE DEF Bad, Q, Fin
        <2> QED
            BY <1>3, <2>1, WFMin
    <1>5. T \in SUBSET S /\ IsFiniteSet(T) /\ T # {} /\ ~Least(T)
        BY DEF FiniteSubsetsOf
    <1>6. PICK x \in T : TRUE
        BY <1>5
    <1> DEFINE U == T \ {x}
    <1>7. U \in SUBSET S /\ U # T /\ U \subseteq T /\ IsFiniteSet(U)
        BY <1>5, <1>6, FS_RemoveElement
    <1>8. <<U, T>> \in Q
        <2> HIDE DEF U
        <2> QED
            BY <1>5, <1>7 DEF StrictSubsetOrdering
    <1>9. U = {} \/ Least(U)
        <2>1. U \in Fin
            BY <1>7 DEF FiniteSubsetsOf
        <2>2. U \notin Bad
            BY <1>4, <1>8
        <2> HIDE DEF U, Least, Fin
        <2> QED
            BY <2>1, <2>2
    <1>10. CASE U = {}
        <2>1. \A y \in T \ {x} : <<x, y>> \in R
            BY <1>10
        <2> QED
            BY <1>5, <1>6, <2>1
    <1>11. CASE Least(U)
        <2>1. PICK u \in U : \A y \in U \ {u} : <<u, y>> \in R
            BY <1>11
        <2>2. u \in S /\ x \in S /\ u # x /\ u \in T
            BY <1>5, <1>6, <2>1
        <2>3. CASE <<u, x>> \in R
            <3>1. \A y \in T \ {u} : <<u, y>> \in R
                BY <2>1, <2>3
            <3> QED
                BY <1>5, <2>2, <3>1
        <2>4. CASE <<x, u>> \in R
            <3>1. \A y \in T \ {x} : <<x, y>> \in R
                BY <1>1, <1>5, <1>6, <2>1, <2>2, <2>4
            <3> QED
                BY <1>5, <1>6, <3>1
        <2> QED
            BY <1>1, <2>2, <2>3, <2>4
    <1> QED
        BY <1>9, <1>10, <1>11

\* What lies below x.
Smaller(S, R, x) == {y \in S : <<y, x>> \in R}

\* Every position of a finite set, counted by what lies below, is taken.
LEMMA RankExists ==
    ASSUME NEW S, IsFiniteSet(S), NEW R, StrictOrder(R, S), NEW i \in 1..Cardinality(S)
    PROVE  \E x \in S : Cardinality(Smaller(S, R, x)) = i - 1
    <1> DEFINE n == Cardinality(S)
               Below(x) == {y \in S : <<y, x>> \in R}
               rank == [x \in S |-> Cardinality(Below(x))]
               P == 0..(n - 1)
    <1>1. n \in Nat
        BY FS_CardinalityType
    <1>2. \A x \in S : <<x, x>> \notin R
        BY DEF StrictOrder
    <1>3. \A x, y, z \in S : <<x, y>> \in R /\ <<y, z>> \in R => <<x, z>> \in R
        BY DEF StrictOrder
    <1>4. \A x, y \in S : x # y => <<x, y>> \in R \/ <<y, x>> \in R
        BY DEF StrictOrder
    <1>5. \A x \in S : Below(x) \in SUBSET S
        OBVIOUS
    <1>6. ASSUME NEW x \in S
          PROVE  IsFiniteSet(Below(x)) /\ Cardinality(Below(x)) \in P
        <2>1. Below(x) \in SUBSET S /\ x \notin Below(x)
            BY <1>2
        <2>2. Below(x) # S
            BY <2>1
        <2> HIDE DEF Below
        <2>3. IsFiniteSet(Below(x)) /\ Cardinality(Below(x)) <= n /\ Cardinality(Below(x)) # n
            BY <2>1, <2>2, FS_Subset
        <2>4. Cardinality(Below(x)) \in Nat
            BY <2>3, FS_CardinalityType
        <2> HIDE DEF n
        <2> QED
            BY <1>1, <2>3, <2>4
    <1>7. ASSUME NEW x \in S, NEW y \in S, <<x, y>> \in R
          PROVE  Cardinality(Below(x)) < Cardinality(Below(y))
        <2>1. Below(x) \in SUBSET Below(y) /\ Below(x) # Below(y)
            BY <1>2, <1>3, <1>7
        <2>2. IsFiniteSet(Below(y)) /\ Cardinality(Below(x)) \in P /\ Cardinality(Below(y)) \in P
            BY <1>6
        <2> HIDE DEF Below
        <2>3. Cardinality(Below(x)) <= Cardinality(Below(y))
              /\ Cardinality(Below(x)) # Cardinality(Below(y))
            BY <2>1, <2>2, FS_Subset
        <2> QED
            BY <1>1, <2>2, <2>3
    <1>8. rank \in Injection(S, P)
        <2>1. rank \in [S -> P]
            BY <1>6
        <2>2. ASSUME NEW x \in S, NEW y \in S, rank[x] = rank[y]
              PROVE  x = y
            <3>1. rank[x] \in P /\ rank[y] \in P
                BY <2>1
            <3>2. <<x, y>> \in R => rank[x] < rank[y]
                BY <1>7
            <3>3. <<y, x>> \in R => rank[y] < rank[x]
                BY <1>7
            <3> HIDE DEF rank
            <3> QED
                BY <1>1, <1>4, <2>2, <3>1, <3>2, <3>3
        <2> HIDE DEF rank
        <2> QED
            BY <2>1, <2>2 DEF Injection, IsInjective
    <1>9. IsFiniteSet(P) /\ Cardinality(P) = n
        <2> HIDE DEF n
        <2> QED
            BY <1>1, FS_Interval
    <1>10. rank \in Surjection(S, P)
        <2> HIDE DEF rank, P
        <2> QED
            BY <1>8, <1>9, FS_Injection
    <1>11. i - 1 \in P
        BY <1>1
    <1>12. \E x \in S : rank[x] = i - 1
        <2> HIDE DEF rank
        <2> QED
            BY <1>10, <1>11 DEF Surjection
    <1> QED
        BY <1>12 DEF Smaller

\* The image of a finite set under a function is finite.
LEMMA ImageFinite ==
    ASSUME NEW S, IsFiniteSet(S), NEW f, S \subseteq DOMAIN f
    PROVE  IsFiniteSet({f[x] : x \in S})
    <1> DEFINE T == {f[x] : x \in S}
               h == [x \in S |-> f[x]]
    <1>1. h \in Surjection(S, T)
        BY DEF Surjection
    <1> HIDE DEF h, T
    <1>2. IsFiniteSet(T)
        BY <1>1, FS_Surjection
    <1> QED
        BY <1>2 DEF T
============================================================================
