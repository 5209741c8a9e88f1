---------------------------- MODULE SearchProofs ----------------------------
(***************************************************************************)
(* What is proved of the searches and of the enumeration around them, for  *)
(* every view, every request and every limit: RunInv, the invariant of one *)
(* search, and EnumInv, that of an enumeration, are kept by every step.    *)
(* PlanningProofs takes the theorems about a plan from them.               *)
(***************************************************************************)
EXTENDS CandidateEnumeration, ListFacts

-----------------------------------------------------------------------------
(* Least elements and the lexicographic order.                             *)

\* A non-empty set of indices has a least one, and Min is it.
LEMMA MinIsLeast ==
    ASSUME NEW n \in Nat, NEW I \in SUBSET (1..n), I # {}
    PROVE  Min(I) \in I /\ \A i \in I : Min(I) <= i
    <1> DEFINE R == OpToRel(<, Nat)
    <1>1. I \subseteq Nat
        OBVIOUS
    <1>2. PICK s \in I : \A u \in I : ~(<<u, s>> \in R)
        BY <1>1, NatLessThanWellFounded, WFMin
    <1>3. \A u \in Nat : u < s => <<u, s>> \in R
        BY <1>1 DEF OpToRel
    <1>4. \A u \in I : s <= u
        <2> HIDE DEF R
        <2>1. \A u \in I : u \in Nat /\ ~(u < s)
            BY <1>1, <1>2, <1>3, Zenon
        <2> QED
            BY <1>1, <2>1
    <1>5. \E x \in I : \A y \in I : x =< y
        BY <1>4
    <1> QED
        BY <1>5, Zenon DEF Min


\* The smaller of two numbers.
LEMMA MinOfTwo ==
    ASSUME NEW a \in Int, NEW b \in Int
    PROVE  Min({a, b}) = IF a <= b THEN a ELSE b
    <1>1. \A x \in {a, b} : (\A y \in {a, b} : x =< y) <=> x = (IF a <= b THEN a ELSE b)
        OBVIOUS
    <1>2. (IF a <= b THEN a ELSE b) \in {a, b}
        OBVIOUS
    <1> DEFINE m == IF a <= b THEN a ELSE b
    <1> HIDE DEF m
    <1>3. \A x \in {a, b} : (\A y \in {a, b} : x =< y) <=> x = m
        BY <1>1 DEF m
    <1>4. m \in {a, b}
        BY <1>2 DEF m
    <1>5. Min({a, b}) = m
        BY <1>3, <1>4, Zenon DEF Min
    <1> QED
        BY <1>5 DEF m

\* LexLess without Min.
LEMMA LexMeaning ==
    ASSUME NEW s \in Seq(Int), NEW t \in Seq(Int)
    PROVE  LexLess(s, t) <=> \E i \in 1..Len(s) : /\ i <= Len(t) /\ s[i] < t[i]
                                                  /\ \A j \in 1..(i - 1) : s[j] = t[j]
    <1> DEFINE a == Len(s)
               b == Len(t)
               m == Min({a, b})
    <1>1. a \in Nat /\ b \in Nat
        OBVIOUS
    <1>2. m = IF a <= b THEN a ELSE b
        <2> HIDE DEF a, b
        <2> QED
            BY <1>1, MinOfTwo
    <1> HIDE DEF m
    <1>3. \A i : i \in 1..m <=> i \in 1..Len(s) /\ i <= Len(t)
        BY <1>1, <1>2
    <1>4. LexLess(s, t) <=> \E i \in 1..m : s[i] < t[i] /\ \A j \in 1..(i - 1) : s[j] = t[j]
        BY DEF LexLess, m
    <1> QED
        BY <1>3, <1>4

\* The lexicographic order is strict.
LEMMA LexIrreflexive ==
    ASSUME NEW s \in Seq(Int)
    PROVE  ~LexLess(s, s)
    <1>1. \A i \in 1..Len(s) : s[i] \in Int
        OBVIOUS
    <1> QED
        BY <1>1, LexMeaning

\* It is transitive.
LEMMA LexTransitive ==
    ASSUME NEW s \in Seq(Int), NEW t \in Seq(Int), NEW u \in Seq(Int),
           LexLess(s, t), LexLess(t, u)
    PROVE  LexLess(s, u)
    <1>1. PICK i \in 1..Len(s) : i <= Len(t) /\ s[i] < t[i] /\ \A j \in 1..(i - 1) : s[j] = t[j]
        BY LexMeaning
    <1>2. PICK k \in 1..Len(t) : k <= Len(u) /\ t[k] < u[k] /\ \A j \in 1..(k - 1) : t[j] = u[j]
        BY LexMeaning
    <1>3. /\ \A j \in 1..Len(s) : s[j] \in Int
          /\ \A j \in 1..Len(t) : t[j] \in Int
          /\ \A j \in 1..Len(u) : u[j] \in Int
          /\ Len(s) \in Nat /\ Len(t) \in Nat /\ Len(u) \in Nat
        OBVIOUS
    <1>4. CASE i < k
        <2>1. i \in 1..(k - 1) /\ i <= Len(u) /\ t[i] = u[i]
            BY <1>2, <1>4
        <2>2. \A j \in 1..(i - 1) : s[j] = u[j]
            BY <1>1, <1>2, <1>4
        <2> QED
            BY <1>1, <2>1, <2>2, LexMeaning
    <1>5. CASE k < i
        <2>1. k \in 1..(i - 1) /\ k \in 1..Len(s) /\ s[k] = t[k]
            BY <1>1, <1>5
        <2>2. \A j \in 1..(k - 1) : s[j] = u[j]
            BY <1>1, <1>2, <1>5
        <2> QED
            BY <1>2, <2>1, <2>2, LexMeaning
    <1>6. CASE i = k
        <2>1. s[i] < u[i]
            BY <1>1, <1>2, <1>3, <1>6
        <2>2. \A j \in 1..(i - 1) : s[j] = u[j]
            BY <1>1, <1>2, <1>6
        <2> QED
            BY <1>1, <1>2, <1>6, <2>1, <2>2, LexMeaning
    <1> QED
        BY <1>4, <1>5, <1>6

\* It compares any two sequences that differ at some place.
LEMMA LexTotal ==
    ASSUME NEW s \in Seq(Int), NEW t \in Seq(Int),
           NEW m \in 1..Len(s), m <= Len(t), s[m] # t[m]
    PROVE  LexLess(s, t) \/ LexLess(t, s)
    <1> DEFINE I == {i \in 1..m : s[i] # t[i]}
               k == Min(I)
    <1>1. m \in Nat /\ I \in SUBSET (1..m) /\ m \in I
        OBVIOUS
    <1>2. k \in I /\ \A i \in I : k <= i
        <2> HIDE DEF I
        <2> QED
            BY <1>1, MinIsLeast
    <1> HIDE DEF k
    <1>3. k \in 1..m /\ s[k] # t[k] /\ s[k] \in Int /\ t[k] \in Int
        BY <1>2
    <1>4. \A j \in 1..(k - 1) : s[j] = t[j]
        BY <1>2, <1>3
    <1>5. s[k] < t[k] \/ t[k] < s[k]
        BY <1>3
    <1> HIDE DEF I
    <1>6. k \in 1..Len(s) /\ k \in 1..Len(t)
        BY <1>3
    <1> QED
        BY <1>4, <1>5, <1>6, LexMeaning

\* It is the usual order of pairs, the labels of a search,
LEMMA LexPair ==
    ASSUME NEW a \in Int, NEW b \in Int, NEW c \in Int, NEW d \in Int
    PROVE  LexLess(<<a, b>>, <<c, d>>) <=> a < c \/ (a = c /\ b < d)
    <1> DEFINE s == <<a, b>>
               t == <<c, d>>
    <1>1. /\ s \in Seq(Int) /\ t \in Seq(Int) /\ Len(s) = 2 /\ Len(t) = 2
          /\ s[1] = a /\ s[2] = b /\ t[1] = c /\ t[2] = d
        OBVIOUS
    <1> HIDE DEF s, t
    <1>2. LexLess(s, t) <=> \E i \in 1..2 : s[i] < t[i] /\ \A j \in 1..(i - 1) : s[j] = t[j]
        <2>1. LexLess(s, t) <=> \E i \in 1..Len(s) : /\ i <= Len(t) /\ s[i] < t[i]
                                                     /\ \A j \in 1..(i - 1) : s[j] = t[j]
            BY <1>1, LexMeaning
        <2>2. \A i \in 1..2 : i <= 2
            OBVIOUS
        <2> QED
            BY <1>1, <2>1, <2>2
    <1>3. \A i \in 1..2 : i = 1 \/ i = 2
        OBVIOUS
    <1>4. 1..(1 - 1) = {} /\ 1..(2 - 1) = {1} /\ 1 \in 1..2 /\ 2 \in 1..2
        OBVIOUS
    <1>5. LexLess(s, t) <=> s[1] < t[1] \/ (s[2] < t[2] /\ s[1] = t[1])
        BY <1>2, <1>3, <1>4
    <1> QED
        BY <1>1, <1>5 DEF s, t

\* and of triples, the entries of its queue.
LEMMA LexTriple ==
    ASSUME NEW a \in Int, NEW b \in Int, NEW x \in Int, NEW c \in Int, NEW d \in Int, NEW y \in Int
    PROVE  LexLess(<<a, b, x>>, <<c, d, y>>)
             <=> a < c \/ (a = c /\ b < d) \/ (a = c /\ b = d /\ x < y)
    <1> DEFINE s == <<a, b, x>>
               t == <<c, d, y>>
    <1>1. /\ s \in Seq(Int) /\ t \in Seq(Int) /\ Len(s) = 3 /\ Len(t) = 3
          /\ s[1] = a /\ s[2] = b /\ s[3] = x /\ t[1] = c /\ t[2] = d /\ t[3] = y
        OBVIOUS
    <1> HIDE DEF s, t
    <1>2. LexLess(s, t) <=> \E i \in 1..3 : s[i] < t[i] /\ \A j \in 1..(i - 1) : s[j] = t[j]
        <2>1. LexLess(s, t) <=> \E i \in 1..Len(s) : /\ i <= Len(t) /\ s[i] < t[i]
                                                     /\ \A j \in 1..(i - 1) : s[j] = t[j]
            BY <1>1, LexMeaning
        <2>2. \A i \in 1..3 : i <= 3
            OBVIOUS
        <2> QED
            BY <1>1, <2>1, <2>2
    <1>3. \A i \in 1..3 : i = 1 \/ i = 2 \/ i = 3
        OBVIOUS
    <1>4. /\ 1..(1 - 1) = {} /\ 1..(2 - 1) = {1} /\ 1..(3 - 1) = {1, 2}
          /\ 1 \in 1..3 /\ 2 \in 1..3 /\ 3 \in 1..3
        OBVIOUS
    <1>5. LexLess(s, t) <=> \/ s[1] < t[1] \/ (s[2] < t[2] /\ s[1] = t[1])
                            \/ (s[3] < t[3] /\ s[1] = t[1] /\ s[2] = t[2])
        BY <1>2, <1>3, <1>4
    <1> QED
        BY <1>1, <1>5 DEF s, t

-----------------------------------------------------------------------------
(* Folds.                                                                  *)

\* The largest of the indices that a fold has yet to take.
LEMMA MaxIsGreatest ==
    ASSUME NEW n \in Nat, NEW I \in SUBSET (1..n), I # {}
    PROVE  Max(I) \in I /\ \A i \in I : i <= Max(I)
    <1> DEFINE J == {n + 1 - i : i \in I}
               m == n + 1 - Min(J)
    <1>1. J \in SUBSET (1..n) /\ J # {}
        <2>1. \A i \in I : i \in 1..n /\ n + 1 - i \in 1..n
            OBVIOUS
        <2> QED
            BY <2>1
    <1>2. Min(J) \in J /\ \A j \in J : Min(J) <= j
        <2> HIDE DEF J
        <2> QED
            BY <1>1, MinIsLeast
    <1>3. m \in I /\ \A i \in I : i <= m
        <2> DEFINE k == Min(J)
        <2> HIDE DEF k
        <2>1. PICK x \in I : k = n + 1 - x
            BY <1>2 DEF k
        <2>2. \A i \in I : k <= n + 1 - i
            BY <1>2 DEF k
        <2>3. \A i \in I : i \in 1..n
            OBVIOUS
        <2>4. n + 1 - k = x /\ \A i \in I : i <= x
            BY <2>1, <2>2, <2>3
        <2> QED
            BY <2>4 DEF k
    <1>4. \A i \in I : i \in Int
        OBVIOUS
    <1> HIDE DEF m, J
    <1>5. m \in I /\ \A i \in I : m >= i
        BY <1>3, <1>4
    <1>6. Max(I) \in I /\ \A i \in I : Max(I) >= i
        BY <1>5, Zenon DEF Max
    <1> QED
        BY <1>4, <1>6

\* The numbers up to i, without their greatest.
LEMMA MaxOfPrefix ==
    ASSUME NEW i \in Nat \ {0}
    PROVE  Max(1..i) = i /\ (1..i) \ {i} = 1..(i - 1) /\ 1..i # {}
    <1>1. 1..i # {} /\ 1..i \in SUBSET (1..i) /\ i \in 1..i
        OBVIOUS
    <1>2. Max(1..i) \in 1..i /\ i <= Max(1..i)
        BY <1>1, MaxIsGreatest
    <1>3. Max(1..i) = i
        <2> DEFINE k == Max(1..i)
        <2> HIDE DEF k
        <2>1. k \in 1..i /\ i <= k
            BY <1>2 DEF k
        <2>2. k = i
            BY <2>1
        <2> QED
            BY <2>2 DEF k
    <1> QED
        BY <1>1, <1>3

\* F solves the recursion of FoldLeft, which takes the indices from the largest on.
SolvesMaxFold(F, n, T, base, g) ==
  /\ F \in [SUBSET (1..n) -> T]
  /\ F[{}] = base
  /\ \A s \in SUBSET (1..n) : s # {} =>
       /\ Max(s) \in 1..n
       /\ F[s \ {Max(s)}] \in T
       /\ F[s] = g[<<F[s \ {Max(s)}], Max(s)>>]

\* A fold that takes the greatest index first has a solution.
LEMMA MaxFoldExists ==
    ASSUME NEW n \in Nat, NEW T, NEW base \in T, NEW g \in [T \X (1..n) -> T]
    PROVE  \E F : SolvesMaxFold(F, n, T, base, g)
    <1> DEFINE D == 1..n
               mx == [s \in SUBSET D |-> Max(s)]
    <1>1. \A s \in SUBSET D : s # {} => Max(s) \in s /\ \A y \in s : y <= Max(s)
        BY MaxIsGreatest
    <1>2. \A s \in SUBSET D : mx[s] = Max(s)
        OBVIOUS
    <1> HIDE DEF mx
    <1>3. PicksLargest(mx, n)
        BY <1>1, <1>2 DEF PicksLargest
    <1>4. PICK F : SolvesFold(F, n, T, base, g, mx)
        BY <1>3, FoldExists
    <1>5. /\ F \in [SUBSET D -> T]
          /\ F[{}] = base
          /\ \A s \in SUBSET D : s # {} => F[s] = g[<<F[s \ {mx[s]}], mx[s]>>]
        BY <1>4 DEF SolvesFold
    <1>6. \A s \in SUBSET D : s # {} => Max(s) \in D /\ s \ {Max(s)} \in SUBSET D
        BY <1>1
    <1>7. \A s \in SUBSET D : s # {} => F[s \ {Max(s)}] \in T
        BY <1>5, <1>6
    <1> QED
        BY <1>2, <1>5, <1>6, <1>7 DEF SolvesMaxFold

\* The values that a fold goes through, one per prefix of its list.
FoldTrace(h, n, T, base, g, it) ==
  /\ h \in [0..n -> T]
  /\ h[0] = base
  /\ h[n] = it[1..n]
  /\ \A i \in 1..n : h[i] = g[<<h[i - 1], i>>]

\* One turn of that fold.
LEMMA PrefixTurn ==
    ASSUME NEW n \in Nat, NEW i \in 1..n
    PROVE  /\ Max(1..i) = i /\ (1..i) \ {Max(1..i)} = 1..(i - 1)
           /\ 1..i # {} /\ 1..i \in SUBSET (1..n)
    <1>1. i \in Nat \ {0}
        OBVIOUS
    <1>2. 1..i \in SUBSET (1..n)
        OBVIOUS
    <1> QED
        BY <1>1, <1>2, MaxOfPrefix

\* Any solution of it runs through the values of the loop.
LEMMA MaxFoldValue ==
    ASSUME NEW n \in Nat, NEW T, NEW base \in T, NEW g \in [T \X (1..n) -> T], NEW it,
           it[{}] = base,
           \A i \in 1..n, t \in T : it[1..(i - 1)] = t => it[1..i] = g[<<t, i>>]
    PROVE  \E h : FoldTrace(h, n, T, base, g, it)
    <1> DEFINE h == [i \in 0..n |-> it[1..i]]
               I == {i \in 0..n : it[1..i] \in T}
    <1>1. it[1..0] = base
        <2>1. 1..0 = {}
            OBVIOUS
        <2> QED
            BY <2>1
    <1>2. \A i \in 0..n : i \in I
        <2>1. 0 \in I
            BY <1>1
        <2>2. ASSUME NEW i \in 1..n, i - 1 \in I
              PROVE  i \in I
            <3>1. it[1..(i - 1)] \in T /\ it[1..i] = g[<<it[1..(i - 1)], i>>]
                BY <2>2
            <3>2. it[1..i] \in T
                BY <3>1
            <3> QED
                BY <3>2
        <2> HIDE DEF I
        <2> QED
            BY <2>1, <2>2, IndexInduction
    <1>3. h \in [0..n -> T]
        BY <1>2
    <1>4. \A i \in 1..n : i \in 0..n /\ i - 1 \in 0..n /\ h[i] = it[1..i]
                          /\ h[i - 1] = it[1..(i - 1)] /\ h[i - 1] \in T
        BY <1>3
    <1>5. h[0] = base /\ h[n] = it[1..n]
        BY <1>1
    <1>6. \A i \in 1..n : h[i] = g[<<h[i - 1], i>>]
        <2> HIDE DEF h
        <2> QED
            BY <1>4
    <1> HIDE DEF h
    <1> QED
        BY <1>3, <1>5, <1>6 DEF FoldTrace

\* The product of sizes.
ProductSteps(h, n, T, sizes) ==
  /\ h \in [0..n -> T]
  /\ h[0] = 1
  /\ \A i \in 1..n : h[i] = h[i - 1] * sizes[i]
  /\ h[n] = Product(sizes)

\* The number of combinations is computed stage by stage.
LEMMA ProductTrace ==
    ASSUME NEW sizes, NEW n \in Nat, DOMAIN sizes = 1..n,
           NEW T, 1 \in T, \A t \in T, i \in 1..n : t * sizes[i] \in T
    PROVE  \E h : ProductSteps(h, n, T, sizes)
    <1> DEFINE D == 1..n
               base == 1
               list == sizes
               value == Product(sizes)
               Op(p, x) == p * x
               Turn(it) == [s \in SUBSET D |->
                              IF s = {} THEN base ELSE Op(it[s \ {Max(s)}], list[Max(s)])]
               it == CHOOSE f : f = Turn(f)
               g == [x \in T \X D |-> Op(x[1], list[x[2]])]
    <1>1. value = it[D]
        BY DEF Product, FoldLeft, MapThenFoldSet
    <1> HIDE DEF value
    <1>2. base \in T /\ \A t \in T, i \in D : Op(t, list[i]) \in T
        OBVIOUS
    <1> HIDE DEF Op, base, list
    <1>3. g \in [T \X D -> T] /\ \A t \in T, i \in D : g[<<t, i>>] = Op(t, list[i])
        BY <1>2
    <1> HIDE DEF g
    <1>4. \E f : f = Turn(f)
        <2>1. PICK F : SolvesMaxFold(F, n, T, base, g)
            BY <1>2, <1>3, MaxFoldExists
        <2>2. F = Turn(F)
            BY <1>3, <2>1 DEF SolvesMaxFold
        <2> HIDE DEF Turn
        <2> QED
            BY <2>2
    <1>5. it = Turn(it)
        <2> HIDE DEF Turn
        <2> QED
            BY <1>4, Zenon
    <1> HIDE DEF it
    <1>6. it[{}] = base
        BY <1>5
    <1>7. \A s \in SUBSET D : s # {} => it[s] = Op(it[s \ {Max(s)}], list[Max(s)])
        BY <1>5
    <1>8. \E h : FoldTrace(h, n, T, base, g, it)
        <2>1. ASSUME NEW i \in D, NEW t \in T, it[1..(i - 1)] = t
              PROVE  it[1..i] = g[<<t, i>>]
            <3>1. /\ Max(1..i) = i /\ (1..i) \ {Max(1..i)} = 1..(i - 1)
                  /\ 1..i # {} /\ 1..i \in SUBSET D
                BY PrefixTurn
            <3>2. it[1..i] = Op(it[(1..i) \ {Max(1..i)}], list[Max(1..i)])
                BY <1>7, <3>1, Zenon
            <3> QED
                BY <1>3, <2>1, <3>1, <3>2, Zenon
        <2> QED
            BY <1>2, <1>3, <1>6, <2>1, MaxFoldValue
    <1>9. PICK h : FoldTrace(h, n, T, base, g, it)
        BY <1>8
    <1>10. h \in [0..n -> T] /\ h[0] = base /\ h[n] = it[1..n]
           /\ \A i \in 1..n : h[i] = g[<<h[i - 1], i>>]
        BY <1>9 DEF FoldTrace
    <1>11. \A i \in 1..n : h[i] = Op(h[i - 1], list[i])
        <2>1. \A i \in 1..n : i - 1 \in 0..n
            OBVIOUS
        <2>2. \A i \in 1..n : h[i] = Op(h[i - 1], list[i])
            BY <1>3, <1>10, <2>1
        <2> QED
            BY <2>2
    <1>12. \E x \in [0..n -> T] : /\ x[0] = base /\ x[n] = value
                                 /\ \A i \in 1..n : x[i] = Op(x[i - 1], list[i])
        BY <1>1, <1>10, <1>11
    <1> QED
        BY <1>12, Zenon DEF Op, base, list, value, ProductSteps

\* The relaxation of a list of adjacency entries.
LEMMA RelaxTrace ==
    ASSUME NEW e, NEW settle, NEW edges, NEW n \in Nat, DOMAIN edges = 1..n,
           NEW T, settle \in T, \A t \in T, i \in 1..n : RelaxEdge(t, e, edges[i]) \in T
    PROVE  \E h \in [0..n -> T] :
             /\ h[0] = settle
             /\ \A i \in 1..n : h[i] = RelaxEdge(h[i - 1], e, edges[i])
             /\ h[n] = Relax(settle, e, edges)
    <1> DEFINE D == 1..n
               base == settle
               list == edges
               value == Relax(settle, e, edges)
               Op(r, a) == RelaxEdge(r, e, a)
               Turn(it) == [s \in SUBSET D |->
                              IF s = {} THEN base ELSE Op(it[s \ {Max(s)}], list[Max(s)])]
               it == CHOOSE f : f = Turn(f)
               g == [x \in T \X D |-> Op(x[1], list[x[2]])]
    <1>1. value = it[D]
        BY DEF Relax, FoldLeft, MapThenFoldSet
    <1> HIDE DEF value
    <1>2. base \in T /\ \A t \in T, i \in D : Op(t, list[i]) \in T
        OBVIOUS
    <1> HIDE DEF Op, base, list
    <1>3. g \in [T \X D -> T] /\ \A t \in T, i \in D : g[<<t, i>>] = Op(t, list[i])
        BY <1>2
    <1> HIDE DEF g
    <1>4. \E f : f = Turn(f)
        <2>1. PICK F : SolvesMaxFold(F, n, T, base, g)
            BY <1>2, <1>3, MaxFoldExists
        <2>2. F = Turn(F)
            BY <1>3, <2>1 DEF SolvesMaxFold
        <2> HIDE DEF Turn
        <2> QED
            BY <2>2
    <1>5. it = Turn(it)
        <2> HIDE DEF Turn
        <2> QED
            BY <1>4, Zenon
    <1> HIDE DEF it
    <1>6. it[{}] = base
        BY <1>5
    <1>7. \A s \in SUBSET D : s # {} => it[s] = Op(it[s \ {Max(s)}], list[Max(s)])
        BY <1>5
    <1>8. \E h : FoldTrace(h, n, T, base, g, it)
        <2>1. ASSUME NEW i \in D, NEW t \in T, it[1..(i - 1)] = t
              PROVE  it[1..i] = g[<<t, i>>]
            <3>1. /\ Max(1..i) = i /\ (1..i) \ {Max(1..i)} = 1..(i - 1)
                  /\ 1..i # {} /\ 1..i \in SUBSET D
                BY PrefixTurn
            <3>2. it[1..i] = Op(it[(1..i) \ {Max(1..i)}], list[Max(1..i)])
                BY <1>7, <3>1, Zenon
            <3> QED
                BY <1>3, <2>1, <3>1, <3>2, Zenon
        <2> QED
            BY <1>2, <1>3, <1>6, <2>1, MaxFoldValue
    <1>9. PICK h : FoldTrace(h, n, T, base, g, it)
        BY <1>8
    <1>10. h \in [0..n -> T] /\ h[0] = base /\ h[n] = it[1..n]
           /\ \A i \in 1..n : h[i] = g[<<h[i - 1], i>>]
        BY <1>9 DEF FoldTrace
    <1>11. \A i \in 1..n : h[i] = Op(h[i - 1], list[i])
        <2>1. \A i \in 1..n : i - 1 \in 0..n
            OBVIOUS
        <2>2. \A i \in 1..n : h[i] = Op(h[i - 1], list[i])
            BY <1>3, <1>10, <2>1
        <2> QED
            BY <2>2
    <1>12. \E x \in [0..n -> T] : /\ x[0] = base /\ x[n] = value
                                 /\ \A i \in 1..n : x[i] = Op(x[i - 1], list[i])
        BY <1>1, <1>10, <1>11
    <1> QED
        BY <1>12, Zenon DEF Op, base, list, value

\* The levels of can_reach, one more for every hop below the target.
LevelSteps(h, n, T, v, c) ==
  /\ h \in [0..n -> T]
  /\ h[0] = <<{c.dst}>>
  /\ \A i \in 1..n : h[i] = <<LevelBelow(v, c, n - i, Head(h[i - 1]))>> \o h[i - 1]
  /\ h[n] = CanReach(v, c, n)

\* The levels are computed from the destination backwards.
LEMMA LevelsTrace ==
    ASSUME NEW v, NEW c, NEW n \in Nat,
           NEW T, <<{c.dst}>> \in T,
           \A t \in T, i \in 1..n : <<LevelBelow(v, c, n - i, Head(t))>> \o t \in T
    PROVE  \E h : LevelSteps(h, n, T, v, c)
    <1> DEFINE D == 1..n
               base == <<{c.dst}>>
               list == [j \in 1..n |-> j]
               value == CanReach(v, c, n)
               Op(levels, x) == <<LevelBelow(v, c, n - x, Head(levels))>> \o levels
               Turn(it) == [s \in SUBSET D |->
                              IF s = {} THEN base ELSE Op(it[s \ {Max(s)}], list[Max(s)])]
               it == CHOOSE f : f = Turn(f)
               g == [x \in T \X D |-> Op(x[1], list[x[2]])]
    <1>1. value = it[D]
        BY DEF CanReach, FoldLeft, MapThenFoldSet
    <1> HIDE DEF value
    <1>0. \A i \in D : list[i] = i
        OBVIOUS
    <1>2. base \in T /\ \A t \in T, i \in D : Op(t, list[i]) \in T
        BY <1>0
    <1> HIDE DEF Op, base, list
    <1>3. g \in [T \X D -> T] /\ \A t \in T, i \in D : g[<<t, i>>] = Op(t, list[i])
        BY <1>2
    <1> HIDE DEF g
    <1>4. \E f : f = Turn(f)
        <2>1. PICK F : SolvesMaxFold(F, n, T, base, g)
            BY <1>2, <1>3, MaxFoldExists
        <2>2. F = Turn(F)
            BY <1>3, <2>1 DEF SolvesMaxFold
        <2> HIDE DEF Turn
        <2> QED
            BY <2>2
    <1>5. it = Turn(it)
        <2> HIDE DEF Turn
        <2> QED
            BY <1>4, Zenon
    <1> HIDE DEF it
    <1>6. it[{}] = base
        BY <1>5
    <1>7. \A s \in SUBSET D : s # {} => it[s] = Op(it[s \ {Max(s)}], list[Max(s)])
        BY <1>5
    <1>8. \E h : FoldTrace(h, n, T, base, g, it)
        <2>1. ASSUME NEW i \in D, NEW t \in T, it[1..(i - 1)] = t
              PROVE  it[1..i] = g[<<t, i>>]
            <3>1. /\ Max(1..i) = i /\ (1..i) \ {Max(1..i)} = 1..(i - 1)
                  /\ 1..i # {} /\ 1..i \in SUBSET D
                BY PrefixTurn
            <3>2. it[1..i] = Op(it[(1..i) \ {Max(1..i)}], list[Max(1..i)])
                BY <1>7, <3>1, Zenon
            <3> QED
                BY <1>3, <2>1, <3>1, <3>2, Zenon
        <2> QED
            BY <1>2, <1>3, <1>6, <2>1, MaxFoldValue
    <1>9. PICK h : FoldTrace(h, n, T, base, g, it)
        BY <1>8
    <1>10. h \in [0..n -> T] /\ h[0] = base /\ h[n] = it[1..n]
           /\ \A i \in 1..n : h[i] = g[<<h[i - 1], i>>]
        BY <1>9 DEF FoldTrace
    <1>11. \A i \in 1..n : h[i] = Op(h[i - 1], i)
        <2>1. \A i \in 1..n : i - 1 \in 0..n
            OBVIOUS
        <2>2. \A i \in 1..n : h[i] = Op(h[i - 1], list[i])
            BY <1>3, <1>10, <2>1
        <2> QED
            BY <1>0, <2>2
    <1>12. \E x \in [0..n -> T] : /\ x[0] = base /\ x[n] = value
                                 /\ \A i \in 1..n : x[i] = Op(x[i - 1], i)
        BY <1>1, <1>10, <1>11
    <1> QED
        BY <1>12, Zenon DEF Op, base, list, value, LevelSteps

\* The greedy walk, one level after the other.
WalkSteps(h, n, T, v, c, levels) ==
  /\ h \in [0..n -> T]
  /\ h[0] = [nodes |-> <<c.src>>, hops |-> << >>]
  /\ \A i \in 1..n : h[i] = Extend(v, c, levels, h[i - 1], i)
  /\ h[n] = GreedyWalk(v, c, levels)

\* The walk is extended level by level.
LEMMA WalkTrace ==
    ASSUME NEW v, NEW c, NEW levels, NEW n \in Nat, n = Len(levels) - 1,
           NEW T, [nodes |-> <<c.src>>, hops |-> << >>] \in T,
           \A t \in T, i \in 1..n : Extend(v, c, levels, t, i) \in T
    PROVE  \E h : WalkSteps(h, n, T, v, c, levels)
    <1> DEFINE D == 1..n
               base == [nodes |-> <<c.src>>, hops |-> << >>]
               list == [j \in 1..n |-> j]
               value == GreedyWalk(v, c, levels)
               Op(p, x) == Extend(v, c, levels, p, x)
               Turn(it) == [s \in SUBSET D |->
                              IF s = {} THEN base ELSE Op(it[s \ {Max(s)}], list[Max(s)])]
               it == CHOOSE f : f = Turn(f)
               g == [x \in T \X D |-> Op(x[1], list[x[2]])]
    <1>1. value = it[D]
        BY DEF GreedyWalk, FoldLeft, MapThenFoldSet
    <1> HIDE DEF value
    <1>0. \A i \in D : list[i] = i
        OBVIOUS
    <1>2. base \in T /\ \A t \in T, i \in D : Op(t, list[i]) \in T
        BY <1>0
    <1> HIDE DEF Op, base, list
    <1>3. g \in [T \X D -> T] /\ \A t \in T, i \in D : g[<<t, i>>] = Op(t, list[i])
        BY <1>2
    <1> HIDE DEF g
    <1>4. \E f : f = Turn(f)
        <2>1. PICK F : SolvesMaxFold(F, n, T, base, g)
            BY <1>2, <1>3, MaxFoldExists
        <2>2. F = Turn(F)
            BY <1>3, <2>1 DEF SolvesMaxFold
        <2> HIDE DEF Turn
        <2> QED
            BY <2>2
    <1>5. it = Turn(it)
        <2> HIDE DEF Turn
        <2> QED
            BY <1>4, Zenon
    <1> HIDE DEF it
    <1>6. it[{}] = base
        BY <1>5
    <1>7. \A s \in SUBSET D : s # {} => it[s] = Op(it[s \ {Max(s)}], list[Max(s)])
        BY <1>5
    <1>8. \E h : FoldTrace(h, n, T, base, g, it)
        <2>1. ASSUME NEW i \in D, NEW t \in T, it[1..(i - 1)] = t
              PROVE  it[1..i] = g[<<t, i>>]
            <3>1. /\ Max(1..i) = i /\ (1..i) \ {Max(1..i)} = 1..(i - 1)
                  /\ 1..i # {} /\ 1..i \in SUBSET D
                BY PrefixTurn
            <3>2. it[1..i] = Op(it[(1..i) \ {Max(1..i)}], list[Max(1..i)])
                BY <1>7, <3>1, Zenon
            <3> QED
                BY <1>3, <2>1, <3>1, <3>2, Zenon
        <2> QED
            BY <1>2, <1>3, <1>6, <2>1, MaxFoldValue
    <1>9. PICK h : FoldTrace(h, n, T, base, g, it)
        BY <1>8
    <1>10. h \in [0..n -> T] /\ h[0] = base /\ h[n] = it[1..n]
           /\ \A i \in 1..n : h[i] = g[<<h[i - 1], i>>]
        BY <1>9 DEF FoldTrace
    <1>11. \A i \in 1..n : h[i] = Op(h[i - 1], i)
        <2>1. \A i \in 1..n : i - 1 \in 0..n
            OBVIOUS
        <2>2. \A i \in 1..n : h[i] = Op(h[i - 1], list[i])
            BY <1>3, <1>10, <2>1
        <2> QED
            BY <1>0, <2>2
    <1>12. \E x \in [0..n -> T] : /\ x[0] = base /\ x[n] = value
                                 /\ \A i \in 1..n : x[i] = Op(x[i - 1], i)
        BY <1>1, <1>10, <1>11
    <1> QED
        BY <1>12, Zenon DEF Op, base, list, value, WalkSteps

\* The sum of the static costs.
LEMMA StaticTrace ==
    ASSUME NEW hops, NEW n \in Nat, DOMAIN hops = 1..n,
           NEW T, 0 \in T, \A t \in T, i \in 1..n : CheckedAdd(t, hops[i].static) \in T
    PROVE  \E h \in [0..n -> T] :
             /\ h[0] = 0
             /\ \A i \in 1..n : h[i] = CheckedAdd(h[i - 1], hops[i].static)
             /\ h[n] = StaticCost(hops)
    <1> DEFINE D == 1..n
               base == 0
               list == hops
               value == StaticCost(hops)
               Op(sum, x) == CheckedAdd(sum, x.static)
               Turn(it) == [s \in SUBSET D |->
                              IF s = {} THEN base ELSE Op(it[s \ {Max(s)}], list[Max(s)])]
               it == CHOOSE f : f = Turn(f)
               g == [x \in T \X D |-> Op(x[1], list[x[2]])]
    <1>1. value = it[D]
        BY DEF StaticCost, FoldLeft, MapThenFoldSet
    <1> HIDE DEF value
    <1>2. base \in T /\ \A t \in T, i \in D : Op(t, list[i]) \in T
        OBVIOUS
    <1> HIDE DEF Op, base, list
    <1>3. g \in [T \X D -> T] /\ \A t \in T, i \in D : g[<<t, i>>] = Op(t, list[i])
        BY <1>2
    <1> HIDE DEF g
    <1>4. \E f : f = Turn(f)
        <2>1. PICK F : SolvesMaxFold(F, n, T, base, g)
            BY <1>2, <1>3, MaxFoldExists
        <2>2. F = Turn(F)
            BY <1>3, <2>1 DEF SolvesMaxFold
        <2> HIDE DEF Turn
        <2> QED
            BY <2>2
    <1>5. it = Turn(it)
        <2> HIDE DEF Turn
        <2> QED
            BY <1>4, Zenon
    <1> HIDE DEF it
    <1>6. it[{}] = base
        BY <1>5
    <1>7. \A s \in SUBSET D : s # {} => it[s] = Op(it[s \ {Max(s)}], list[Max(s)])
        BY <1>5
    <1>8. \E h : FoldTrace(h, n, T, base, g, it)
        <2>1. ASSUME NEW i \in D, NEW t \in T, it[1..(i - 1)] = t
              PROVE  it[1..i] = g[<<t, i>>]
            <3>1. /\ Max(1..i) = i /\ (1..i) \ {Max(1..i)} = 1..(i - 1)
                  /\ 1..i # {} /\ 1..i \in SUBSET D
                BY PrefixTurn
            <3>2. it[1..i] = Op(it[(1..i) \ {Max(1..i)}], list[Max(1..i)])
                BY <1>7, <3>1, Zenon
            <3> QED
                BY <1>3, <2>1, <3>1, <3>2, Zenon
        <2> QED
            BY <1>2, <1>3, <1>6, <2>1, MaxFoldValue
    <1>9. PICK h : FoldTrace(h, n, T, base, g, it)
        BY <1>8
    <1>10. h \in [0..n -> T] /\ h[0] = base /\ h[n] = it[1..n]
           /\ \A i \in 1..n : h[i] = g[<<h[i - 1], i>>]
        BY <1>9 DEF FoldTrace
    <1>11. \A i \in 1..n : h[i] = Op(h[i - 1], list[i])
        <2>1. \A i \in 1..n : i - 1 \in 0..n
            OBVIOUS
        <2>2. \A i \in 1..n : h[i] = Op(h[i - 1], list[i])
            BY <1>3, <1>10, <2>1
        <2> QED
            BY <2>2
    <1>12. \E x \in [0..n -> T] : /\ x[0] = base /\ x[n] = value
                                 /\ \A i \in 1..n : x[i] = Op(x[i - 1], list[i])
        BY <1>1, <1>10, <1>11
    <1> QED
        BY <1>12, Zenon DEF Op, base, list, value

\* The sum of the four parts of a cost.
LEMMA PartsTrace ==
    ASSUME NEW parts, NEW n \in Nat, DOMAIN parts = 1..n,
           NEW T, 0 \in T, \A t \in T, i \in 1..n : CheckedAdd(t, parts[i]) \in T
    PROVE  \E h \in [0..n -> T] :
             /\ h[0] = 0
             /\ \A i \in 1..n : h[i] = CheckedAdd(h[i - 1], parts[i])
             /\ h[n] = CheckedSum(parts)
    <1> DEFINE D == 1..n
               base == 0
               list == parts
               value == CheckedSum(parts)
               Op(sum, x) == CheckedAdd(sum, x)
               Turn(it) == [s \in SUBSET D |->
                              IF s = {} THEN base ELSE Op(it[s \ {Max(s)}], list[Max(s)])]
               it == CHOOSE f : f = Turn(f)
               g == [x \in T \X D |-> Op(x[1], list[x[2]])]
    <1>1. value = it[D]
        BY DEF CheckedSum, FoldLeft, MapThenFoldSet
    <1> HIDE DEF value
    <1>2. base \in T /\ \A t \in T, i \in D : Op(t, list[i]) \in T
        OBVIOUS
    <1> HIDE DEF Op, base, list
    <1>3. g \in [T \X D -> T] /\ \A t \in T, i \in D : g[<<t, i>>] = Op(t, list[i])
        BY <1>2
    <1> HIDE DEF g
    <1>4. \E f : f = Turn(f)
        <2>1. PICK F : SolvesMaxFold(F, n, T, base, g)
            BY <1>2, <1>3, MaxFoldExists
        <2>2. F = Turn(F)
            BY <1>3, <2>1 DEF SolvesMaxFold
        <2> HIDE DEF Turn
        <2> QED
            BY <2>2
    <1>5. it = Turn(it)
        <2> HIDE DEF Turn
        <2> QED
            BY <1>4, Zenon
    <1> HIDE DEF it
    <1>6. it[{}] = base
        BY <1>5
    <1>7. \A s \in SUBSET D : s # {} => it[s] = Op(it[s \ {Max(s)}], list[Max(s)])
        BY <1>5
    <1>8. \E h : FoldTrace(h, n, T, base, g, it)
        <2>1. ASSUME NEW i \in D, NEW t \in T, it[1..(i - 1)] = t
              PROVE  it[1..i] = g[<<t, i>>]
            <3>1. /\ Max(1..i) = i /\ (1..i) \ {Max(1..i)} = 1..(i - 1)
                  /\ 1..i # {} /\ 1..i \in SUBSET D
                BY PrefixTurn
            <3>2. it[1..i] = Op(it[(1..i) \ {Max(1..i)}], list[Max(1..i)])
                BY <1>7, <3>1, Zenon
            <3> QED
                BY <1>3, <2>1, <3>1, <3>2, Zenon
        <2> QED
            BY <1>2, <1>3, <1>6, <2>1, MaxFoldValue
    <1>9. PICK h : FoldTrace(h, n, T, base, g, it)
        BY <1>8
    <1>10. h \in [0..n -> T] /\ h[0] = base /\ h[n] = it[1..n]
           /\ \A i \in 1..n : h[i] = g[<<h[i - 1], i>>]
        BY <1>9 DEF FoldTrace
    <1>11. \A i \in 1..n : h[i] = Op(h[i - 1], list[i])
        <2>1. \A i \in 1..n : i - 1 \in 0..n
            OBVIOUS
        <2>2. \A i \in 1..n : h[i] = Op(h[i - 1], list[i])
            BY <1>3, <1>10, <2>1
        <2> QED
            BY <2>2
    <1>12. \E x \in [0..n -> T] : /\ x[0] = base /\ x[n] = value
                                 /\ \A i \in 1..n : x[i] = Op(x[i - 1], list[i])
        BY <1>1, <1>10, <1>11
    <1> QED
        BY <1>12, Zenon DEF Op, base, list, value

\* The member limit as the filter of the accepted paths.
LEMMA CompliantTrace ==
    ASSUME NEW accepted, NEW limit, NEW closed, NEW n \in Nat, DOMAIN accepted = 1..n,
           NEW T, << >> \in T,
           \A t \in T, i \in 1..n :
             (IF DomainMemberLimitCompliant(snapshot, accepted[i], limit, closed)
              THEN Append(t, accepted[i]) ELSE t) \in T
    PROVE  \E h \in [0..n -> T] :
             /\ h[0] = << >>
             /\ \A i \in 1..n :
                  h[i] = (IF DomainMemberLimitCompliant(snapshot, accepted[i], limit, closed)
                          THEN Append(h[i - 1], accepted[i]) ELSE h[i - 1])
             /\ h[n] = CompliantPaths(accepted, limit, closed)
    <1> DEFINE D == 1..n
               base == << >>
               list == accepted
               value == CompliantPaths(accepted, limit, closed)
               Op(kept, x) == (IF DomainMemberLimitCompliant(snapshot, x, limit, closed)
                               THEN Append(kept, x) ELSE kept)
               Turn(it) == [s \in SUBSET D |->
                              IF s = {} THEN base ELSE Op(it[s \ {Max(s)}], list[Max(s)])]
               it == CHOOSE f : f = Turn(f)
               g == [x \in T \X D |-> Op(x[1], list[x[2]])]
    <1>1. value = it[D]
        BY DEF CompliantPaths, Kept, FoldLeft, MapThenFoldSet
    <1> HIDE DEF value
    <1>2. base \in T /\ \A t \in T, i \in D : Op(t, list[i]) \in T
        OBVIOUS
    <1> HIDE DEF Op, base, list
    <1>3. g \in [T \X D -> T] /\ \A t \in T, i \in D : g[<<t, i>>] = Op(t, list[i])
        BY <1>2
    <1> HIDE DEF g
    <1>4. \E f : f = Turn(f)
        <2>1. PICK F : SolvesMaxFold(F, n, T, base, g)
            BY <1>2, <1>3, MaxFoldExists
        <2>2. F = Turn(F)
            BY <1>3, <2>1 DEF SolvesMaxFold
        <2> HIDE DEF Turn
        <2> QED
            BY <2>2
    <1>5. it = Turn(it)
        <2> HIDE DEF Turn
        <2> QED
            BY <1>4, Zenon
    <1> HIDE DEF it
    <1>6. it[{}] = base
        BY <1>5
    <1>7. \A s \in SUBSET D : s # {} => it[s] = Op(it[s \ {Max(s)}], list[Max(s)])
        BY <1>5
    <1>8. \E h : FoldTrace(h, n, T, base, g, it)
        <2>1. ASSUME NEW i \in D, NEW t \in T, it[1..(i - 1)] = t
              PROVE  it[1..i] = g[<<t, i>>]
            <3>1. /\ Max(1..i) = i /\ (1..i) \ {Max(1..i)} = 1..(i - 1)
                  /\ 1..i # {} /\ 1..i \in SUBSET D
                BY PrefixTurn
            <3>2. it[1..i] = Op(it[(1..i) \ {Max(1..i)}], list[Max(1..i)])
                BY <1>7, <3>1, Zenon
            <3> QED
                BY <1>3, <2>1, <3>1, <3>2, Zenon
        <2> QED
            BY <1>2, <1>3, <1>6, <2>1, MaxFoldValue
    <1>9. PICK h : FoldTrace(h, n, T, base, g, it)
        BY <1>8
    <1>10. h \in [0..n -> T] /\ h[0] = base /\ h[n] = it[1..n]
           /\ \A i \in 1..n : h[i] = g[<<h[i - 1], i>>]
        BY <1>9 DEF FoldTrace
    <1>11. \A i \in 1..n : h[i] = Op(h[i - 1], list[i])
        <2>1. \A i \in 1..n : i - 1 \in 0..n
            OBVIOUS
        <2>2. \A i \in 1..n : h[i] = Op(h[i - 1], list[i])
            BY <1>3, <1>10, <2>1
        <2> QED
            BY <2>2
    <1>12. \E x \in [0..n -> T] : /\ x[0] = base /\ x[n] = value
                                 /\ \A i \in 1..n : x[i] = Op(x[i - 1], list[i])
        BY <1>1, <1>10, <1>11
    <1> QED
        BY <1>12, Zenon DEF Op, base, list, value

-----------------------------------------------------------------------------
(* The view that a search runs on.                                         *)

\* The adjacency entries of a view.
EntryRecords == [from : Nat, to : Nat, link : Nat, static : Nat,
                 degraded : BOOLEAN, outside : BOOLEAN, traversal : Nat]

\* A view over a set of adjacency entries: what the search relies on.
ViewShape(v, entries) ==
  /\ v.nodes \in SUBSET Nat /\ IsFiniteSet(v.nodes)
  /\ Cardinality(v.nodes) <= InfiniteHops
  /\ v.hop_cost \in Nat /\ v.degraded_penalty \in Nat /\ v.locality_penalty \in Nat
  /\ entries \in SUBSET EntryRecords
  /\ \A a \in entries : a.to \in v.nodes
  /\ \A a, b \in entries : a.link = b.link => a = b
  /\ DOMAIN v.adjacency = v.nodes
  /\ \A n \in v.nodes : v.adjacency[n] \in Seq({a \in entries : a.from = n})

\* A checked sum is a number, and the sum itself unless it overflows.
LEMMA AddIsNatural ==
    ASSUME NEW a \in Nat, NEW b \in Nat
    PROVE  /\ CheckedAdd(a, b) \in Nat
           /\ CheckedAdd(a, b) # Overflow => CheckedAdd(a, b) = a + b /\ a + b <= CostMax
    BY CostMaxAssumption DEF CheckedAdd, Overflow

\* A checked product is a number.
LEMMA MulIsNatural ==
    ASSUME NEW a \in Nat, NEW b \in Nat
    PROVE  CheckedMul(a, b) \in Nat
    <1>1. a * b \in Nat
        OBVIOUS
    <1> QED
        BY <1>1, CostMaxAssumption DEF CheckedMul, Overflow

\* The adjacency of a node lists its entries.
LEMMA AdjacencyLists ==
    ASSUME NEW entries \in SUBSET EntryRecords, IsFiniteSet(entries), NEW n,
           \A a, b \in entries : a.link = b.link => a = b
    PROVE  SortedAdjacency(entries, n) \in Seq({a \in entries : a.from = n})
    <1> DEFINE X == {a \in entries : a.from = n}
               Before(a, b) == a.to < b.to \/ (a.to = b.to /\ a.link < b.link)
               R == {p \in X \X X : Before(p[1], p[2])}
               N == Cardinality(X)
    <1>1. IsFiniteSet(X)
        BY FS_Subset
    <1>2. N \in Nat
        BY <1>1, FS_CardinalityType
    <1>3. \A a \in X : a.to \in Nat /\ a.link \in Nat
        BY DEF EntryRecords
    <1>4. \A a, b \in X : <<a, b>> \in R <=> Before(a, b)
        <2> HIDE DEF Before
        <2> QED
            OBVIOUS
    <1>5. StrictOrder(R, X)
        <2>1. \A a \in X : ~Before(a, a)
            BY <1>3
        <2>2. \A a, b, c \in X : Before(a, b) /\ Before(b, c) => Before(a, c)
            BY <1>3
        <2>3. \A a, b \in X : a # b => a.link # b.link
            OBVIOUS
        <2>4. \A a, b \in X : a # b => Before(a, b) \/ Before(b, a)
            <3> HIDE DEF X
            <3> QED
                BY <1>3, <2>3
        <2> HIDE DEF X, R, Before
        <2> QED
            BY <1>4, <2>1, <2>2, <2>4, Zenon DEF StrictOrder
    <1>6. ASSUME NEW i \in 1..N
          PROVE  \E x \in X : Cardinality({y \in X : Before(y, x)}) = i - 1
        <2>1. PICK x \in X : Cardinality(Smaller(X, R, x)) = i - 1
            <3> HIDE DEF X, R
            <3> QED
                BY <1>1, <1>5, RankExists
        <2>2. Smaller(X, R, x) = {y \in X : Before(y, x)}
            <3> HIDE DEF X, R, Before
            <3> QED
                BY <1>4 DEF Smaller
        <2> QED
            BY <2>1, <2>2
    <1> DEFINE list == [i \in 1..N |-> CHOOSE x \in X : Cardinality({y \in X : Before(y, x)}) = i - 1]
    <1>7. SortedAdjacency(entries, n) = list
        BY DEF SortedAdjacency, Ordered
    <1>8. \A i \in 1..N : list[i] \in X
        <2> HIDE DEF X, Before
        <2> QED
            BY <1>6
    <1>9. list \in Seq(X)
        <2>1. list \in [1..N -> X]
            <3> HIDE DEF X, Before
            <3> QED
                BY <1>8
        <2> HIDE DEF list, X, N
        <2> QED
            BY <1>2, <2>1
    <1> HIDE DEF list
    <1> QED
        BY <1>7, <1>9

-----------------------------------------------------------------------------
(* One search.                                                             *)

\* The work budget never goes below zero, and is exhausted at zero only.
WorkBudgets(l) ==
  {b \in [states : 0..l.max_expanded_states, pushes : 0..l.max_queue_entries,
          spurs : 0..l.max_spur_searches, exhausted : BOOLEAN] :
     b.exhausted => b.states = 0 \/ b.pushes = 0 \/ b.spurs = 0}

\* The limits that a search spends.
Limits(l) == {l.max_expanded_states, l.max_queue_entries, l.max_spur_searches} \subseteq Nat

\* The labels of a search: a cost and a hop count.
Labels == (0..CostMax) \X (0..InfiniteHops)

\* The queue holds labelled nodes.
QueueEntries(v) == (0..CostMax) \X Nat \X v.nodes

\* What a label is kept for: a node, or a hop count and a node.
KeysOf(v, c) == (IF c.plain THEN {0} ELSE 0..c.hops) \X v.nodes

\* A label that no queue entry undercuts.
AtMost(label, q) == label[1] < q[1] \/ (label[1] = q[1] /\ label[2] <= q[2])

\* No label has more hops than the bound.
LabelsBounded(dist, keys, hops) ==
  hops # Absent => \A k \in keys : dist[k] = Unreached \/ dist[k][2] <= hops

\* The locals of a search.
CallRecords(v, keys, settled, queue, statuses) ==
  [src : v.nodes, dst : v.nodes, hops : Nat \cup {Absent}, plain : BOOLEAN,
   banned_nodes : SUBSET Nat, banned_links : SUBSET Nat, dist : [keys -> Labels],
   settled : settled, queue : queue, overflow : BOOLEAN, status : statuses]

\* The inductive invariant of a search: labels and queue entries fit their types,
\* a path has no more hops than nodes were settled, and every settled label is
\* at most every entry that is still queued.
RunInv(v, c) ==
  /\ c \in CallRecords(v, KeysOf(v, c), SUBSET KeysOf(v, c), SUBSET QueueEntries(v), {"running"})
  /\ ~c.plain => c.hops \in Nat /\ c.hops <= InfiniteHops
  /\ LabelsBounded(c.dist, KeysOf(v, c), c.hops)
  /\ IsFiniteSet(c.queue)
  /\ \A q \in c.queue : /\ c.plain => q[2] <= Cardinality(c.settled)
                        /\ c.hops # Absent => q[2] <= c.hops
                        /\ \A k \in c.settled : AtMost(c.dist[k], q)

\* The states of the relaxation loop of the entry e of the search c, once the
\* nodes st are settled.
Relaxing(v, c, st, e, l) ==
  {r \in [call : CallRecords(v, KeysOf(v, c), {st}, SUBSET QueueEntries(v), {"running", "limit"}),
          budget : WorkBudgets(l)] :
     /\ r.call.src = c.src /\ r.call.dst = c.dst /\ r.call.hops = c.hops
     /\ r.call.plain = c.plain
     /\ LabelsBounded(r.call.dist, KeysOf(v, c), c.hops)
     /\ IsFiniteSet(r.call.queue)
     /\ \A q \in r.call.queue : /\ c.plain => q[2] <= Cardinality(st)
                                /\ c.hops # Absent => q[2] <= c.hops
                                /\ AtMost(e, q)
     /\ \A k \in st : r.call.dist[k] = c.dist[k]
     /\ r.budget.exhausted <=> r.call.status = "limit"}

\* Spending keeps the budget within its limits.
LEMMA SpendCounts ==
    ASSUME NEW l, Limits(l), NEW b \in WorkBudgets(l), ~b.exhausted,
           NEW counter \in {"states", "pushes", "spurs"}
    PROVE  Spend(b, counter) \in WorkBudgets(l)
    <1>1. b \in [states : 0..l.max_expanded_states, pushes : 0..l.max_queue_entries,
                 spurs : 0..l.max_spur_searches, exhausted : BOOLEAN]
        BY DEF WorkBudgets
    <1>2. /\ l.max_expanded_states \in Nat /\ l.max_queue_entries \in Nat
          /\ l.max_spur_searches \in Nat
        BY DEF Limits
    <1>3. CASE counter = "states"
        <2> DEFINE spent == [b EXCEPT !.exhausted = TRUE]
                   less == [b EXCEPT !.states = b.states - 1]
        <2>1. Spend(b, counter) = IF b.states = 0 THEN spent ELSE less
            BY <1>3 DEF Spend
        <2>2. CASE b.states = 0
            <3>1. spent \in WorkBudgets(l)
                BY <1>1, <2>2 DEF WorkBudgets
            <3> QED
                BY <2>1, <2>2, <3>1
        <2>3. CASE b.states # 0
            <3>1. b.states - 1 \in 0..l.max_expanded_states
                BY <1>1, <1>2, <2>3
            <3>2. less \in WorkBudgets(l)
                <4> DEFINE m == b.states - 1
                <4> HIDE DEF m
                <4>1. [b EXCEPT !.states = m] \in WorkBudgets(l)
                    BY <1>1, <3>1 DEF WorkBudgets, m
                <4> QED
                    BY <4>1 DEF m
            <3> QED
                BY <2>1, <2>3, <3>2
        <2> QED
            BY <2>2, <2>3
    <1>4. CASE counter = "pushes"
        <2> DEFINE spent == [b EXCEPT !.exhausted = TRUE]
                   less == [b EXCEPT !.pushes = b.pushes - 1]
        <2>1. Spend(b, counter) = IF b.pushes = 0 THEN spent ELSE less
            BY <1>4 DEF Spend
        <2>2. CASE b.pushes = 0
            <3>1. spent \in WorkBudgets(l)
                BY <1>1, <2>2 DEF WorkBudgets
            <3> QED
                BY <2>1, <2>2, <3>1
        <2>3. CASE b.pushes # 0
            <3>1. b.pushes - 1 \in 0..l.max_queue_entries
                BY <1>1, <1>2, <2>3
            <3>2. less \in WorkBudgets(l)
                <4> DEFINE m == b.pushes - 1
                <4> HIDE DEF m
                <4>1. [b EXCEPT !.pushes = m] \in WorkBudgets(l)
                    BY <1>1, <3>1 DEF WorkBudgets, m
                <4> QED
                    BY <4>1 DEF m
            <3> QED
                BY <2>1, <2>3, <3>2
        <2> QED
            BY <2>2, <2>3
    <1>5. CASE counter = "spurs"
        <2> DEFINE spent == [b EXCEPT !.exhausted = TRUE]
                   less == [b EXCEPT !.spurs = b.spurs - 1]
        <2>1. Spend(b, counter) = IF b.spurs = 0 THEN spent ELSE less
            BY <1>5 DEF Spend
        <2>2. CASE b.spurs = 0
            <3>1. spent \in WorkBudgets(l)
                BY <1>1, <2>2 DEF WorkBudgets
            <3> QED
                BY <2>1, <2>2, <3>1
        <2>3. CASE b.spurs # 0
            <3>1. b.spurs - 1 \in 0..l.max_spur_searches
                BY <1>1, <1>2, <2>3
            <3>2. less \in WorkBudgets(l)
                <4> DEFINE m == b.spurs - 1
                <4> HIDE DEF m
                <4>1. [b EXCEPT !.spurs = m] \in WorkBudgets(l)
                    BY <1>1, <3>1 DEF WorkBudgets, m
                <4> QED
                    BY <4>1 DEF m
            <3> QED
                BY <2>1, <2>3, <3>2
        <2> QED
            BY <2>2, <2>3
    <1> QED
        BY <1>3, <1>4, <1>5

\* When a relaxation improves a label.
LEMMA ImprovesMeans ==
    ASSUME NEW v, NEW c, NEW cost \in 0..CostMax, NEW hops \in Nat, NEW old \in Labels,
           c.plain \in BOOLEAN
    PROVE  Improves(c, <<cost, hops>>, old) <=>
             \/ cost < old[1]
             \/ c.plain /\ cost = old[1] /\ hops < old[2]
    <1>1. old = <<old[1], old[2]>> /\ old[1] \in Int /\ old[2] \in Int
        BY CostMaxAssumption, InfiniteHopsAssumption DEF Labels
    <1>2. cost \in Int /\ hops \in Int
        BY CostMaxAssumption
    <1>3. LexLess(<<cost, hops>>, old) <=> cost < old[1] \/ (cost = old[1] /\ hops < old[2])
        <2> DEFINE x == old[1]
                   y == old[2]
        <2>1. x \in Int /\ y \in Int /\ old = <<x, y>>
            BY <1>1
        <2> HIDE DEF x, y
        <2>2. LexLess(<<cost, hops>>, <<x, y>>) <=> cost < x \/ (cost = x /\ hops < y)
            BY <1>2, <2>1, LexPair
        <2> QED
            BY <2>1, <2>2 DEF x, y
    <1>4. <<cost, hops>>[1] = cost
        OBVIOUS
    <1> QED
        BY <1>3, <1>4 DEF Improves

\* One turn of the relaxation loop keeps every settled label.
LEMMA RelaxOne ==
    ASSUME NEW E, ViewShape(view, E), NEW l, Limits(l), NEW c, RunInv(view, c),
           NEW e \in QueueEntries(view), NEW st \in SUBSET KeysOf(view, c),
           Cardinality(st) \in 0..InfiniteHops \/ ~c.plain,
           c.plain => e[2] + 1 <= Cardinality(st),
           c.hops # Absent => e[2] < c.hops,
           \A k \in st : AtMost(c.dist[k], e),
           NEW r \in Relaxing(view, c, st, e, l), NEW a \in E
    PROVE  RelaxEdge(r, e, a) \in Relaxing(view, c, st, e, l)
    <1> DEFINE K == KeysOf(view, c)
               rc == r.call
               b == r.budget
               hops == e[2] + 1
               cost == CheckedAdd(e[1], Increment(view, a))
               k == KeyOf(rc, hops, a.to)
               states == Spend(b, "states")
               pushes == Spend(states, "pushes")
               R == CallRecords(view, K, {st}, SUBSET QueueEntries(view), {"running", "limit"})
               Fits(x) == /\ x.src = c.src /\ x.dst = c.dst /\ x.hops = c.hops
                          /\ x.plain = c.plain
                          /\ LabelsBounded(x.dist, K, c.hops)
                          /\ IsFiniteSet(x.queue)
                          /\ \A q \in x.queue : /\ c.plain => q[2] <= Cardinality(st)
                                                /\ c.hops # Absent => q[2] <= c.hops
                                                /\ AtMost(e, q)
                          /\ \A j \in st : x.dist[j] = c.dist[j]
    <1>1. \A x, y : x \in R /\ y \in WorkBudgets(l) /\ Fits(x) /\ (y.exhausted <=> x.status = "limit")
                    => [call |-> x, budget |-> y] \in Relaxing(view, c, st, e, l)
        BY DEF Relaxing
    <1>2. /\ r = [call |-> rc, budget |-> b] /\ rc \in R /\ b \in WorkBudgets(l) /\ Fits(rc)
          /\ b.exhausted <=> rc.status = "limit"
        BY DEF Relaxing
    <1>3. \A y \in WorkBudgets(l) : y.exhausted \in BOOLEAN
        BY DEF WorkBudgets
    <1>4. /\ c.plain \in BOOLEAN /\ c.hops \in Nat \cup {Absent} /\ c.dist \in [K -> Labels]
          /\ ~c.plain => c.hops \in Nat /\ c.hops <= InfiniteHops
        BY DEF RunInv, CallRecords
    <1>5. e[1] \in 0..CostMax /\ e[2] \in Nat /\ e[3] \in view.nodes
        BY DEF QueueEntries
    <1>6. a.to \in view.nodes /\ a.traversal \in Nat /\ a.link \in Nat /\ view.hop_cost \in Nat
        BY DEF ViewShape, EntryRecords
    <1>7. hops \in 0..InfiniteHops /\ (c.plain => hops <= Cardinality(st))
                                   /\ (c.hops # Absent => hops <= c.hops)
        BY <1>4, <1>5, InfiniteHopsAssumption DEF Absent
    <1>8. cost # Overflow => cost \in 0..CostMax /\ cost >= e[1]
        <2> DEFINE inc == Increment(view, a)
                   x == e[1]
        <2>1. inc \in Nat
            BY <1>6, AddIsNatural DEF Increment
        <2>2. x \in Nat
            BY <1>5
        <2>3. cost = CheckedAdd(x, inc)
            OBVIOUS
        <2> HIDE DEF inc, x, cost
        <2>4. cost # Overflow => cost = x + inc /\ x + inc <= CostMax
            BY <2>1, <2>2, <2>3, AddIsNatural
        <2>5. cost # Overflow => cost \in 0..CostMax /\ cost >= x
            BY <2>1, <2>2, <2>4, CostMaxAssumption
        <2> QED
            BY <2>5 DEF x
    <1>9. k \in K
        <2>1. rc.plain = c.plain
            BY <1>2
        <2>2. k = <<IF c.plain THEN 0 ELSE hops, a.to>>
            BY <2>1 DEF KeyOf
        <2>3. ~c.plain => hops \in 0..c.hops
            BY <1>4, <1>7 DEF Absent
        <2> HIDE DEF hops, k
        <2> QED
            BY <1>4, <1>6, <2>2, <2>3 DEF KeysOf
    <1>10. rc.dist \in [K -> Labels]
        BY <1>2 DEF CallRecords
    <1> DEFINE old == rc.dist[k]
               new == [rc EXCEPT !.dist[k] = <<cost, hops>>,
                                 !.queue = @ \cup {<<cost, hops, a.to>>}]
    <1>11. RelaxEdge(r, e, a) =
             IF \/ rc.status = "limit"
                \/ a.link \in rc.banned_links
                \/ a.to \in rc.banned_nodes THEN r
             ELSE IF cost = Overflow THEN [call |-> [rc EXCEPT !.overflow = TRUE], budget |-> b]
             ELSE IF states.exhausted
             THEN [call |-> [rc EXCEPT !.status = "limit"], budget |-> states]
             ELSE IF ~Improves(rc, <<cost, hops>>, old) THEN [call |-> rc, budget |-> states]
             ELSE IF pushes.exhausted
             THEN [call |-> [rc EXCEPT !.status = "limit"], budget |-> pushes]
             ELSE [call |-> new, budget |-> pushes]
        BY Zenon DEF RelaxEdge
    <1>12. ~b.exhausted => states \in WorkBudgets(l)
        BY <1>2, SpendCounts
    <1>13. ~b.exhausted /\ ~states.exhausted => pushes \in WorkBudgets(l)
        <2> HIDE DEF states
        <2> QED
            BY <1>12, SpendCounts
    <1>14. ASSUME NEW x, x = [rc EXCEPT !.overflow = TRUE]
           PROVE  x \in R /\ Fits(x) /\ x.status = rc.status
        <2>1. x \in R /\ x.status = rc.status
            <3> HIDE DEF rc, K
            <3> QED
                BY <1>2, <1>14 DEF CallRecords
        <2>2. /\ x.src = rc.src /\ x.dst = rc.dst /\ x.hops = rc.hops /\ x.plain = rc.plain
              /\ x.queue = rc.queue /\ x.dist = rc.dist
            <3> HIDE DEF rc, K
            <3> QED
                BY <1>2, <1>14 DEF CallRecords
        <2> HIDE DEF rc, R
        <2> QED
            BY <1>2, <2>1, <2>2, Zenon
    <1>15. ASSUME NEW x, x = [rc EXCEPT !.status = "limit"]
           PROVE  x \in R /\ Fits(x) /\ x.status = "limit"
        <2>1. x \in R /\ x.status = "limit"
            <3> HIDE DEF rc, K
            <3> QED
                BY <1>2, <1>15 DEF CallRecords
        <2>2. /\ x.src = rc.src /\ x.dst = rc.dst /\ x.hops = rc.hops /\ x.plain = rc.plain
              /\ x.queue = rc.queue /\ x.dist = rc.dist
            <3> HIDE DEF rc, K
            <3> QED
                BY <1>2, <1>15 DEF CallRecords
        <2> HIDE DEF rc, R
        <2> QED
            BY <1>2, <2>1, <2>2, Zenon
    <1>16. ASSUME cost # Overflow, Improves(rc, <<cost, hops>>, old)
           PROVE  new \in R /\ Fits(new) /\ new.status = rc.status
        <2> DEFINE q0 == <<cost, hops, a.to>>
                   dist == [rc.dist EXCEPT ![k] = <<cost, hops>>]
        <2>1. cost \in 0..CostMax /\ cost >= e[1] /\ hops \in 0..InfiniteHops /\ hops \in Nat
            BY <1>7, <1>8, <1>16, InfiniteHopsAssumption
        <2>2. q0 \in QueueEntries(view)
            <3> HIDE DEF cost, hops
            <3> QED
                BY <1>6, <2>1 DEF QueueEntries
        <2>3. dist \in [K -> Labels] /\ \A j \in K : j # k => dist[j] = rc.dist[j]
            <3>1. <<cost, hops>> \in Labels
                <4> HIDE DEF cost, hops
                <4> QED
                    BY <2>1 DEF Labels
            <3> HIDE DEF cost, hops, k, K, rc
            <3> QED
                BY <1>9, <1>10, <3>1
        <2>4. /\ new.dist = dist /\ new.queue = rc.queue \cup {q0} /\ new.status = rc.status
              /\ new.src = rc.src /\ new.dst = rc.dst /\ new.hops = rc.hops
              /\ new.plain = rc.plain
            <3> HIDE DEF cost, hops, k, K, rc
            <3> QED
                BY <1>2 DEF CallRecords
        <2>5. new \in R
            <3>1. new = [rc EXCEPT !.dist = dist, !.queue = rc.queue \cup {q0}]
                OBVIOUS
            <3>2. rc.queue \cup {q0} \in SUBSET QueueEntries(view)
                <4>1. rc.queue \in SUBSET QueueEntries(view)
                    BY <1>2 DEF CallRecords
                <4> HIDE DEF q0, rc
                <4> QED
                    BY <2>2, <4>1
            <3> HIDE DEF dist, q0, rc, new, K
            <3> QED
                BY <1>2, <2>3, <3>1, <3>2 DEF CallRecords
        <2>6. IsFiniteSet(rc.queue \cup {q0})
            <3>1. IsFiniteSet(rc.queue)
                BY <1>2
            <3> HIDE DEF q0, rc
            <3> QED
                BY <3>1, FS_AddElement
        <2>7. /\ c.plain => q0[2] <= Cardinality(st)
              /\ c.hops # Absent => q0[2] <= c.hops
              /\ AtMost(e, q0)
            <3>1. q0[1] = cost /\ q0[2] = hops
                OBVIOUS
            <3>2. e[1] < cost \/ (e[1] = cost /\ e[2] <= hops)
                <4>1. e[2] <= hops
                    BY <1>5
                <4>2. e[1] \in Int /\ cost \in Int
                    BY <1>5, <2>1, CostMaxAssumption
                <4> HIDE DEF cost, hops
                <4> QED
                    BY <2>1, <4>1, <4>2
            <3> HIDE DEF q0, cost, hops
            <3> QED
                BY <1>7, <3>1, <3>2 DEF AtMost
        <2>8. k \notin st
            <3> SUFFICES ASSUME k \in st
                         PROVE  FALSE
                OBVIOUS
            <3>1. old = c.dist[k] /\ AtMost(c.dist[k], e)
                BY <1>2
            <3>2. old \in Labels /\ rc.plain \in BOOLEAN
                BY <1>2, <1>4, <1>9, <1>10
            <3> HIDE DEF old, k, rc
            <3>3. \/ cost < old[1]
                  \/ rc.plain /\ cost = old[1] /\ hops < old[2]
                <4> HIDE DEF cost, hops
                <4> QED
                    BY <1>16, <2>1, <3>2, ImprovesMeans
            <3>4. old[1] < e[1] \/ (old[1] = e[1] /\ old[2] <= e[2])
                BY <3>1 DEF AtMost
            <3>5. old[1] \in Int /\ old[2] \in Int /\ cost \in Int /\ e[1] \in Int /\ e[2] \in Int
                BY <1>5, <2>1, <3>2, CostMaxAssumption, InfiniteHopsAssumption DEF Labels
            <3> HIDE DEF cost
            <3> QED
                BY <2>1, <3>3, <3>4, <3>5
        <2>9. \A j \in st : new.dist[j] = c.dist[j]
            <3>1. \A j \in st : j \in K /\ rc.dist[j] = c.dist[j]
                BY <1>2
            <3> HIDE DEF k, K, rc, dist, new
            <3> QED
                BY <2>3, <2>4, <2>8, <3>1
        <2>10. \A q \in rc.queue \cup {q0} : /\ c.plain => q[2] <= Cardinality(st)
                                             /\ c.hops # Absent => q[2] <= c.hops
                                             /\ AtMost(e, q)
            <3>1. \A q \in rc.queue : /\ c.plain => q[2] <= Cardinality(st)
                                      /\ c.hops # Absent => q[2] <= c.hops
                                      /\ AtMost(e, q)
                BY <1>2
            <3> HIDE DEF q0, rc
            <3> QED
                BY <2>7, <3>1, Zenon
        <2>11. rc.src = c.src /\ rc.dst = c.dst /\ rc.hops = c.hops /\ rc.plain = c.plain
            BY <1>2
        <2>12. LabelsBounded(new.dist, K, c.hops)
            <3>1. LabelsBounded(rc.dist, K, c.hops)
                BY <1>2
            <3>2. dist[k] = <<cost, hops>>
                <4> HIDE DEF cost, hops, k, K, rc
                <4> QED
                    BY <1>9, <1>10
            <3>3. dist[k][2] = hops
                BY <3>2
            <3> HIDE DEF k, K, rc, dist, new, cost, hops
            <3> QED
                BY <1>7, <2>3, <2>4, <3>1, <3>3 DEF LabelsBounded
        <2> HIDE DEF q0, rc, dist, new, R, K
        <2> QED
            BY <2>4, <2>5, <2>6, <2>9, <2>10, <2>11, <2>12, Zenon
    <1> HIDE DEF R, Fits, cost, hops, k, old, new, states, pushes, rc, b
    <1>17. CASE rc.status = "limit" \/ a.link \in rc.banned_links \/ a.to \in rc.banned_nodes
        BY <1>11, <1>17
    <1>18. CASE ~(rc.status = "limit" \/ a.link \in rc.banned_links \/ a.to \in rc.banned_nodes)
        <2>1. ~b.exhausted
            BY <1>2, <1>18
        <2>2. CASE cost = Overflow
            BY <1>1, <1>2, <1>11, <1>14, <1>18, <2>2
        <2>3. CASE cost # Overflow /\ states.exhausted
            BY <1>1, <1>11, <1>12, <1>15, <1>18, <2>1, <2>3
        <2>4. CASE cost # Overflow /\ ~states.exhausted /\ ~Improves(rc, <<cost, hops>>, old)
            BY <1>1, <1>2, <1>11, <1>12, <1>18, <2>1, <2>4
        <2>5. CASE /\ cost # Overflow /\ ~states.exhausted /\ Improves(rc, <<cost, hops>>, old)
                   /\ pushes.exhausted
            BY <1>1, <1>11, <1>13, <1>15, <1>18, <2>1, <2>5
        <2>6. CASE /\ cost # Overflow /\ ~states.exhausted /\ Improves(rc, <<cost, hops>>, old)
                   /\ ~pushes.exhausted
            BY <1>1, <1>2, <1>11, <1>13, <1>16, <1>18, <2>1, <2>6
        <2> QED
            BY <2>2, <2>3, <2>4, <2>5, <2>6
    <1> QED
        BY <1>17, <1>18

\* The queue's top is its least entry.
LEMMA QueueTopIsLeast ==
    ASSUME NEW v, v.nodes \in SUBSET Nat, NEW queue \in SUBSET QueueEntries(v),
           IsFiniteSet(queue), queue # {}
    PROVE  QueueTop(queue) \in queue /\ \A q \in queue : AtMost(QueueTop(queue), q)
    <1> DEFINE R == {p \in queue \X queue : LexLess(p[1], p[2])}
               top == QueueTop(queue)
    <1>1. \A q \in queue : /\ q = <<q[1], q[2], q[3]>>
                           /\ q[1] \in Int /\ q[2] \in Int /\ q[3] \in Int
        BY CostMaxAssumption DEF QueueEntries
    <1>2. \A p, q \in queue : <<p, q>> \in R <=> LexLess(p, q)
        OBVIOUS
    <1>3. \A p, q \in queue : LexLess(p, q) <=>
             p[1] < q[1] \/ (p[1] = q[1] /\ p[2] < q[2])
                         \/ (p[1] = q[1] /\ p[2] = q[2] /\ p[3] < q[3])
        <2> SUFFICES ASSUME NEW p \in queue, NEW q \in queue
                     PROVE  LexLess(p, q) <=>
                               p[1] < q[1] \/ (p[1] = q[1] /\ p[2] < q[2])
                                           \/ (p[1] = q[1] /\ p[2] = q[2] /\ p[3] < q[3])
            OBVIOUS
        <2> DEFINE a == p[1]
                   b == p[2]
                   c == p[3]
                   x == q[1]
                   y == q[2]
                   z == q[3]
        <2>1. /\ p = <<a, b, c>> /\ q = <<x, y, z>> /\ a \in Int /\ b \in Int /\ c \in Int
              /\ x \in Int /\ y \in Int /\ z \in Int
            BY <1>1
        <2> HIDE DEF a, b, c, x, y, z
        <2>2. LexLess(<<a, b, c>>, <<x, y, z>>) <=>
                 a < x \/ (a = x /\ b < y) \/ (a = x /\ b = y /\ c < z)
            BY <2>1, LexTriple
        <2>3. LexLess(p, q) <=> a < x \/ (a = x /\ b < y) \/ (a = x /\ b = y /\ c < z)
            BY <2>1, <2>2
        <2> QED
            BY <2>3 DEF a, b, c, x, y, z
    <1>4. StrictOrder(R, queue)
        <2>1. \A p \in queue : ~LexLess(p, p)
            BY <1>1, <1>3
        <2>2. \A o, p, q \in queue : LexLess(o, p) /\ LexLess(p, q) => LexLess(o, q)
            BY <1>1, <1>3
        <2>3. \A p, q \in queue : p # q => LexLess(p, q) \/ LexLess(q, p)
            <3> SUFFICES ASSUME NEW p \in queue, NEW q \in queue, p # q
                         PROVE  LexLess(p, q) \/ LexLess(q, p)
                OBVIOUS
            <3>1. p[1] # q[1] \/ p[2] # q[2] \/ p[3] # q[3]
                BY <1>1
            <3> QED
                BY <1>1, <1>3, <3>1
        <2> HIDE DEF R
        <2> QED
            BY <1>2, <2>1, <2>2, <2>3, Zenon DEF StrictOrder
    <1>5. \E x \in queue : \A y \in queue \ {x} : <<x, y>> \in R
        <2> HIDE DEF R
        <2> QED
            BY <1>4, LeastExists
    <1>6. \E x \in queue : \A y \in queue \ {x} : LexLess(x, y)
        <2> HIDE DEF R
        <2> QED
            BY <1>2, <1>5
    <1>7. top \in queue /\ \A y \in queue \ {top} : LexLess(top, y)
        BY <1>6, Zenon DEF QueueTop
    <1> HIDE DEF top
    <1>8. \A q \in queue : AtMost(top, q)
        <2> SUFFICES ASSUME NEW q \in queue
                     PROVE  AtMost(top, q)
            OBVIOUS
        <2>1. CASE q = top
            BY <1>1, <1>7, <2>1 DEF AtMost
        <2>2. CASE q # top
            BY <1>1, <1>3, <1>7, <2>2 DEF AtMost
        <2> QED
            BY <2>1, <2>2
    <1> QED
        BY <1>7, <1>8 DEF top

\* What one turn of a search loop leaves: the search, or the end of the budget.
LoopShrinks(v, c, d) ==
  /\ KeysOf(v, d) = KeysOf(v, c)
  /\ \/ d.settled = c.settled /\ \E q \in c.queue : d.queue = c.queue \ {q}
     \/ \E k \in KeysOf(v, c) \ c.settled : d.settled = c.settled \cup {k}

\* What one turn of the search loop leaves behind.
PopOutcome(v, c, d, bd, l) ==
  /\ LoopShrinks(v, c, d)
  /\ d.src = c.src /\ d.dst = c.dst /\ d.hops = c.hops
  /\ d.status \in {"running", "limit"} /\ d.overflow \in BOOLEAN
  /\ d.status = "running" => RunInv(v, d)
  /\ c.settled \subseteq d.settled
  /\ \A k \in c.settled : d.dist[k] = c.dist[k]
  /\ bd \in WorkBudgets(l)
  /\ bd.exhausted <=> d.status = "limit"

\* A turn of the search loop keeps the invariant of the search, and its labels final.
LEMMA PopStep ==
    ASSUME NEW E, ViewShape(view, E), NEW l, Limits(l), RunInv(view, call),
           budget \in WorkBudgets(l), ~budget.exhausted, Pop
    PROVE  PopOutcome(view, call, call', budget', l)
    <1> DEFINE c == call
               e == QueueTop(call.queue)
               k == KeyOf(call, e[2], e[3])
               rest == [call EXCEPT !.queue = @ \ {e}]
               st == call.settled \cup {k}
               settle == [call |-> [rest EXCEPT !.settled = @ \cup {k}], budget |-> budget]
               edges  == IF call.hops # NoHopBound /\ e[2] >= call.hops THEN << >>
                         ELSE view.adjacency[e[3]]
               relaxed == Relax(settle, e, edges)
               K == KeysOf(view, call)
    <1>1. /\ call.queue # {}
          /\ IF k \in call.settled \/ call.dist[k] # <<e[1], e[2]>>
             THEN call' = rest /\ budget' = budget
             ELSE call' = relaxed.call /\ budget' = relaxed.budget
        BY DEF Pop
    <1>2. /\ view.nodes \in SUBSET Nat /\ IsFiniteSet(view.nodes)
          /\ Cardinality(view.nodes) \in Nat /\ Cardinality(view.nodes) <= InfiniteHops
        BY FS_CardinalityType DEF ViewShape
    <1>3. /\ call \in CallRecords(view, K, SUBSET K, SUBSET QueueEntries(view), {"running"})
          /\ IsFiniteSet(call.queue) /\ call.queue \in SUBSET QueueEntries(view)
          /\ call.settled \in SUBSET K /\ call.dist \in [K -> Labels]
          /\ call.plain \in BOOLEAN /\ call.hops \in Nat \cup {Absent}
          /\ call.overflow \in BOOLEAN
        BY DEF RunInv, CallRecords
    <1>4. /\ ~call.plain => call.hops \in Nat /\ call.hops <= InfiniteHops
          /\ LabelsBounded(call.dist, K, call.hops)
          /\ \A q \in call.queue : /\ call.plain => q[2] <= Cardinality(call.settled)
                                   /\ call.hops # Absent => q[2] <= call.hops
                                   /\ \A j \in call.settled : AtMost(call.dist[j], q)
        BY DEF RunInv
    <1>5. e \in call.queue /\ \A q \in call.queue : AtMost(e, q)
        BY <1>1, <1>2, <1>3, QueueTopIsLeast
    <1> HIDE DEF e
    <1>6. e[1] \in 0..CostMax /\ e[2] \in Nat /\ e[3] \in view.nodes /\ e \in QueueEntries(view)
        BY <1>3, <1>5 DEF QueueEntries
    <1>7. k \in K
        <2>1. k = <<IF call.plain THEN 0 ELSE e[2], e[3]>>
            BY DEF KeyOf
        <2>2. ~call.plain => e[2] \in 0..call.hops
            BY <1>4, <1>5, <1>6 DEF Absent
        <2> HIDE DEF k
        <2> QED
            BY <1>3, <1>6, <2>1, <2>2 DEF KeysOf
    <1> HIDE DEF k
    <1>8. CASE k \in call.settled \/ call.dist[k] # <<e[1], e[2]>>
        <2> DEFINE d == [call EXCEPT !.queue = call.queue \ {e}]
        <2>1. call' = d /\ budget' = budget
            BY <1>1, <1>8
        <2>2. d.queue = call.queue \ {e} /\ IsFiniteSet(d.queue)
              /\ d.queue \in SUBSET call.queue
            BY <1>3, FS_RemoveElement DEF CallRecords
        <2>3. /\ d \in CallRecords(view, K, SUBSET K, SUBSET QueueEntries(view), {"running"})
              /\ d.src = call.src /\ d.dst = call.dst /\ d.hops = call.hops
              /\ d.plain = call.plain /\ d.settled = call.settled /\ d.dist = call.dist
              /\ d.status = "running" /\ d.overflow \in BOOLEAN
            <3> HIDE DEF K
            <3> QED
                BY <1>3 DEF CallRecords
        <2> HIDE DEF d
        <2>4. KeysOf(view, d) = K
            BY <2>3 DEF KeysOf
        <2>5. RunInv(view, d)
            <3> HIDE DEF K
            <3> QED
                BY <1>4, <2>2, <2>3, <2>4 DEF RunInv
        <2>6. LoopShrinks(view, call, d)
            BY <1>5, <2>2, <2>3, <2>4 DEF LoopShrinks
        <2> QED
            BY <2>1, <2>3, <2>5, <2>6 DEF PopOutcome
    <1>9. CASE ~(k \in call.settled \/ call.dist[k] # <<e[1], e[2]>>)
        <2> DEFINE d == [call EXCEPT !.queue = call.queue \ {e},
                                     !.settled = call.settled \cup {k}]
                   T == Relaxing(view, call, st, e, l)
        <2>1. call' = relaxed.call /\ budget' = relaxed.budget
            BY <1>1, <1>9
        <2>2. settle = [call |-> d, budget |-> budget]
            <3>1. [rest EXCEPT !.settled = @ \cup {k}] = d
                BY <1>3 DEF CallRecords
            <3> QED
                BY <3>1
        <2>3. IsFiniteSet(K) /\ (call.plain => Cardinality(K) = Cardinality(view.nodes))
            <3>1. CASE call.plain
                <4>1. K = {0} \X view.nodes
                    BY <3>1 DEF KeysOf
                <4>2. IsFiniteSet({0}) /\ Cardinality({0}) = 1
                    BY FS_Singleton
                <4>3. /\ IsFiniteSet({0} \X view.nodes)
                      /\ Cardinality({0} \X view.nodes) = Cardinality({0}) * Cardinality(view.nodes)
                    BY <1>2, <4>2, FS_Product
                <4> QED
                    BY <1>2, <4>1, <4>2, <4>3
            <3>2. CASE ~call.plain
                <4>1. K = (0..call.hops) \X view.nodes /\ call.hops \in Nat
                    BY <1>4, <3>2 DEF KeysOf
                <4>2. IsFiniteSet(0..call.hops)
                    BY <4>1, FS_Interval
                <4>3. IsFiniteSet((0..call.hops) \X view.nodes)
                    BY <1>2, <4>2, FS_Product
                <4> QED
                    BY <3>2, <4>1, <4>3
            <3> QED
                BY <3>1, <3>2
        <2>4. st \in SUBSET K /\ IsFiniteSet(st) /\ Cardinality(st) \in Nat
              /\ Cardinality(st) <= Cardinality(K)
              /\ Cardinality(st) = Cardinality(call.settled) + 1
            <3>1. st \in SUBSET K
                BY <1>3, <1>7
            <3>2. IsFiniteSet(call.settled) /\ IsFiniteSet(st) /\ Cardinality(st) <= Cardinality(K)
                BY <1>3, <2>3, <3>1, FS_Subset
            <3>3. Cardinality(st) = Cardinality(call.settled) + 1
                BY <1>9, <3>2, FS_AddElement
            <3>4. Cardinality(st) \in Nat
                BY <3>2, FS_CardinalityType
            <3> QED
                BY <3>1, <3>2, <3>3, <3>4
        <2>5. Cardinality(st) \in 0..InfiniteHops \/ ~call.plain
            <3> HIDE DEF st, K
            <3> QED
                BY <1>2, <2>3, <2>4, InfiniteHopsAssumption
        <2>6. \A q \in call.queue : call.plain => q[2] + 1 <= Cardinality(st) /\ q[2] <= Cardinality(st)
            <3>1. \A q \in call.queue : q[2] \in Nat
                BY <1>3 DEF QueueEntries
            <3>2. IsFiniteSet(call.settled)
                BY <1>3, <2>3, FS_Subset
            <3>3. Cardinality(call.settled) \in Nat
                BY <3>2, FS_CardinalityType
            <3> HIDE DEF st
            <3> QED
                BY <1>4, <2>4, <3>1, <3>3
        <2>7. \A j \in st : AtMost(call.dist[j], e)
            <3>1. call.dist[k] = <<e[1], e[2]>>
                BY <1>9
            <3>2. AtMost(call.dist[k], e)
                BY <1>6, <3>1 DEF AtMost
            <3> QED
                BY <1>4, <1>5, <3>2
        <2>8. settle \in T
            <3>1. /\ d \in CallRecords(view, K, {st}, SUBSET QueueEntries(view), {"running", "limit"})
                  /\ d.src = call.src /\ d.dst = call.dst /\ d.hops = call.hops
                  /\ d.plain = call.plain /\ d.dist = call.dist /\ d.status = "running"
                  /\ d.queue = call.queue \ {e}
                <4>1. call.queue \ {e} \in SUBSET QueueEntries(view)
                    BY <1>3
                <4> HIDE DEF K, st
                <4> QED
                    BY <1>3, <4>1 DEF CallRecords, st
            <3>2. IsFiniteSet(call.queue \ {e})
                BY <1>3, FS_RemoveElement
            <3> HIDE DEF d, st, settle, K
            <3>3. \A q \in d.queue : /\ call.plain => q[2] <= Cardinality(st)
                                     /\ call.hops # Absent => q[2] <= call.hops
                                     /\ AtMost(e, q)
                BY <1>4, <1>5, <2>6, <3>1
            <3>4. settle.call = d /\ settle.budget = budget
                BY <2>2
            <3>5. settle \in [call : CallRecords(view, K, {st}, SUBSET QueueEntries(view),
                                                 {"running", "limit"}),
                              budget : WorkBudgets(l)]
                BY <2>2, <3>1
            <3>6. budget.exhausted <=> d.status = "limit"
                BY <3>1
            <3> QED
                BY <1>4, <3>1, <3>2, <3>3, <3>4, <3>5, <3>6 DEF Relaxing, K
        <2>9. relaxed \in T
            <3>1. CASE call.hops # NoHopBound /\ e[2] >= call.hops
                <4> DEFINE n == 0
                <4>1. DOMAIN edges = 1..n /\ n \in Nat
                    BY <3>1
                <4>2. \A r \in T, i \in 1..n : RelaxEdge(r, e, edges[i]) \in T
                    OBVIOUS
                <4> HIDE DEF n, T, settle, edges
                <4>3. Relax(settle, e, edges) \in T
                    BY <2>8, <4>1, <4>2, RelaxTrace
                <4> QED
                    BY <4>3
            <3>2. CASE ~(call.hops # NoHopBound /\ e[2] >= call.hops)
                <4> DEFINE n == Len(edges)
                <4>1. edges = view.adjacency[e[3]]
                    BY <3>2
                <4>2. edges \in Seq({a \in E : a.from = e[3]})
                    BY <1>6, <4>1 DEF ViewShape
                <4> HIDE DEF edges
                <4>3. n \in Nat /\ DOMAIN edges = 1..n /\ \A i \in 1..n : edges[i] \in E
                    BY <4>2
                <4>4. call.hops # Absent => e[2] < call.hops
                    BY <1>3, <1>6, <3>2 DEF NoHopBound
                <4>5. \A r \in T, i \in 1..n : RelaxEdge(r, e, edges[i]) \in T
                    <5> HIDE DEF st, n
                    <5>1. call.plain => e[2] + 1 <= Cardinality(st)
                        BY <1>5, <2>6
                    <5>2. st \in SUBSET KeysOf(view, call)
                        BY <2>4
                    <5> QED
                        BY <1>6, <2>5, <2>7, <4>3, <4>4, <5>1, <5>2, RelaxOne
                <4> HIDE DEF n, T, settle
                <4> QED
                    BY <2>8, <4>3, <4>5, RelaxTrace
            <3> QED
                BY <3>1, <3>2
        <2> HIDE DEF relaxed, st
        <2> DEFINE f == relaxed.call
                   g == relaxed.budget
        <2>10. /\ f \in CallRecords(view, K, {st}, SUBSET QueueEntries(view), {"running", "limit"})
               /\ f.src = call.src /\ f.dst = call.dst /\ f.hops = call.hops
               /\ f.plain = call.plain
               /\ LabelsBounded(f.dist, K, call.hops)
               /\ IsFiniteSet(f.queue)
               /\ \A q \in f.queue : /\ call.plain => q[2] <= Cardinality(st)
                                     /\ call.hops # Absent => q[2] <= call.hops
                                     /\ AtMost(e, q)
               /\ \A j \in st : f.dist[j] = call.dist[j]
               /\ g \in WorkBudgets(l)
               /\ g.exhausted <=> f.status = "limit"
            BY <2>9 DEF Relaxing
        <2> HIDE DEF f, g
        <2>11. f.settled = st /\ f.status \in {"running", "limit"} /\ f.overflow \in BOOLEAN
            BY <2>10 DEF CallRecords
        <2>12. KeysOf(view, f) = K
            BY <2>10 DEF KeysOf
        <2>13. f.status = "running" =>
                 f \in CallRecords(view, K, SUBSET K, SUBSET QueueEntries(view), {"running"})
            <3> HIDE DEF K
            <3> QED
                BY <2>4, <2>10 DEF CallRecords
        <2>14. \A q \in f.queue, j \in st : AtMost(f.dist[j], q)
            <3> SUFFICES ASSUME NEW q \in f.queue, NEW j \in st
                         PROVE  AtMost(f.dist[j], q)
                OBVIOUS
            <3> DEFINE lab == call.dist[j]
            <3>1. f.dist[j] = lab /\ AtMost(lab, e) /\ AtMost(e, q)
                BY <2>7, <2>10
            <3>2. q \in QueueEntries(view)
                BY <2>10 DEF CallRecords
            <3>3. q[1] \in Int /\ q[2] \in Int
                BY <3>2, CostMaxAssumption DEF QueueEntries
            <3>4. lab \in Labels
                BY <1>3, <2>4
            <3>5. lab[1] \in Int /\ lab[2] \in Int
                BY <3>4, CostMaxAssumption, InfiniteHopsAssumption DEF Labels
            <3> HIDE DEF lab
            <3>6. AtMost(lab, q)
                BY <1>6, <3>1, <3>3, <3>5, CostMaxAssumption DEF AtMost
            <3> QED
                BY <3>1, <3>6
        <2>15. f.status = "running" => RunInv(view, f)
            <3> HIDE DEF K
            <3> QED
                BY <1>4, <2>10, <2>11, <2>12, <2>13, <2>14 DEF RunInv
        <2>16. call.settled \subseteq st
            BY DEF st
        <2>17. LoopShrinks(view, call, f)
            <3> HIDE DEF K
            <3>1. k \in K \ call.settled /\ f.settled = call.settled \cup {k}
                BY <1>7, <1>9, <2>11 DEF st
            <3> QED
                BY <2>12, <3>1 DEF LoopShrinks, K
        <2> QED
            BY <2>1, <2>10, <2>11, <2>15, <2>16, <2>17 DEF PopOutcome, f, g
    <1> QED
        BY <1>8, <1>9

\* A call of ShortestPath that has begun.
CallGood(v, c) ==
  /\ c.src \in v.nodes /\ c.dst \in v.nodes /\ c.hops \in Nat \cup {Absent}
  /\ c.overflow \in BOOLEAN
  /\ c.status \in {"running", "trivial", "none", "limit"}
  /\ c.status = "running" => RunInv(v, c)
  /\ c.status = "trivial" => c.src = c.dst

\* A call that begins is well formed, and refuses to run only for want of budget
\* or because its hop bound makes too many labels.
BeginOutcome(v, c, src, dst, hops, bd, l) ==
  /\ CallGood(v, c)
  /\ c.src = src /\ c.dst = dst /\ c.hops = hops
  /\ bd \in WorkBudgets(l)
  /\ bd.exhausted => c.status = "limit"
  /\ c.status = "limit" => bd.exhausted \/ hops # Absent

\* A search starts with its invariant.
LEMMA BeginStep ==
    ASSUME NEW E, ViewShape(view, E), NEW l, Limits(l), NEW b \in WorkBudgets(l), ~b.exhausted,
           NEW src \in view.nodes, NEW dst \in view.nodes, NEW hops \in Nat \cup {Absent},
           NEW bn \in SUBSET Nat, NEW bl \in SUBSET Nat,
           BeginSearch(b, src, dst, hops, bn, bl)
    PROVE  BeginOutcome(view, call', src, dst, hops, budget', l)
    <1> DEFINE N == Cardinality(view.nodes)
               plain == hops = NoHopBound \/ hops >= N - 1
               keys  == (IF plain THEN {0} ELSE 0..hops) \X view.nodes
               new   == [src |-> src, dst |-> dst, hops |-> hops, plain |-> plain,
                         banned_nodes |-> bn, banned_links |-> bl,
                         dist |-> << >>, settled |-> {}, queue |-> {}, overflow |-> FALSE,
                         status |-> "running"]
               Stopped(status) == [new EXCEPT !.status = status]
               dist == [k \in keys |-> IF k = <<0, src>> THEN <<0, 0>> ELSE Unreached]
               begun == [new EXCEPT !.dist = dist, !.queue = {<<0, 0, src>>}]
               big == (hops + 1) * N > view.limits.max_search_states
    <1>1. \/ src = dst /\ call' = Stopped("trivial") /\ budget' = b
          \/ src # dst /\ hops = 0 /\ call' = Stopped("none") /\ budget' = b
          \/ src # dst /\ ~plain /\ call' = Stopped("limit") /\ budget' = b
          \/ /\ budget' = Spend(b, "pushes")
             /\ call' = IF budget'.exhausted THEN Stopped("limit") ELSE begun
        <2> HIDE DEF big, plain
        <2>1. BeginSearch(b, src, dst, hops, bn, bl) <=>
                CASE src = dst -> call' = Stopped("trivial") /\ budget' = b
                  [] src # dst /\ hops = 0 -> call' = Stopped("none") /\ budget' = b
                  [] src # dst /\ hops # 0 /\ ~plain /\ big ->
                       call' = Stopped("limit") /\ budget' = b
                  [] OTHER -> /\ budget' = Spend(b, "pushes")
                              /\ IF budget'.exhausted THEN call' = Stopped("limit")
                                 ELSE call' = begun
            BY DEF BeginSearch, big, plain
        <2> HIDE DEF Stopped, begun
        <2> QED
            BY <2>1
    <1>2. view.nodes \in SUBSET Nat /\ N \in Nat /\ N <= InfiniteHops
        BY FS_CardinalityType DEF ViewShape
    <1>3. plain \in BOOLEAN /\ (~plain => hops \in Nat /\ hops <= InfiniteHops /\ hops # Absent)
        BY <1>2, InfiniteHopsAssumption DEF NoHopBound, Absent
    <1> HIDE DEF plain
    <1>4. ASSUME NEW st \in {"trivial", "none", "limit"}
          PROVE  /\ Stopped(st).src = src /\ Stopped(st).dst = dst /\ Stopped(st).hops = hops
                 /\ Stopped(st).overflow = FALSE /\ Stopped(st).status = st
        OBVIOUS
    <1>5. /\ begun.src = src /\ begun.dst = dst /\ begun.hops = hops /\ begun.plain = plain
          /\ begun.banned_nodes = bn /\ begun.banned_links = bl /\ begun.dist = dist
          /\ begun.settled = {} /\ begun.queue = {<<0, 0, src>>} /\ begun.overflow = FALSE
          /\ begun.status = "running"
        <2> HIDE DEF dist
        <2> QED
            OBVIOUS
    <1>6. KeysOf(view, begun) = keys
        <2> HIDE DEF dist, begun
        <2> QED
            BY <1>5 DEF KeysOf
    <1>7. dist \in [keys -> Labels]
        <2>1. <<0, 0>> \in Labels /\ Unreached \in Labels
            BY CostMaxAssumption, InfiniteHopsAssumption DEF Labels, Unreached
        <2> HIDE DEF keys
        <2> QED
            BY <2>1
    <1>8. {<<0, 0, src>>} \in SUBSET QueueEntries(view)
        BY CostMaxAssumption DEF QueueEntries
    <1>9. RunInv(view, begun)
        <2>1. begun \in CallRecords(view, keys, SUBSET keys, SUBSET QueueEntries(view), {"running"})
            <3> HIDE DEF keys, dist
            <3> QED
                BY <1>3, <1>7, <1>8 DEF CallRecords
        <2>2. IsFiniteSet({<<0, 0, src>>})
            BY FS_Singleton
        <2>3. Cardinality({}) = 0
            BY FS_EmptySet
        <2>7. LabelsBounded(dist, keys, hops)
            <3>1. \A k \in keys : dist[k] = Unreached \/ dist[k] = <<0, 0>>
                <4> HIDE DEF keys
                <4> QED
                    OBVIOUS
            <3> HIDE DEF keys, dist
            <3> QED
                BY <3>1 DEF LabelsBounded
        <2> HIDE DEF keys, begun, dist
        <2>4. /\ begun.plain = plain /\ begun.hops = hops /\ begun.queue = {<<0, 0, src>>}
              /\ begun.settled = {} /\ begun.dist = dist
            BY <1>5
        <2>5. \A q \in begun.queue : q[2] = 0
            BY <2>4
        <2>6. hops # Absent => 0 <= hops
            OBVIOUS
        <2> QED
            BY <1>3, <1>6, <2>1, <2>2, <2>3, <2>4, <2>5, <2>6, <2>7 DEF RunInv
    <1>10. begun.src = src /\ begun.dst = dst /\ begun.hops = hops /\ begun.overflow = FALSE
           /\ begun.status = "running"
        BY <1>5
    <1>11. Spend(b, "pushes") \in WorkBudgets(l)
        BY SpendCounts
    <1>12. \A y \in WorkBudgets(l) : y.exhausted \in BOOLEAN
        BY DEF WorkBudgets
    <1> HIDE DEF begun, Stopped
    <1>13. CASE src = dst /\ call' = Stopped("trivial") /\ budget' = b
        BY <1>4, <1>13 DEF BeginOutcome, CallGood
    <1>14. CASE src # dst /\ hops = 0 /\ call' = Stopped("none") /\ budget' = b
        BY <1>4, <1>14 DEF BeginOutcome, CallGood
    <1>15. CASE src # dst /\ ~plain /\ call' = Stopped("limit") /\ budget' = b
        BY <1>3, <1>4, <1>15 DEF BeginOutcome, CallGood
    <1>16. CASE /\ budget' = Spend(b, "pushes")
                /\ call' = IF budget'.exhausted THEN Stopped("limit") ELSE begun
        <2>1. CASE budget'.exhausted
            BY <1>4, <1>11, <1>12, <1>16, <2>1 DEF BeginOutcome, CallGood
        <2>2. CASE ~budget'.exhausted
            BY <1>9, <1>10, <1>11, <1>12, <1>16, <2>2 DEF BeginOutcome, CallGood
        <2> QED
            BY <2>1, <2>2
    <1> QED
        BY <1>1, <1>13, <1>14, <1>15, <1>16

-----------------------------------------------------------------------------
(* What a search finds.                                                    *)

\* The paths over a set of adjacency entries.
PathSet(v, E) == {p \in [nodes : Seq(v.nodes), hops : Seq(E)] : Len(p.nodes) = Len(p.hops) + 1}

\* The path of a search joins its two ends and keeps its hop bound.
FoundPath(v, E, c, p) ==
  /\ p \in PathSet(v, E)
  /\ p.nodes[1] = c.src
  /\ p.nodes[Len(p.nodes)] = c.dst
  /\ c.hops # Absent => Len(p.hops) <= c.hops

\* A sequence of one element.
LEMMA OneElement ==
    ASSUME NEW S1, NEW x \in S1
    PROVE  <<x>> \in Seq(S1) /\ Len(<<x>>) = 1 /\ <<x>>[1] = x
    OBVIOUS

\* How a path is made,
LEMMA PathIn ==
    ASSUME NEW v, NEW E, NEW p, p = [nodes |-> p.nodes, hops |-> p.hops],
           p.nodes \in Seq(v.nodes), p.hops \in Seq(E), Len(p.nodes) = Len(p.hops) + 1
    PROVE  p \in PathSet(v, E)
    BY DEF PathSet

\* and what is known of one.
LEMMA PathOut ==
    ASSUME NEW v, NEW E, NEW p \in PathSet(v, E)
    PROVE  /\ p = [nodes |-> p.nodes, hops |-> p.hops]
           /\ p.nodes \in Seq(v.nodes) /\ p.hops \in Seq(E)
           /\ Len(p.hops) \in Nat /\ Len(p.nodes) = Len(p.hops) + 1
           /\ DOMAIN p.nodes = 1..(Len(p.hops) + 1) /\ DOMAIN p.hops = 1..Len(p.hops)
    <1>1. /\ p = [nodes |-> p.nodes, hops |-> p.hops]
          /\ p.nodes \in Seq(v.nodes) /\ p.hops \in Seq(E)
          /\ Len(p.nodes) = Len(p.hops) + 1
        BY DEF PathSet
    <1> QED
        BY <1>1

\* A finite set of labels has a best one.
LEMMA BestLabelExists ==
    ASSUME NEW labels \in SUBSET Labels, IsFiniteSet(labels), labels # {}
    PROVE  (CHOOSE x \in labels : \A m \in labels \ {x} : LexLess(x, m)) \in labels
    <1> DEFINE R == {p \in labels \X labels : LexLess(p[1], p[2])}
    <1>1. \A q \in labels : q = <<q[1], q[2]>> /\ q[1] \in Int /\ q[2] \in Int
        BY CostMaxAssumption, InfiniteHopsAssumption DEF Labels
    <1>2. \A p, q \in labels : <<p, q>> \in R <=> LexLess(p, q)
        OBVIOUS
    <1>3. \A p, q \in labels : LexLess(p, q) <=> p[1] < q[1] \/ (p[1] = q[1] /\ p[2] < q[2])
        <2> SUFFICES ASSUME NEW p \in labels, NEW q \in labels
                     PROVE  LexLess(p, q) <=> p[1] < q[1] \/ (p[1] = q[1] /\ p[2] < q[2])
            OBVIOUS
        <2> DEFINE a == p[1]
                   b == p[2]
                   x == q[1]
                   y == q[2]
        <2>1. p = <<a, b>> /\ q = <<x, y>> /\ a \in Int /\ b \in Int /\ x \in Int /\ y \in Int
            BY <1>1
        <2> HIDE DEF a, b, x, y
        <2>2. LexLess(<<a, b>>, <<x, y>>) <=> a < x \/ (a = x /\ b < y)
            BY <2>1, LexPair
        <2>3. LexLess(p, q) <=> a < x \/ (a = x /\ b < y)
            BY <2>1, <2>2
        <2> QED
            BY <2>3 DEF a, b, x, y
    <1>4. StrictOrder(R, labels)
        <2>1. \A p \in labels : ~LexLess(p, p)
            BY <1>1, <1>3
        <2>2. \A o, p, q \in labels : LexLess(o, p) /\ LexLess(p, q) => LexLess(o, q)
            BY <1>1, <1>3
        <2>3. \A p, q \in labels : p # q => LexLess(p, q) \/ LexLess(q, p)
            <3> SUFFICES ASSUME NEW p \in labels, NEW q \in labels, p # q
                         PROVE  LexLess(p, q) \/ LexLess(q, p)
                OBVIOUS
            <3>1. p[1] # q[1] \/ p[2] # q[2]
                BY <1>1
            <3> QED
                BY <1>1, <1>3, <3>1
        <2> HIDE DEF R
        <2> QED
            BY <1>2, <2>1, <2>2, <2>3, Zenon DEF StrictOrder
    <1>5. \E x \in labels : \A y \in labels \ {x} : <<x, y>> \in R
        <2> HIDE DEF R
        <2> QED
            BY <1>4, LeastExists
    <1>6. \E x \in labels : \A y \in labels \ {x} : LexLess(x, y)
        <2> HIDE DEF R
        <2> QED
            BY <1>2, <1>5
    <1> QED
        BY <1>6, Zenon

\* can_reach has a level for every hop count, and the last one is the destination.
LEMMA LevelsEnd ==
    ASSUME NEW v, NEW c, NEW n \in Nat
    PROVE  /\ Len(CanReach(v, c, n)) = n + 1
           /\ CanReach(v, c, n)[n + 1] = {c.dst}
    <1> DEFINE X == (SUBSET v.nodes) \cup {{c.dst}}
               T == Seq(X)
    <1>1. <<{c.dst}>> \in T
        OBVIOUS
    <1>2. \A t \in T, i \in 1..n : <<LevelBelow(v, c, n - i, Head(t))>> \o t \in T
        <2> SUFFICES ASSUME NEW t \in T, NEW i \in 1..n
                     PROVE  <<LevelBelow(v, c, n - i, Head(t))>> \o t \in T
            OBVIOUS
        <2> DEFINE b == LevelBelow(v, c, n - i, Head(t))
        <2>1. b \in X
            BY DEF LevelBelow
        <2> HIDE DEF b, X
        <2>2. <<b>> \in Seq(X)
            BY <2>1
        <2>3. <<b>> \o t \in Seq(X)
            BY <2>2
        <2> QED
            BY <2>3 DEF b
    <1> HIDE DEF T
    <1>3. PICK h : LevelSteps(h, n, T, v, c)
        BY <1>1, <1>2, LevelsTrace
    <1>4. /\ h[0] = <<{c.dst}>> /\ h[n] = CanReach(v, c, n) /\ \A i \in 0..n : h[i] \in T
          /\ \A i \in 1..n : h[i] = <<LevelBelow(v, c, n - i, Head(h[i - 1]))>> \o h[i - 1]
        BY <1>3 DEF LevelSteps
    <1> DEFINE I == {i \in 0..n : Len(h[i]) = i + 1 /\ h[i][i + 1] = {c.dst}}
    <1>5. 0 \in I
        <2>1. Len(<<{c.dst}>>) = 1 /\ <<{c.dst}>>[1] = {c.dst}
            OBVIOUS
        <2>2. Len(h[0]) = 1 /\ h[0][1] = {c.dst}
            BY <1>4, <2>1
        <2> QED
            BY <2>2
    <1>6. ASSUME NEW i \in 1..n, i - 1 \in I
          PROVE  i \in I
        <2> DEFINE t == h[i - 1]
                   b == LevelBelow(v, c, n - i, Head(h[i - 1]))
        <2>1. t \in Seq(X) /\ Len(t) = i /\ t[i] = {c.dst}
            <3>1. i - 1 \in 0..n /\ (i - 1) + 1 = i
                OBVIOUS
            <3> QED
                BY <1>4, <1>6, <3>1 DEF T
        <2>2. h[i] = <<b>> \o t
            BY <1>4
        <2> HIDE DEF t, b, X
        <2>3. Len(<<b>> \o t) = i + 1 /\ (<<b>> \o t)[i + 1] = t[i]
            BY <2>1
        <2> QED
            BY <2>1, <2>2, <2>3
    <1> HIDE DEF I
    <1>7. \A i \in 0..n : i \in I
        BY <1>5, <1>6, IndexInduction
    <1>8. n \in I
        BY <1>7
    <1> QED
        BY <1>4, <1>8 DEF I

\* A greedy walk is a path from the source; when it climbs every level it ends in
\* the last one.
LEMMA WalkIsPath ==
    ASSUME NEW v, NEW E, ViewShape(v, E), NEW c, c.src \in v.nodes,
           NEW levels, NEW n \in Nat, Len(levels) = n + 1
    PROVE  /\ GreedyWalk(v, c, levels) \in PathSet(v, E)
           /\ GreedyWalk(v, c, levels).nodes[1] = c.src
           /\ n > 0 /\ Len(GreedyWalk(v, c, levels).hops) = n =>
                GreedyWalk(v, c, levels).nodes[n + 1] \in levels[n + 1]
    <1> DEFINE T == {p \in PathSet(v, E) : p.nodes[1] = c.src}
               base == [nodes |-> <<c.src>>, hops |-> << >>]
    <1>1. base \in T
        <2>1. << >> \in Seq(E) /\ Len(<< >>) = 0
            OBVIOUS
        <2>2. <<c.src>> \in Seq(v.nodes) /\ Len(<<c.src>>) = 1 /\ <<c.src>>[1] = c.src
            BY OneElement
        <2>3. base.nodes = <<c.src>> /\ base.hops = << >> /\ base = [nodes |-> base.nodes, hops |-> base.hops]
            OBVIOUS
        <2> HIDE DEF base
        <2>4. /\ base.nodes \in Seq(v.nodes) /\ base.hops \in Seq(E)
              /\ Len(base.nodes) = Len(base.hops) + 1 /\ base.nodes[1] = c.src
            BY <2>1, <2>2, <2>3
        <2>5. base \in PathSet(v, E)
            BY <2>3, <2>4, PathIn
        <2> QED
            BY <2>4, <2>5
    <1>2. ASSUME NEW p \in T, NEW h \in 1..n
          PROVE  /\ Extend(v, c, levels, p, h) \in T
                 /\ Len(p.hops) <= h - 1 => Len(Extend(v, c, levels, p, h).hops) <= h
                 /\ Len(p.hops) <= h - 1 /\ Len(Extend(v, c, levels, p, h).hops) = h =>
                      Extend(v, c, levels, p, h).nodes[h + 1] \in levels[h + 1]
        <2> DEFINE m == Len(p.hops)
                   last == p.nodes[Len(p.nodes)]
                   next == v.adjacency[last]
                   I == {j \in 1..Len(next) : /\ next[j].to \in levels[h + 1]
                                              /\ Tight(v, c, h - 1, next[j])}
                   i == IF I # {} THEN Min(I) ELSE 0
                   longer == [nodes |-> Append(p.nodes, next[i].to), hops |-> Append(p.hops, next[i])]
        <2>1. Extend(v, c, levels, p, h) = IF i = 0 \/ m < h - 1 THEN p ELSE longer
            BY DEF Extend, SelectInSeq
        <2>2. /\ p = [nodes |-> p.nodes, hops |-> p.hops]
              /\ p.nodes \in Seq(v.nodes) /\ p.hops \in Seq(E) /\ m \in Nat
              /\ Len(p.nodes) = m + 1 /\ p.nodes[1] = c.src
            BY DEF PathSet
        <2>3. last \in v.nodes
            BY <2>2
        <2>4. next \in Seq({a \in E : a.from = last})
            BY <2>3 DEF ViewShape
        <2> HIDE DEF next
        <2>5. Len(next) \in Nat /\ \A j \in 1..Len(next) : next[j] \in E
            BY <2>4
        <2>6. CASE i = 0 \/ m < h - 1
            BY <2>1, <2>2, <2>6
        <2>7. CASE ~(i = 0 \/ m < h - 1)
            <3>1. I # {}
                BY <2>7
            <3>2. i \in I
                <4>1. I \in SUBSET (1..Len(next))
                    OBVIOUS
                <4> HIDE DEF I
                <4> QED
                    BY <2>5, <3>1, <4>1, MinIsLeast
            <3> DEFINE a == next[i]
            <3>3. a \in E /\ a.to \in levels[h + 1]
                BY <2>5, <3>2
            <3>4. a.to \in v.nodes
                BY <3>3 DEF ViewShape
            <3>5. Extend(v, c, levels, p, h) = longer
                BY <2>1, <2>7
            <3> HIDE DEF a, i, I
            <3>6. /\ longer.nodes = Append(p.nodes, a.to) /\ longer.hops = Append(p.hops, a)
                BY DEF a
            <3>7. /\ Append(p.nodes, a.to) \in Seq(v.nodes) /\ Append(p.hops, a) \in Seq(E)
                  /\ Len(Append(p.nodes, a.to)) = m + 2 /\ Len(Append(p.hops, a)) = m + 1
                  /\ Append(p.nodes, a.to)[1] = c.src
                  /\ Append(p.nodes, a.to)[m + 2] = a.to
                <4> DEFINE N == v.nodes
                           s == p.nodes
                           t == p.hops
                           y == a.to
                <4>1. s \in Seq(N) /\ t \in Seq(E) /\ y \in N /\ a \in E
                    BY <2>2, <3>3, <3>4
                <4>2. Len(s) = m + 1 /\ Len(t) = m /\ m \in Nat /\ s[1] = c.src
                    BY <2>2
                <4> HIDE DEF N, s, t, y, m
                <4>3. /\ Append(s, y) \in Seq(N) /\ Append(t, a) \in Seq(E)
                      /\ Len(Append(s, y)) = m + 2 /\ Len(Append(t, a)) = m + 1
                      /\ Append(s, y)[1] = c.src
                      /\ Append(s, y)[m + 2] = y
                    BY <4>1, <4>2
                <4> QED
                    BY <4>3 DEF N, s, t, y
            <3>8. longer \in T
                <4>1. longer = [nodes |-> Append(p.nodes, a.to), hops |-> Append(p.hops, a)]
                    BY DEF a
                <4>2. longer \in PathSet(v, E)
                    <5> HIDE DEF longer, m
                    <5>1. longer = [nodes |-> longer.nodes, hops |-> longer.hops]
                        BY <4>1
                    <5>2. /\ longer.nodes \in Seq(v.nodes) /\ longer.hops \in Seq(E)
                          /\ Len(longer.nodes) = Len(longer.hops) + 1
                        BY <2>2, <3>6, <3>7
                    <5> QED
                        BY <5>1, <5>2, PathIn
                <4> QED
                    BY <3>6, <3>7, <4>2
            <3> HIDE DEF longer, m, T
            <3>9. m <= h - 1 => Len(longer.hops) <= h
                BY <2>2, <3>6, <3>7
            <3>10. Len(longer.hops) = h => longer.nodes[h + 1] \in levels[h + 1]
                <4>1. Len(longer.hops) = h => m + 2 = h + 1
                    BY <2>2, <3>6, <3>7
                <4> QED
                    BY <3>3, <3>6, <3>7, <4>1
            <3> QED
                BY <3>5, <3>8, <3>9, <3>10 DEF m
        <2> QED
            BY <2>6, <2>7
    <1>3. n = Len(levels) - 1
        OBVIOUS
    <1> HIDE DEF T
    <1>4. PICK w : WalkSteps(w, n, T, v, c, levels)
        BY <1>1, <1>2, <1>3, WalkTrace
    <1>5. /\ w[0] = base /\ w[n] = GreedyWalk(v, c, levels) /\ \A i \in 0..n : w[i] \in T
          /\ \A i \in 1..n : w[i] = Extend(v, c, levels, w[i - 1], i)
        BY <1>4 DEF WalkSteps
    <1> DEFINE J == {i \in 0..n : /\ Len(w[i].hops) <= i
                                  /\ i > 0 /\ Len(w[i].hops) = i => w[i].nodes[i + 1] \in levels[i + 1]}
    <1>6. 0 \in J
        BY <1>5
    <1>7. ASSUME NEW i \in 1..n, i - 1 \in J
          PROVE  i \in J
        <2>1. i - 1 \in 0..n /\ w[i - 1] \in T /\ Len(w[i - 1].hops) <= i - 1
            BY <1>5, <1>7
        <2>2. w[i] = Extend(v, c, levels, w[i - 1], i)
            BY <1>5
        <2> QED
            BY <1>2, <2>1, <2>2
    <1> HIDE DEF J
    <1>8. \A i \in 0..n : i \in J
        BY <1>6, <1>7, IndexInduction
    <1>9. n \in J /\ w[n] \in T
        BY <1>5, <1>8
    <1> QED
        BY <1>5, <1>9 DEF J, T

\* A search has finitely many labels.
LEMMA KeysFinite ==
    ASSUME NEW v, NEW E, ViewShape(v, E), NEW c, RunInv(v, c)
    PROVE  IsFiniteSet(KeysOf(v, c)) /\ c.dist \in [KeysOf(v, c) -> Labels]
    <1>1. c.dist \in [KeysOf(v, c) -> Labels] /\ c.plain \in BOOLEAN
          /\ (~c.plain => c.hops \in Nat)
        BY DEF RunInv, CallRecords
    <1>2. IsFiniteSet(v.nodes)
        BY DEF ViewShape
    <1> DEFINE A == IF c.plain THEN {0} ELSE 0..c.hops
    <1>3. IsFiniteSet(A)
        <2>1. CASE c.plain
            BY <2>1, FS_Singleton
        <2>2. CASE ~c.plain
            BY <1>1, <2>2, FS_Interval
        <2> QED
            BY <2>1, <2>2
    <1>4. KeysOf(v, c) = A \X v.nodes
        BY DEF KeysOf
    <1> HIDE DEF A
    <1>5. IsFiniteSet(A \X v.nodes)
        BY <1>2, <1>3, FS_Product
    <1> QED
        BY <1>1, <1>4, <1>5

\* The path that stays where it is.
LEMMA TrivialPath ==
    ASSUME NEW v, NEW E, NEW x \in v.nodes
    PROVE  /\ [nodes |-> <<x>>, hops |-> << >>] \in PathSet(v, E)
           /\ [nodes |-> <<x>>, hops |-> << >>].nodes = <<x>>
           /\ [nodes |-> <<x>>, hops |-> << >>].hops = << >>
           /\ Len(<<x>>) = 1 /\ Len(<< >>) = 0 /\ <<x>>[1] = x
    <1> DEFINE base == [nodes |-> <<x>>, hops |-> << >>]
    <1>1. << >> \in Seq(E) /\ Len(<< >>) = 0
        OBVIOUS
    <1>2. <<x>> \in Seq(v.nodes) /\ Len(<<x>>) = 1 /\ <<x>>[1] = x
        BY OneElement
    <1>3. base.nodes = <<x>> /\ base.hops = << >> /\ base = [nodes |-> base.nodes, hops |-> base.hops]
        OBVIOUS
    <1> HIDE DEF base
    <1>4. /\ base.nodes \in Seq(v.nodes) /\ base.hops \in Seq(E)
          /\ Len(base.nodes) = Len(base.hops) + 1
        BY <1>1, <1>2, <1>3
    <1>5. base \in PathSet(v, E)
        BY <1>3, <1>4, PathIn
    <1> QED
        BY <1>1, <1>2, <1>3, <1>5 DEF base

\* What SearchOutcome reports of a call.
LEMMA SearchFinds ==
    ASSUME NEW E, ViewShape(view, E), CallGood(view, call)
    PROVE  /\ SearchOutcome.limit <=> call.status = "limit"
           /\ SearchOutcome.found => FoundPath(view, E, call, SearchOutcome.path)
    <1> DEFINE labels == TargetLabels(call)
               best   == CHOOSE l \in labels : \A m \in labels \ {l} : LexLess(l, m)
               levels == CanReach(view, call, best[2])
               walk   == GreedyWalk(view, call, levels)
               found  == /\ call.status = "running"
                         /\ labels # {}
                         /\ call.src \in levels[1]
                         /\ Len(walk.hops) = best[2]
               stay   == [nodes |-> <<call.src>>, hops |-> << >>]
               o      == SearchOutcome
    <1>1. o = [limit |-> call.status = "limit", overflow |-> call.overflow,
               found |-> call.status = "trivial" \/ found, path  |-> IF found THEN walk ELSE stay]
        BY DEF SearchOutcome
    <1> HIDE DEF found, walk, stay, o
    <1>2. /\ o.limit <=> call.status = "limit"
          /\ o.found <=> call.status = "trivial" \/ found
          /\ o.path = IF found THEN walk ELSE stay
        BY <1>1
    <1>3. call.src \in view.nodes /\ call.dst \in view.nodes /\ call.hops \in Nat \cup {Absent}
        BY DEF CallGood
    <1>4. ASSUME call.status = "trivial"
          PROVE  FoundPath(view, E, call, stay)
        <2>1. call.src = call.dst
            BY <1>4 DEF CallGood
        <2>2. /\ stay \in PathSet(view, E) /\ stay.nodes = <<call.src>> /\ stay.hops = << >>
              /\ Len(<<call.src>>) = 1 /\ Len(<< >>) = 0 /\ <<call.src>>[1] = call.src
            BY <1>3, TrivialPath DEF stay
        <2>3. call.hops # Absent => 0 <= call.hops
            BY <1>3
        <2> QED
            BY <2>1, <2>2, <2>3 DEF FoundPath
    <1>5. ASSUME found
          PROVE  FoundPath(view, E, call, walk)
        <2> DEFINE K == KeysOf(view, call)
                   hit == {k \in DOMAIN call.dist : k[2] = call.dst /\ call.dist[k][1] < CostMax}
                   n == best[2]
        <2>1. RunInv(view, call) /\ labels # {} /\ call.src \in levels[1] /\ Len(walk.hops) = n
            BY <1>5 DEF found, CallGood
        <2>2. IsFiniteSet(K) /\ call.dist \in [K -> Labels] /\ LabelsBounded(call.dist, K, call.hops)
            BY <2>1, KeysFinite DEF RunInv
        <2> HIDE DEF K
        <2>3. hit \in SUBSET K /\ hit \subseteq DOMAIN call.dist
            BY <2>2
        <2>4. labels = {call.dist[k] : k \in hit}
            BY DEF TargetLabels
        <2>5. /\ \A k \in hit : call.dist[k] \in Labels
              /\ \A k \in hit : call.dist[k][1] < CostMax
              /\ \A k \in hit : k \in K
            BY <2>2, <2>3
        <2> HIDE DEF hit
        <2>6. IsFiniteSet(labels)
            <3>1. IsFiniteSet(hit)
                BY <2>2, <2>3, FS_Subset
            <3> QED
                BY <2>3, <2>4, <3>1, ImageFinite
        <2>7. labels \in SUBSET Labels
            BY <2>4, <2>5
        <2>8. best \in labels
            <3> HIDE DEF labels
            <3> QED
                BY <2>1, <2>6, <2>7, BestLabelExists
        <2> HIDE DEF best
        <2>9. PICK k \in hit : best = call.dist[k]
            BY <2>4, <2>8
        <2>10. n \in Nat /\ best[1] < CostMax /\ best \in Labels
            BY <2>5, <2>9 DEF Labels
        <2>11. call.hops # Absent => n <= call.hops
            <3>1. best # Unreached
                BY <2>10, CostMaxAssumption DEF Unreached
            <3> QED
                BY <2>2, <2>5, <2>9, <3>1 DEF LabelsBounded
        <2> HIDE DEF n
        <2>12. Len(levels) = n + 1 /\ levels[n + 1] = {call.dst}
            BY <2>10, LevelsEnd DEF n
        <2> HIDE DEF levels
        <2>13. /\ walk \in PathSet(view, E)
               /\ walk.nodes[1] = call.src
               /\ n > 0 /\ Len(walk.hops) = n => walk.nodes[n + 1] \in levels[n + 1]
            BY <1>3, <2>10, <2>12, WalkIsPath DEF walk
        <2>14. Len(walk.nodes) = n + 1
            BY <2>1, <2>13, PathOut
        <2>15. walk.nodes[n + 1] = call.dst
            <3>1. CASE n = 0
                BY <2>1, <2>12, <2>13, <3>1
            <3>2. CASE n # 0
                BY <2>1, <2>10, <2>12, <2>13, <3>2
            <3> QED
                BY <3>1, <3>2
        <2> QED
            BY <2>1, <2>11, <2>13, <2>14, <2>15 DEF FoundPath
    <1> QED
        BY <1>2, <1>4, <1>5 DEF o, found

-----------------------------------------------------------------------------
(* The rank order of the candidates.                                       *)

\* The cost of a path is a number.
LEMMA CostIsNatural ==
    ASSUME NEW v, NEW E, ViewShape(v, E), NEW hops \in Seq(E)
    PROVE  AccumulatePathCost(v, hops) \in Nat
    <1> DEFINE n == Len(hops)
               D == DOMAIN hops
               degraded == Cardinality({i \in D : hops[i].degraded})
               outside  == Cardinality({i \in D : hops[i].outside})
               a == CheckedMul(v.hop_cost, n)
               b == StaticCost(hops)
               c == CheckedMul(v.degraded_penalty, degraded)
               d == CheckedMul(v.locality_penalty, outside)
               parts == <<a, b, c, d>>
    <1>1. n \in Nat /\ D = 1..n /\ \A i \in 1..n : hops[i] \in E
        OBVIOUS
    <1>2. /\ v.hop_cost \in Nat /\ v.degraded_penalty \in Nat /\ v.locality_penalty \in Nat
          /\ E \in SUBSET EntryRecords
        BY DEF ViewShape
    <1>3. \A i \in 1..n : hops[i].static \in Nat
        BY <1>1, <1>2 DEF EntryRecords
    <1>4. degraded \in Nat /\ outside \in Nat
        <2>1. IsFiniteSet(1..n)
            BY <1>1, FS_Interval
        <2>2. \A X \in SUBSET (1..n) : Cardinality(X) \in Nat
            BY <2>1, FS_Subset, FS_CardinalityType
        <2> QED
            BY <1>1, <2>2
    <1> HIDE DEF n, degraded, outside
    <1>5. b \in Nat
        <2> DEFINE T == Nat
        <2>1. 0 \in T /\ \A t \in T, i \in 1..n : CheckedAdd(t, hops[i].static) \in T
            BY <1>3, AddIsNatural
        <2> HIDE DEF T
        <2>2. StaticCost(hops) \in T
            BY <1>1, <2>1, StaticTrace
        <2> QED
            BY <2>2 DEF T
    <1>6. a \in Nat /\ c \in Nat /\ d \in Nat
        BY <1>1, <1>2, <1>4, MulIsNatural
    <1> HIDE DEF a, b, c, d
    <1>7. DOMAIN parts = 1..4 /\ \A i \in 1..4 : parts[i] \in Nat
        BY <1>5, <1>6
    <1> HIDE DEF parts
    <1>8. CheckedSum(parts) \in Nat
        <2> DEFINE m == 4
                   T == Nat
        <2>1. m \in Nat /\ DOMAIN parts = 1..m
            BY <1>7
        <2>2. 0 \in T /\ \A t \in T, i \in 1..m : CheckedAdd(t, parts[i]) \in T
            BY <1>7, AddIsNatural
        <2> HIDE DEF m, T
        <2>3. CheckedSum(parts) \in T
            BY <2>1, <2>2, PartsTrace
        <2> QED
            BY <2>3 DEF T
    <1>9. Overflow \in Nat
        BY CostMaxAssumption DEF Overflow
    <1>10. AccumulatePathCost(v, hops) = IF n > MaxHopCount THEN Overflow ELSE CheckedSum(parts)
        BY DEF AccumulatePathCost, n, degraded, outside, a, b, c, d, parts
    <1> QED
        BY <1>8, <1>9, <1>10

\* A rank key lists cost, hops, nodes and links.
KeyShape(key, n, nodes, links) ==
  /\ key \in Seq(Int) /\ Len(key) = n + n + 3
  /\ key[2] = n
  /\ \A i \in 1..(n + 1) : key[i + 2] = nodes[i]
  /\ \A i \in 1..n : key[i + n + 3] = links[i]

\* The rank key of a path holds its nodes and its links.
LEMMA KeyParts ==
    ASSUME NEW n \in Nat, NEW h \in Seq(Int), Len(h) = 2, h[2] = n,
           NEW nodes \in Seq(Int), Len(nodes) = n + 1,
           NEW links \in Seq(Int), Len(links) = n, NEW key, key = (h \o nodes) \o links
    PROVE  KeyShape(key, n, nodes, links)
    <1> DEFINE g == h \o nodes
    <1>1. /\ g \in Seq(Int) /\ Len(g) = Len(h) + Len(nodes)
          /\ \A i \in 1..(Len(h) + Len(nodes)) : g[i] = IF i <= Len(h) THEN h[i] ELSE nodes[i - Len(h)]
        BY ConcatProperties
    <1> HIDE DEF g
    <1>2. /\ g \in Seq(Int) /\ Len(g) = n + 3
          /\ \A i \in 1..(n + 3) : g[i] = IF i <= 2 THEN h[i] ELSE nodes[i - 2]
        <2>1. Len(h) + Len(nodes) = n + 3
            OBVIOUS
        <2> QED
            BY <1>1, <2>1
    <1>3. key = g \o links
        BY DEF g
    <1>9. /\ key \in Seq(Int) /\ Len(key) = Len(g) + Len(links)
          /\ \A i \in 1..(Len(g) + Len(links)) :
               key[i] = IF i <= Len(g) THEN g[i] ELSE links[i - Len(g)]
        <2> DEFINE k == g \o links
        <2>1. /\ k \in Seq(Int) /\ Len(k) = Len(g) + Len(links)
              /\ \A i \in 1..(Len(g) + Len(links)) :
                   k[i] = IF i <= Len(g) THEN g[i] ELSE links[i - Len(g)]
            BY <1>2, ConcatProperties
        <2> HIDE DEF k
        <2>2. key = k
            BY <1>3 DEF k
        <2> QED
            BY <2>1, <2>2
    <1>4. /\ key \in Seq(Int) /\ Len(key) = n + 3 + n
          /\ \A i \in 1..(n + 3 + n) : key[i] = IF i <= n + 3 THEN g[i] ELSE links[i - (n + 3)]
        <2>1. Len(g) + Len(links) = n + 3 + n
            BY <1>2
        <2> QED
            BY <1>2, <1>9, <2>1
    <1>5. ASSUME NEW i \in 1..(n + 1)
          PROVE  key[i + 2] = nodes[i]
        <2>1. i + 2 \in 1..(n + 3 + n) /\ i + 2 <= n + 3 /\ i + 2 \in 1..(n + 3) /\ ~(i + 2 <= 2)
              /\ (i + 2) - 2 = i
            OBVIOUS
        <2>2. key[i + 2] = g[i + 2] /\ g[i + 2] = nodes[(i + 2) - 2]
            BY <1>2, <1>4, <2>1
        <2> QED
            BY <2>1, <2>2
    <1>6. ASSUME NEW i \in 1..n
          PROVE  key[i + n + 3] = links[i]
        <2>1. /\ i + n + 3 \in 1..(n + 3 + n) /\ ~(i + n + 3 <= n + 3)
              /\ (i + n + 3) - (n + 3) = i
            OBVIOUS
        <2>2. key[i + n + 3] = links[(i + n + 3) - (n + 3)]
            BY <1>4, <2>1
        <2> QED
            BY <2>1, <2>2
    <1>7. key[2] = n
        <2>1. 2 \in 1..(n + 3 + n) /\ 2 <= n + 3 /\ 2 \in 1..(n + 3)
            OBVIOUS
        <2> QED
            BY <1>2, <1>4, <2>1
    <1>8. n + 3 + n = n + n + 3
        OBVIOUS
    <1> QED
        BY <1>4, <1>5, <1>6, <1>7, <1>8 DEF KeyShape

\* RankKey of a path.
LEMMA RankKeyParts ==
    ASSUME NEW v, NEW E, ViewShape(v, E), NEW p \in PathSet(v, E)
    PROVE  LET key == RankKey(v, p)
               n == Len(p.hops) IN
           /\ key \in Seq(Int) /\ Len(key) = n + n + 3
           /\ key[2] = n
           /\ \A i \in 1..(n + 1) : key[i + 2] = p.nodes[i]
           /\ \A i \in 1..n : key[i + n + 3] = p.hops[i].link
    <1> DEFINE n == Len(p.hops)
               a == AccumulatePathCost(v, p.hops)
               nodes == p.nodes
               hops == p.hops
               links == [i \in 1..n |-> hops[i].link]
               key == RankKey(v, p)
               h == <<a, n>>
    <1>1. /\ nodes \in Seq(v.nodes) /\ hops \in Seq(E) /\ n \in Nat /\ Len(nodes) = n + 1
          /\ DOMAIN hops = 1..n
        BY PathOut
    <1>2. v.nodes \in SUBSET Nat /\ E \in SUBSET EntryRecords
        BY DEF ViewShape
    <1>3. \A x \in E : x.link \in Int
        BY <1>2 DEF EntryRecords
    <1>4. a \in Int
        BY <1>1, CostIsNatural
    <1>5. key = (h \o nodes) \o links
        BY <1>1 DEF RankKey
    <1>10. h \in Seq(Int) /\ Len(h) = 2 /\ h[2] = n
        <2> HIDE DEF a, n
        <2> QED
            BY <1>1, <1>4
    <1> HIDE DEF h
    <1> HIDE DEF a, nodes, hops, n, key
    <1>6. nodes \in Seq(Int)
        BY <1>1, <1>2
    <1>7. links \in Seq(Int) /\ Len(links) = n /\ \A i \in 1..n : links[i] = hops[i].link
        BY <1>1, <1>3
    <1> HIDE DEF links
    <1>11. /\ n \in Nat /\ h \in Seq(Int) /\ Len(h) = 2 /\ h[2] = n
           /\ nodes \in Seq(Int) /\ Len(nodes) = n + 1
           /\ links \in Seq(Int) /\ Len(links) = n /\ key = (h \o nodes) \o links
        BY <1>1, <1>5, <1>6, <1>7, <1>10
    <1>8. /\ key \in Seq(Int) /\ Len(key) = n + n + 3
          /\ key[2] = n
          /\ \A i \in 1..(n + 1) : key[i + 2] = nodes[i]
          /\ \A i \in 1..n : key[i + n + 3] = links[i]
        <2>1. KeyShape(key, n, nodes, links)
            BY <1>11, KeyParts
        <2> QED
            BY <2>1 DEF KeyShape
    <1>9. \A i \in 1..n : key[i + n + 3] = hops[i].link
        BY <1>7, <1>8
    <1> QED
        BY <1>8, <1>9 DEF nodes, hops, n, key

\* Two different paths are ranked one before the other.
LEMMA RankIsTotal ==
    ASSUME NEW v, NEW E, ViewShape(v, E), NEW p \in PathSet(v, E), NEW q \in PathSet(v, E), p # q
    PROVE  RankedBefore(v, p, q) \/ RankedBefore(v, q, p)
    <1> DEFINE n == Len(p.hops)
               m == Len(q.hops)
               s == RankKey(v, p)
               t == RankKey(v, q)
    <1>1. /\ n \in Nat /\ m \in Nat /\ p = [nodes |-> p.nodes, hops |-> p.hops]
          /\ q = [nodes |-> q.nodes, hops |-> q.hops]
          /\ p.nodes \in Seq(v.nodes) /\ q.nodes \in Seq(v.nodes)
          /\ p.hops \in Seq(E) /\ q.hops \in Seq(E)
          /\ Len(p.nodes) = n + 1 /\ Len(q.nodes) = m + 1
        BY PathOut
    <1>2. /\ s \in Seq(Int) /\ Len(s) = n + n + 3 /\ s[2] = n
          /\ \A i \in 1..(n + 1) : s[i + 2] = p.nodes[i]
          /\ \A i \in 1..n : s[i + n + 3] = p.hops[i].link
        BY RankKeyParts
    <1>3. /\ t \in Seq(Int) /\ Len(t) = m + m + 3 /\ t[2] = m
          /\ \A i \in 1..(m + 1) : t[i + 2] = q.nodes[i]
          /\ \A i \in 1..m : t[i + m + 3] = q.hops[i].link
        BY RankKeyParts
    <1>4. \A x, y \in E : x.link = y.link => x = y
        BY DEF ViewShape
    <1> HIDE DEF s, t
    <1>5. \E i \in 1..Len(s) : i <= Len(t) /\ s[i] # t[i]
        <2>1. CASE n # m
            <3>1. 2 \in 1..Len(s) /\ 2 <= Len(t) /\ s[2] # t[2]
                BY <1>1, <1>2, <1>3, <2>1
            <3> QED
                BY <3>1
        <2>2. CASE n = m /\ p.nodes # q.nodes
            <3> DEFINE x == p.nodes
                       y == q.nodes
            <3>1. PICK i \in 1..(n + 1) : x[i] # y[i]
                <4>1. x \in Seq(v.nodes) /\ y \in Seq(v.nodes) /\ Len(x) = Len(y) /\ x # y
                    BY <1>1, <2>2
                <4>2. Len(x) = n + 1
                    BY <1>1
                <4> HIDE DEF x, y, n
                <4> QED
                    BY <4>1, <4>2, SeqEqual
            <3>3. i + 2 \in 1..(n + n + 3)
                BY <1>1, <3>1
            <3> HIDE DEF n, m
            <3>2. i + 2 \in 1..Len(s) /\ i + 2 <= Len(t) /\ s[i + 2] # t[i + 2]
                BY <1>2, <1>3, <2>2, <3>1, <3>3
            <3> QED
                BY <3>2
        <2>3. CASE n = m /\ p.nodes = q.nodes
            <3>1. p.hops # q.hops
                BY <1>1, <2>3
            <3>2. PICK i \in 1..n : p.hops[i] # q.hops[i]
                BY <1>1, <2>3, <3>1
            <3>3. p.hops[i].link # q.hops[i].link
                BY <1>1, <1>4, <2>3, <3>2
            <3>4. i + n + 3 \in 1..Len(s) /\ i + n + 3 <= Len(t) /\ s[i + n + 3] # t[i + n + 3]
                <4>1. i + n + 3 \in 1..(n + n + 3) /\ m = n
                    BY <1>1, <2>3, <3>2
                <4> HIDE DEF n, m
                <4> QED
                    BY <1>2, <1>3, <3>2, <3>3, <4>1
            <3> QED
                BY <3>4
        <2> QED
            BY <2>1, <2>2, <2>3
    <1>6. PICK i \in 1..Len(s) : i <= Len(t) /\ s[i] # t[i]
        BY <1>5
    <1>7. LexLess(s, t) \/ LexLess(t, s)
        BY <1>2, <1>3, <1>6, LexTotal
    <1> QED
        BY <1>7 DEF RankedBefore, s, t

\* The rank order of a set of paths is a strict total order.
LEMMA RankOrder ==
    ASSUME NEW v, NEW E, ViewShape(v, E), NEW X \in SUBSET PathSet(v, E)
    PROVE  StrictOrder({p \in X \X X : RankedBefore(v, p[1], p[2])}, X)
    <1> DEFINE R == {p \in X \X X : RankedBefore(v, p[1], p[2])}
    <1>1. \A p, q \in X : <<p, q>> \in R <=> RankedBefore(v, p, q)
        OBVIOUS
    <1>2. \A p \in X : RankKey(v, p) \in Seq(Int)
        BY RankKeyParts
    <1>3. \A p \in X : ~RankedBefore(v, p, p)
        BY <1>2, LexIrreflexive DEF RankedBefore
    <1>4. \A o, p, q \in X : RankedBefore(v, o, p) /\ RankedBefore(v, p, q) => RankedBefore(v, o, q)
        BY <1>2, LexTransitive DEF RankedBefore
    <1>5. \A p, q \in X : p # q => RankedBefore(v, p, q) \/ RankedBefore(v, q, p)
        BY RankIsTotal
    <1> HIDE DEF R
    <1>6. StrictOrder(R, X)
        BY <1>1, <1>3, <1>4, <1>5, Zenon DEF StrictOrder
    <1> QED
        BY <1>6 DEF R

\* The best of a finite set of paths is one of them.
LEMMA BestExists ==
    ASSUME NEW E, ViewShape(view, E), NEW X \in SUBSET PathSet(view, E), IsFiniteSet(X), X # {}
    PROVE  Best(X) \in X
    <1> DEFINE R == {p \in X \X X : RankedBefore(view, p[1], p[2])}
    <1>1. StrictOrder(R, X)
        BY RankOrder
    <1>2. \A p, q \in X : <<p, q>> \in R <=> RankedBefore(view, p, q)
        OBVIOUS
    <1> HIDE DEF R
    <1>3. \E x \in X : \A y \in X \ {x} : <<x, y>> \in R
        BY <1>1, LeastExists
    <1>4. \E x \in X : \A y \in X \ {x} : RankedBefore(view, x, y)
        BY <1>2, <1>3
    <1> QED
        BY <1>4, Zenon DEF Best

-----------------------------------------------------------------------------
(* The enumeration.                                                        *)

\* The paths within the hop bound of the options.
Paths(v, E, o) == {p \in PathSet(v, E) : o.max_hops # Absent => Len(p.hops) <= o.max_hops}

\* A path visits the first m stages in order.
Visits(p, o, m) ==
  \E at \in [1..m -> DOMAIN p.nodes] :
     /\ \A j \in 1..m : p.nodes[at[j]] \in Range(o.stages[j].alternatives)
     /\ \A j, k \in 1..m : j <= k => at[j] <= at[k]

\* The options of an enumeration over the view v.
OptionsGood(v, o) ==
  /\ o.source \in v.nodes /\ o.destination \in v.nodes
  /\ o.max_hops \in Nat \cup {Absent} /\ o.member_limit \in Nat \cup {Absent}
  /\ o.k \in Nat
  /\ o.stages \in Seq(Range(o.stages))
  /\ \A t \in Range(o.stages) : t.alternatives \in Seq(Nat)

\* The phases that wait for a search.
Waiting == {"firsting", "spurring", "legging", "finaling"}

\* The phases of an enumeration.
Phases == {"start", "spur", "combination", "leg", "done"} \cup Waiting

\* The codes an enumeration fails with.
Failures == {"NO_STRUCTURAL_PATH", "COST_OVERFLOW", "UNSUPPORTED_REQUEST",
             "CONSTRAINT_COUNT_EXCEEDED", "WORK_BUDGET_EXHAUSTED", "REQUIRED_NODE_MISSING",
             "REQUIRED_ANY_SET_UNSATISFIED", "MAX_HOPS_EXCEEDED",
             "ZERO_HOP_SELF_PATH_DISALLOWED"}

\* The results of an enumeration.
ResultRecords(P) == [ok : BOOLEAN, failure : Failures, limit : BOOLEAN, truncated : BOOLEAN,
                     paths : Seq(P)]

\* The locals of an enumeration.
EnumRecords(P, o) ==
  [phase : Phases, options : {o}, result : ResultRecords(P), accepted : Seq(P),
   pending : SUBSET P, spur : Nat, combination : Nat, stage : Nat,
   combined : P \cup {<< >>}, best : SUBSET P, leg_failure : Failures \ {"WORK_BUDGET_EXHAUSTED"}]

\* What is left of the hop bound.
BoundLeft(o, used) == IF o.max_hops = Absent THEN Absent ELSE o.max_hops - used

\* The numbers of alternatives of the stages.
Sizes(o) == [i \in DOMAIN o.stages |-> Len(o.stages[i].alternatives)]

\* The last node of a path.
LastNode(p) == p.nodes[Len(p.nodes)]

\* Where the loop of Yen's algorithm is.
YenInv(o, e, c) ==
  LET last == e.accepted[Len(e.accepted)] IN
  /\ e.phase \in {"firsting", "spur", "spurring"} => o.stages = << >>
  /\ e.phase = "firsting" => c.hops = o.max_hops
  /\ e.phase \in {"spur", "spurring"} => e.accepted # << >>
  /\ e.phase = "spurring" => e.spur < Len(last.hops) /\ c.hops = BoundLeft(o, e.spur)

\* Where the loops over the combinations and their legs are.
LegInv(P, o, e, c) ==
  /\ e.phase \in {"combination", "leg", "legging", "finaling"} => o.stages # << >>
  /\ e.phase \in {"leg", "legging", "finaling"} =>
       /\ e.combination < Product(Sizes(o))
       /\ e.combined \in P
       /\ e.stage \in 1..(Len(o.stages) + 1)
       /\ Visits(e.combined, o, e.stage - 1)
  /\ e.phase \in {"legging", "finaling"} => c.hops = BoundLeft(o, Len(e.combined.hops))
  /\ e.phase = "legging" => /\ e.stage <= Len(o.stages)
                            /\ c.src = LastNode(e.combined)
                            /\ c.dst \in Range(o.stages[e.stage].alternatives)
  /\ e.phase = "finaling" => e.stage = Len(o.stages) + 1

\* The searches of the enumeration and the budget they share.
WorkInv(v, o, l, e, c, b) ==
  /\ e.phase \in Waiting => CallGood(v, c)
  /\ e.phase \notin Waiting => c = Idle
  /\ b \in WorkBudgets(l)
  /\ b.exhausted => \/ e.phase \in Waiting /\ c.status = "limit"
                    \/ e.phase = "done" /\ e.result.failure = "WORK_BUDGET_EXHAUSTED"
  /\ e.phase \in Waiting /\ c.status = "limit" => b.exhausted \/ o.max_hops # Absent
  /\ e.result.failure = "WORK_BUDGET_EXHAUSTED" =>
       /\ e.phase = "done" /\ ~e.result.ok /\ e.result.limit /\ e.result.paths = << >>
       /\ b.exhausted \/ b.spurs = 0 \/ o.max_hops # Absent

\* What the enumeration has to show for it.
FoundInv(s, o, e) ==
  /\ e.phase # "done" => e.result = NoResult
  /\ IsFiniteSet(e.pending)
  /\ e.best = {} \/ \E p \in e.best : e.best = {p}
  /\ \A p \in e.best \cup Range(e.result.paths) : Visits(p, o, Len(o.stages))
  /\ o.stages = << >> /\ o.member_limit # Absent =>
       \A p \in Range(e.result.paths) :
          DomainMemberLimitCompliant(s, p, o.member_limit, o.fail_closed)

\* The inductive invariant of an enumeration.
EnumInv(s, v, E, o, l, e, c, b) ==
  /\ e \in EnumRecords(Paths(v, E, o), o)
  /\ YenInv(o, e, c)
  /\ LegInv(Paths(v, E, o), o, e, c)
  /\ WorkInv(v, o, l, e, c, b)
  /\ FoundInv(s, o, e)

\* The paths within the hop bound.
LEMMA PathsAre ==
    ASSUME NEW v, NEW E, NEW o, NEW p
    PROVE  p \in Paths(v, E, o) <=> /\ p \in PathSet(v, E)
                                    /\ o.max_hops # Absent => Len(p.hops) <= o.max_hops
    BY DEF Paths

\* The enumeration goes on without a search.
LEMMA GotoInv ==
    ASSUME NEW E, NEW o, NEW l, EnumInv(snapshot, view, E, o, l, enum, call, budget),
           NEW next \in EnumRecords(Paths(view, E, o), o), next.phase \notin Waiting,
           YenInv(o, next, Idle), LegInv(Paths(view, E, o), o, next, Idle),
           FoundInv(snapshot, o, next), next.result.failure # "WORK_BUDGET_EXHAUSTED",
           ~budget.exhausted, Goto(next)
    PROVE  EnumInv(snapshot, view, E, o, l, enum', call', budget')
    <1>1. enum' = next /\ call' = Idle /\ budget' = budget
        BY DEF Goto
    <1>2. budget \in WorkBudgets(l)
        BY DEF EnumInv, WorkInv
    <1>3. WorkInv(view, o, l, next, Idle, budget)
        BY <1>2 DEF WorkInv
    <1>4. EnumInv(snapshot, view, E, o, l, next, Idle, budget)
        BY <1>3 DEF EnumInv
    <1> QED
        BY <1>1, <1>4

\* The enumeration starts a search.
LEMMA SearchInv ==
    ASSUME NEW E, ViewShape(view, E), NEW o, NEW l, Limits(l),
           NEW next \in EnumRecords(Paths(view, E, o), o), next.phase \in Waiting,
           next.result = NoResult, FoundInv(snapshot, o, next),
           NEW b \in WorkBudgets(l), ~b.exhausted,
           NEW src \in view.nodes, NEW dst \in view.nodes, NEW hops \in Nat \cup {Absent},
           hops # Absent => o.max_hops # Absent,
           NEW bn \in SUBSET Nat, NEW bl \in SUBSET Nat,
           \A c : c.src = src /\ c.dst = dst /\ c.hops = hops =>
                    YenInv(o, next, c) /\ LegInv(Paths(view, E, o), o, next, c),
           Search(next, b, src, dst, hops, bn, bl)
    PROVE  EnumInv(snapshot, view, E, o, l, enum', call', budget')
    <1>1. enum' = next /\ BeginSearch(b, src, dst, hops, bn, bl)
        BY DEF Search
    <1>2. BeginOutcome(view, call', src, dst, hops, budget', l)
        BY <1>1, BeginStep
    <1> DEFINE d == call'
               y == budget'
    <1>3. /\ CallGood(view, d) /\ d.src = src /\ d.dst = dst /\ d.hops = hops
          /\ y \in WorkBudgets(l) /\ (y.exhausted => d.status = "limit")
          /\ (d.status = "limit" => y.exhausted \/ hops # Absent)
        BY <1>2 DEF BeginOutcome
    <1>4. enum' = next
        BY <1>1
    <1> HIDE DEF d, y
    <1>5. YenInv(o, next, d) /\ LegInv(Paths(view, E, o), o, next, d)
        BY <1>3
    <1>6. next.result.failure # "WORK_BUDGET_EXHAUSTED"
        BY DEF NoResult
    <1>7. WorkInv(view, o, l, next, d, y)
        BY <1>3, <1>6 DEF WorkInv
    <1>8. EnumInv(snapshot, view, E, o, l, next, d, y)
        BY <1>5, <1>7 DEF EnumInv
    <1> QED
        BY <1>4, <1>8 DEF d, y

\* The fields of the locals.
LEMMA EnumFields ==
    ASSUME NEW P, NEW o, NEW e \in EnumRecords(P, o)
    PROVE  /\ e.phase \in Phases /\ e.options = o /\ e.result \in ResultRecords(P)
           /\ e.accepted \in Seq(P) /\ e.pending \in SUBSET P /\ e.spur \in Nat
           /\ e.combination \in Nat /\ e.stage \in Nat /\ e.combined \in P \cup {<< >>}
           /\ e.best \in SUBSET P /\ e.leg_failure \in Failures \ {"WORK_BUDGET_EXHAUSTED"}
    BY DEF EnumRecords

\* The enumeration ends with a result.
Ended(e, r) == [e EXCEPT !.phase = "done", !.result = r]

\* The fields of an enumeration that has ended,
LEMMA EndedFields ==
    ASSUME NEW P, NEW o, NEW e \in EnumRecords(P, o), NEW r \in ResultRecords(P)
    PROVE  /\ Ended(e, r) \in EnumRecords(P, o)
           /\ Ended(e, r).phase = "done" /\ Ended(e, r).result = r
           /\ Ended(e, r).pending = e.pending /\ Ended(e, r).best = e.best
    <1>1. "done" \in Phases
        BY DEF Phases
    <1> QED
        BY <1>1 DEF Ended, EnumRecords

\* A result that the options allow.
ResultGood(s, P, o, r) ==
  /\ r \in ResultRecords(P)
  /\ \A p \in Range(r.paths) : Visits(p, o, Len(o.stages))
  /\ o.stages = << >> /\ o.member_limit # Absent =>
       \A p \in Range(r.paths) : DomainMemberLimitCompliant(s, p, o.member_limit, o.fail_closed)

\* and what its invariant asks of them.
LEMMA EndedFound ==
    ASSUME NEW P, NEW o, NEW e \in EnumRecords(P, o), FoundInv(snapshot, o, e),
           NEW r, ResultGood(snapshot, P, o, r), NEW c
    PROVE  /\ FoundInv(snapshot, o, Ended(e, r))
           /\ YenInv(o, Ended(e, r), c) /\ LegInv(P, o, Ended(e, r), c)
    <1> DEFINE f == Ended(e, r)
    <1>1. f.phase = "done" /\ f.result = r /\ f.pending = e.pending /\ f.best = e.best
        BY EndedFields DEF ResultGood
    <1> HIDE DEF f
    <1>2. FoundInv(snapshot, o, f)
        BY <1>1 DEF FoundInv, ResultGood
    <1>3. YenInv(o, f, c) /\ LegInv(P, o, f, c)
        BY <1>1 DEF YenInv, LegInv
    <1> QED
        BY <1>2, <1>3 DEF f

\* An enumeration that ends with a good result keeps the invariant.
LEMMA FinishInv ==
    ASSUME NEW E, NEW o, NEW l, EnumInv(snapshot, view, E, o, l, enum, call, budget),
           NEW r, ResultGood(snapshot, Paths(view, E, o), o, r),
           r.failure # "WORK_BUDGET_EXHAUSTED", ~budget.exhausted, Finish(r)
    PROVE  EnumInv(snapshot, view, E, o, l, enum', call', budget')
    <1> DEFINE P == Paths(view, E, o)
               next == Ended(enum, r)
    <1>1. enum \in EnumRecords(P, o) /\ FoundInv(snapshot, o, enum) /\ r \in ResultRecords(P)
        BY DEF EnumInv, ResultGood
    <1>2. Goto(next)
        BY DEF Finish, Ended
    <1> HIDE DEF P
    <1>3. next \in EnumRecords(P, o) /\ next.phase = "done" /\ next.result = r
        BY <1>1, EndedFields
    <1>4. ResultGood(snapshot, P, o, r)
        BY DEF P
    <1>5. FoundInv(snapshot, o, next) /\ YenInv(o, next, Idle) /\ LegInv(P, o, next, Idle)
        BY <1>1, <1>4, EndedFound
    <1> HIDE DEF next
    <1>6. next.phase \notin Waiting
        BY <1>3 DEF Waiting
    <1> QED
        BY <1>2, <1>3, <1>5, <1>6, GotoInv DEF P

\* An empty result keeps every promise about paths.
LEMMA EmptyResult ==
    ASSUME NEW P, NEW o, NEW code \in Failures
    PROVE  /\ ResultGood(snapshot, P, o, [NoResult EXCEPT !.failure = code])
           /\ ResultGood(snapshot, P, o, [NoResult EXCEPT !.failure = code, !.limit = TRUE])
           /\ [NoResult EXCEPT !.failure = code].failure = code
           /\ [NoResult EXCEPT !.failure = code, !.limit = TRUE].failure = code
           /\ [NoResult EXCEPT !.failure = code, !.limit = TRUE].limit
           /\ ~[NoResult EXCEPT !.failure = code, !.limit = TRUE].ok
           /\ [NoResult EXCEPT !.failure = code, !.limit = TRUE].paths = << >>
    <1> DEFINE r1 == [NoResult EXCEPT !.failure = code]
               r2 == [NoResult EXCEPT !.failure = code, !.limit = TRUE]
    <1>1. << >> \in Seq(P) /\ Range(<< >>) = {}
        BY DEF Range
    <1>2. /\ NoResult \in ResultRecords(P) /\ NoResult.paths = << >> /\ ~NoResult.ok
        BY <1>1 DEF NoResult, ResultRecords, Failures
    <1>3. r1 \in ResultRecords(P) /\ r1.failure = code /\ r1.paths = NoResult.paths
        BY <1>2 DEF ResultRecords
    <1>4. /\ r2 \in ResultRecords(P) /\ r2.failure = code /\ r2.paths = NoResult.paths
          /\ r2.limit /\ r2.ok = NoResult.ok
        BY <1>2 DEF ResultRecords
    <1> HIDE DEF r1, r2
    <1>5. ResultGood(snapshot, P, o, r1) /\ ResultGood(snapshot, P, o, r2)
        BY <1>1, <1>2, <1>3, <1>4 DEF ResultGood
    <1> QED
        BY <1>2, <1>3, <1>4, <1>5 DEF r1, r2

\* An enumeration that fails keeps the invariant.
LEMMA FailInv ==
    ASSUME NEW E, NEW o, NEW l, EnumInv(snapshot, view, E, o, l, enum, call, budget),
           NEW code \in Failures \ {"WORK_BUDGET_EXHAUSTED"}, ~budget.exhausted,
           Fail(code) \/ FailLimit(code)
    PROVE  EnumInv(snapshot, view, E, o, l, enum', call', budget')
    <1> DEFINE r1 == [NoResult EXCEPT !.failure = code]
               r2 == [NoResult EXCEPT !.failure = code, !.limit = TRUE]
    <1>1. Finish(r1) \/ Finish(r2)
        BY DEF Fail, FailLimit
    <1>2. /\ ResultGood(snapshot, Paths(view, E, o), o, r1) /\ r1.failure = code
          /\ ResultGood(snapshot, Paths(view, E, o), o, r2) /\ r2.failure = code
        BY EmptyResult
    <1> HIDE DEF r1, r2
    <1> QED
        BY <1>1, <1>2, FinishInv

\* A search that was refused or stopped ends the enumeration.
LEMMA LimitInv ==
    ASSUME NEW E, NEW o, NEW l, EnumInv(snapshot, view, E, o, l, enum, call, budget),
           enum.phase \in Waiting, call.status = "limit", FailLimit("WORK_BUDGET_EXHAUSTED")
    PROVE  EnumInv(snapshot, view, E, o, l, enum', call', budget')
    <1> DEFINE P == Paths(view, E, o)
               code == "WORK_BUDGET_EXHAUSTED"
               r == [NoResult EXCEPT !.failure = code, !.limit = TRUE]
               next == Ended(enum, r)
    <1>1. enum \in EnumRecords(P, o) /\ FoundInv(snapshot, o, enum) /\ budget \in WorkBudgets(l)
          /\ (budget.exhausted \/ o.max_hops # Absent)
        BY DEF EnumInv, WorkInv
    <1>2. enum' = next /\ call' = Idle /\ budget' = budget
        BY DEF FailLimit, Finish, Goto, Ended
    <1>3. code \in Failures
        BY DEF Failures
    <1>4. ResultGood(snapshot, P, o, r) /\ r.failure = code /\ r.limit /\ ~r.ok /\ r.paths = << >>
        <2> HIDE DEF code
        <2> QED
            BY <1>3, EmptyResult
    <1> HIDE DEF P, r
    <1>5. next \in EnumRecords(P, o) /\ next.phase = "done" /\ next.result = r
        BY <1>1, <1>4, EndedFields DEF ResultGood
    <1>6. FoundInv(snapshot, o, next) /\ YenInv(o, next, Idle) /\ LegInv(P, o, next, Idle)
        BY <1>1, <1>4, EndedFound
    <1> HIDE DEF next
    <1>7. WorkInv(view, o, l, next, Idle, budget)
        BY <1>1, <1>4, <1>5 DEF WorkInv, Waiting
    <1>8. EnumInv(snapshot, view, E, o, l, next, Idle, budget)
        BY <1>5, <1>6, <1>7 DEF EnumInv, P
    <1> QED
        BY <1>2, <1>8

\* What an enumeration may rely on.
EnumContext(E, o, l) == ViewShape(view, E) /\ OptionsGood(view, o) /\ Limits(l)

\* The invariant and where it is used.
EnumGood(E, o, l) ==
  EnumContext(E, o, l) /\ EnumInv(snapshot, view, E, o, l, enum, call, budget)

\* A search that is over but not limited left the budget in peace.
LEMMA NotExhausted ==
    ASSUME NEW E, NEW o, NEW l, EnumGood(E, o, l), enum.phase # "done",
           enum.phase \in Waiting => call.status # "limit"
    PROVE  ~budget.exhausted
    BY DEF EnumGood, EnumInv, WorkInv

\* So does a turn of its search.
LEMMA PopInv ==
    ASSUME NEW E, NEW o, NEW l, EnumGood(E, o, l), Pop
    PROVE  /\ PopOutcome(view, call, call', budget', l)
           /\ EnumInv(snapshot, view, E, o, l, enum', call', budget')
    <1> DEFINE P == Paths(view, E, o)
               d == call'
               y == budget'
    <1>1. call.status = "running" /\ enum' = enum
        BY DEF Pop
    <1>2. ViewShape(view, E) /\ Limits(l) /\ enum \in EnumRecords(P, o) /\ YenInv(o, enum, call)
          /\ LegInv(P, o, enum, call) /\ WorkInv(view, o, l, enum, call, budget)
          /\ FoundInv(snapshot, o, enum)
        BY DEF EnumGood, EnumContext, EnumInv
    <1>3. enum.phase \in Waiting
        BY <1>1, <1>2 DEF WorkInv, Idle
    <1>4. RunInv(view, call) /\ CallGood(view, call) /\ budget \in WorkBudgets(l)
        BY <1>1, <1>2, <1>3 DEF WorkInv, CallGood
    <1>5. enum.phase # "done"
        BY <1>3 DEF Waiting
    <1>6. ~budget.exhausted
        BY <1>1, <1>5, NotExhausted
    <1>7. PopOutcome(view, call, d, y, l)
        BY <1>2, <1>4, <1>6, PopStep
    <1> HIDE DEF d, y, P
    <1>8. /\ d.src = call.src /\ d.dst = call.dst /\ d.hops = call.hops
          /\ d.status \in {"running", "limit"} /\ d.overflow \in BOOLEAN
          /\ d.status = "running" => RunInv(view, d)
          /\ y \in WorkBudgets(l)
          /\ y.exhausted <=> d.status = "limit"
        BY <1>7 DEF PopOutcome
    <1>9. CallGood(view, d)
        BY <1>4, <1>8 DEF CallGood
    <1>10. YenInv(o, enum, d) /\ LegInv(P, o, enum, d)
        BY <1>2, <1>8 DEF YenInv, LegInv
    <1>11. WorkInv(view, o, l, enum, d, y)
        BY <1>2, <1>3, <1>5, <1>8, <1>9 DEF WorkInv
    <1>12. EnumInv(snapshot, view, E, o, l, enum, d, y)
        BY <1>2, <1>10, <1>11 DEF EnumInv, P
    <1> QED
        BY <1>1, <1>7, <1>12 DEF d, y

\* A change of the phase alone.
LEMMA PhaseSet ==
    ASSUME NEW P, NEW o, NEW e \in EnumRecords(P, o), NEW f \in Phases
    PROVE  LET n == [e EXCEPT !.phase = f] IN
           /\ n \in EnumRecords(P, o)
           /\ n.phase = f /\ n.options = e.options /\ n.result = e.result
           /\ n.accepted = e.accepted /\ n.pending = e.pending /\ n.spur = e.spur
           /\ n.combination = e.combination /\ n.stage = e.stage /\ n.combined = e.combined
           /\ n.best = e.best /\ n.leg_failure = e.leg_failure
    BY DEF EnumRecords

\* The first step of an enumeration keeps the invariant.
LEMMA EnumStartInv ==
    ASSUME NEW E, NEW o, NEW l, EnumGood(E, o, l), EnumStart
    PROVE  EnumInv(snapshot, view, E, o, l, enum', call', budget')
    <1> DEFINE P == Paths(view, E, o)
    <1>1. /\ ViewShape(view, E) /\ OptionsGood(view, o) /\ Limits(l)
          /\ enum \in EnumRecords(P, o) /\ enum.options = o
          /\ WorkInv(view, o, l, enum, call, budget) /\ FoundInv(snapshot, o, enum)
          /\ EnumInv(snapshot, view, E, o, l, enum, call, budget)
        BY EnumFields DEF EnumGood, EnumContext, EnumInv
    <1>2. enum.phase = "start" /\ enum.phase \notin Waiting /\ enum.phase # "done"
        BY DEF EnumStart, Waiting
    <1>3. ~budget.exhausted /\ budget \in WorkBudgets(l) /\ enum.result = NoResult
        BY <1>1, <1>2, NotExhausted DEF WorkInv, FoundInv
    <1>4. \/ /\ o.stages = << >>
             /\ Search([enum EXCEPT !.phase = "firsting"], budget, o.source, o.destination,
                       o.max_hops, {}, {})
          \/ Fail("UNSUPPORTED_REQUEST")
          \/ FailLimit("CONSTRAINT_COUNT_EXCEEDED")
          \/ o.stages # << >> /\ Goto([enum EXCEPT !.phase = "combination"])
        BY <1>1 DEF EnumStart
    <1>5. CASE /\ o.stages = << >>
               /\ Search([enum EXCEPT !.phase = "firsting"], budget, o.source, o.destination,
                         o.max_hops, {}, {})
        <2> DEFINE next == [enum EXCEPT !.phase = "firsting"]
        <2>1. "firsting" \in Phases /\ "firsting" \in Waiting
            BY DEF Phases, Waiting
        <2> HIDE DEF P
        <2>2. /\ next \in EnumRecords(P, o) /\ next.phase = "firsting"
              /\ next.result = NoResult /\ next.pending = enum.pending /\ next.best = enum.best
            BY <1>1, <1>3, <2>1, PhaseSet
        <2> HIDE DEF next
        <2>3. FoundInv(snapshot, o, next)
            BY <1>1, <1>2, <1>3, <2>2 DEF FoundInv
        <2>4. \A c : c.hops = o.max_hops => YenInv(o, next, c) /\ LegInv(P, o, next, c)
            BY <1>5, <2>2 DEF YenInv, LegInv
        <2>5. /\ o.source \in view.nodes /\ o.destination \in view.nodes
              /\ o.max_hops \in Nat \cup {Absent} /\ {} \in SUBSET Nat
            BY <1>1 DEF OptionsGood
        <2>6. Search(next, budget, o.source, o.destination, o.max_hops, {}, {})
            BY <1>5 DEF next
        <2> DEFINE src == o.source
                   dst == o.destination
                   hops == o.max_hops
                   none == {}
        <2>7. \A c : c.src = src /\ c.dst = dst /\ c.hops = hops =>
                       YenInv(o, next, c) /\ LegInv(P, o, next, c)
            BY <2>4
        <2>8. /\ src \in view.nodes /\ dst \in view.nodes /\ hops \in Nat \cup {Absent}
              /\ none \in SUBSET Nat /\ (hops # Absent => o.max_hops # Absent)
              /\ Search(next, budget, src, dst, hops, none, none)
            BY <2>5, <2>6
        <2> HIDE DEF src, dst, hops, none
        <2>9. next.phase \in Waiting
            BY <2>1, <2>2
        <2> QED
            BY <1>1, <1>3, <2>2, <2>3, <2>7, <2>8, <2>9, SearchInv DEF P
    <1>6. CASE Fail("UNSUPPORTED_REQUEST") \/ FailLimit("CONSTRAINT_COUNT_EXCEEDED")
        <2>1. /\ "UNSUPPORTED_REQUEST" \in Failures \ {"WORK_BUDGET_EXHAUSTED"}
              /\ "CONSTRAINT_COUNT_EXCEEDED" \in Failures \ {"WORK_BUDGET_EXHAUSTED"}
            BY DEF Failures
        <2> QED
            BY <1>1, <1>3, <1>6, <2>1, FailInv
    <1>7. CASE o.stages # << >> /\ Goto([enum EXCEPT !.phase = "combination"])
        <2> DEFINE next == [enum EXCEPT !.phase = "combination"]
        <2>1. "combination" \in Phases /\ "combination" \notin Waiting
            BY DEF Phases, Waiting
        <2> HIDE DEF P
        <2>2. /\ next \in EnumRecords(P, o) /\ next.phase = "combination"
              /\ next.result = NoResult /\ next.pending = enum.pending /\ next.best = enum.best
            BY <1>1, <1>3, <2>1, PhaseSet
        <2>6. Goto(next)
            BY <1>7
        <2> HIDE DEF next
        <2>3. FoundInv(snapshot, o, next)
            BY <1>1, <1>2, <1>3, <2>2 DEF FoundInv
        <2>4. YenInv(o, next, Idle) /\ LegInv(P, o, next, Idle)
            BY <1>7, <2>2 DEF YenInv, LegInv
        <2>5. next.result.failure # "WORK_BUDGET_EXHAUSTED" /\ next.phase \notin Waiting
            BY <2>1, <2>2 DEF NoResult
        <2> QED
            BY <1>1, <1>3, <2>2, <2>3, <2>4, <2>5, <2>6, GotoInv DEF P
    <1> QED
        BY <1>4, <1>5, <1>6, <1>7

\* What the invariant of an enumeration in progress gives.
LEMMA EnumFacts ==
    ASSUME NEW E, NEW o, NEW l, EnumGood(E, o, l)
    PROVE  /\ ViewShape(view, E) /\ OptionsGood(view, o) /\ Limits(l)
           /\ enum \in EnumRecords(Paths(view, E, o), o) /\ enum.options = o
           /\ YenInv(o, enum, call) /\ LegInv(Paths(view, E, o), o, enum, call)
           /\ WorkInv(view, o, l, enum, call, budget) /\ FoundInv(snapshot, o, enum)
           /\ EnumInv(snapshot, view, E, o, l, enum, call, budget)
           /\ budget \in WorkBudgets(l)
    BY EnumFields DEF EnumGood, EnumContext, EnumInv, WorkInv

\* A search that an enumeration waits for, once it is over.
LEMMA OutcomeFacts ==
    ASSUME NEW E, NEW o, NEW l, EnumGood(E, o, l), enum.phase \in Waiting
    PROVE  /\ SearchOutcome.limit => call.status = "limit"
           /\ ~SearchOutcome.limit => ~budget.exhausted
           /\ SearchOutcome.found => FoundPath(view, E, call, SearchOutcome.path)
           /\ enum.result = NoResult /\ enum.phase # "done"
    <1>1. CallGood(view, call) /\ ViewShape(view, E) /\ FoundInv(snapshot, o, enum)
        BY EnumFacts DEF WorkInv
    <1>2. /\ SearchOutcome.limit <=> call.status = "limit"
          /\ SearchOutcome.found => FoundPath(view, E, call, SearchOutcome.path)
        BY <1>1, SearchFinds
    <1>3. enum.phase # "done"
        BY DEF Waiting
    <1> QED
        BY <1>1, <1>2, <1>3, NotExhausted DEF FoundInv

\* The first path keeps the invariant.
LEMMA FirstInv ==
    ASSUME NEW E, NEW o, NEW l, EnumGood(E, o, l), First
    PROVE  EnumInv(snapshot, view, E, o, l, enum', call', budget')
    <1> DEFINE P == Paths(view, E, o)
               out == SearchOutcome
               next == [enum EXCEPT !.phase = "spur", !.accepted = <<out.path>>]
    <1>1. /\ enum \in EnumRecords(P, o) /\ YenInv(o, enum, call) /\ FoundInv(snapshot, o, enum)
          /\ EnumInv(snapshot, view, E, o, l, enum, call, budget)
        BY EnumFacts
    <1>2. enum.phase = "firsting" /\ enum.phase \in Waiting
        BY DEF First, Waiting
    <1>3. /\ out.limit => call.status = "limit"
          /\ ~out.limit => ~budget.exhausted
          /\ out.found => FoundPath(view, E, call, out.path)
          /\ enum.result = NoResult /\ enum.phase # "done"
        BY <1>2, OutcomeFacts
    <1>4. \/ out.limit /\ FailLimit("WORK_BUDGET_EXHAUSTED")
          \/ ~out.limit /\ (Fail("COST_OVERFLOW") \/ Fail("NO_STRUCTURAL_PATH"))
          \/ ~out.limit /\ out.found /\ Goto(next)
        BY DEF First
    <1> HIDE DEF out
    <1>5. CASE out.limit /\ FailLimit("WORK_BUDGET_EXHAUSTED")
        BY <1>1, <1>2, <1>3, <1>5, LimitInv
    <1>6. CASE ~out.limit /\ (Fail("COST_OVERFLOW") \/ Fail("NO_STRUCTURAL_PATH"))
        <2>1. /\ "COST_OVERFLOW" \in Failures \ {"WORK_BUDGET_EXHAUSTED"}
              /\ "NO_STRUCTURAL_PATH" \in Failures \ {"WORK_BUDGET_EXHAUSTED"}
            BY DEF Failures
        <2> QED
            BY <1>1, <1>3, <1>6, <2>1, FailInv
    <1>7. CASE ~out.limit /\ out.found /\ Goto(next)
        <2> DEFINE p == out.path
        <2>1. p \in PathSet(view, E) /\ (o.max_hops # Absent => Len(p.hops) <= o.max_hops)
            BY <1>1, <1>2, <1>3, <1>7 DEF FoundPath, YenInv
        <2>2. p \in P
            BY <2>1 DEF Paths
        <2>3. o.stages = << >>
            BY <1>1, <1>2 DEF YenInv
        <2> HIDE DEF P, p
        <2>4. <<p>> \in Seq(P) /\ <<p>> # << >> /\ "spur" \in Phases
            BY <2>2 DEF Phases
        <2>5. next = [enum EXCEPT !.phase = "spur", !.accepted = <<p>>]
            BY DEF p
        <2> HIDE DEF next
        <2>6. /\ next \in EnumRecords(P, o) /\ next.phase = "spur" /\ next.accepted = <<p>>
              /\ next.result = enum.result /\ next.pending = enum.pending /\ next.best = enum.best
            BY <1>1, <2>4, <2>5 DEF EnumRecords
        <2>7. FoundInv(snapshot, o, next)
            BY <1>1, <1>3, <2>6 DEF FoundInv
        <2>8. YenInv(o, next, Idle) /\ LegInv(P, o, next, Idle)
            BY <2>3, <2>4, <2>6 DEF YenInv, LegInv
        <2>9. next.result.failure # "WORK_BUDGET_EXHAUSTED" /\ next.phase \notin Waiting
            BY <1>3, <2>6 DEF NoResult, Waiting
        <2> QED
            BY <1>1, <1>3, <1>7, <2>6, <2>7, <2>8, <2>9, GotoInv DEF P
    <1> QED
        BY <1>4, <1>5, <1>6, <1>7

\* Every path visits no stages at all.
LEMMA VisitsNone ==
    ASSUME NEW p, NEW o
    PROVE  Visits(p, o, 0)
    <1> DEFINE at == [j \in 1..0 |-> 1]
    <1>1. at \in [1..0 -> DOMAIN p.nodes]
        OBVIOUS
    <1>2. \A j \in 1..0 : FALSE
        OBVIOUS
    <1> HIDE DEF at
    <1> QED
        BY <1>1, <1>2 DEF Visits

\* The result of the plain enumeration is made of accepted paths within the member limit.
LEMMA YenResultGood ==
    ASSUME NEW E, NEW o, NEW l, EnumGood(E, o, l), o.stages = << >>
    PROVE  /\ ResultGood(snapshot, Paths(view, E, o), o, YenResult(enum.accepted))
           /\ YenResult(enum.accepted).failure # "WORK_BUDGET_EXHAUSTED"
    <1> DEFINE P == Paths(view, E, o)
               accepted == enum.accepted
               active == o.member_limit # Absent
               Q == {p \in P : active => DomainMemberLimitCompliant(snapshot, p, o.member_limit, o.fail_closed)}
               kept == IF active THEN CompliantPaths(accepted, o.member_limit, o.fail_closed)
                       ELSE accepted
               n == Len(kept)
               k == o.k
               m == Min({n, k})
               paths == SubSeq(kept, 1, m)
               some == paths # << >>
               cut == active /\ Len(paths) < o.k /\ Len(accepted) >= o.wanted
               r == [NoResult EXCEPT !.ok = some, !.paths = paths, !.truncated = cut]
    <1>1. accepted \in Seq(P) /\ enum.options = o /\ o.k \in Nat
        BY EnumFacts, EnumFields DEF OptionsGood
    <1>2. YenResult(accepted) = r
        BY <1>1 DEF YenResult
    <1> HIDE DEF P, accepted
    <1>3. kept \in Seq(Q)
        <2>1. CASE ~active
            <3>1. Q = P
                BY <2>1
            <3> QED
                BY <1>1, <2>1, <3>1
        <2>2. CASE active
            <3> DEFINE T == Seq(Q)
                       N == Len(accepted)
                       limit == o.member_limit
                       closed == o.fail_closed
            <3>1. N \in Nat /\ DOMAIN accepted = 1..N /\ \A i \in 1..N : accepted[i] \in P
                BY <1>1
            <3>2. << >> \in T
                OBVIOUS
            <3>3. \A t \in T, i \in 1..N :
                    (IF DomainMemberLimitCompliant(snapshot, accepted[i], limit, closed)
                     THEN Append(t, accepted[i]) ELSE t) \in T
                <4> SUFFICES ASSUME NEW t \in T, NEW i \in 1..N,
                                    DomainMemberLimitCompliant(snapshot, accepted[i], limit, closed)
                             PROVE  Append(t, accepted[i]) \in T
                    OBVIOUS
                <4>1. accepted[i] \in Q
                    BY <3>1
                <4> HIDE DEF Q
                <4> QED
                    BY <4>1
            <3> HIDE DEF T, N, limit, closed
            <3>4. CompliantPaths(accepted, limit, closed) \in T
                BY <3>1, <3>2, <3>3, CompliantTrace
            <3> QED
                BY <2>2, <3>4 DEF T, limit, closed
        <2> QED
            BY <2>1, <2>2
    <1>4. n \in Nat /\ m \in 0..n
        <2>1. n \in Nat
            <3> HIDE DEF kept, Q
            <3> QED
                BY <1>3
        <2> HIDE DEF n, k
        <2>2. m = IF n <= k THEN n ELSE k
            BY <1>1, <2>1, MinOfTwo DEF k
        <2> QED
            BY <1>1, <2>1, <2>2 DEF k
    <1>5. paths \in Seq(Q)
        <2> HIDE DEF kept, Q, m
        <2> QED
            BY <1>3, <1>4
    <1>6. Q \subseteq P
        OBVIOUS
    <1>7. paths \in Seq(P)
        <2> HIDE DEF Q, paths
        <2> QED
            BY <1>5, <1>6
    <1>8. Range(paths) \subseteq Q
        <2> HIDE DEF Q, paths
        <2> QED
            BY <1>5 DEF Range
    <1>9. some \in BOOLEAN /\ cut \in BOOLEAN
        OBVIOUS
    <1> HIDE DEF paths, some, cut
    <1>10. NoResult \in ResultRecords(P) /\ NoResult.failure # "WORK_BUDGET_EXHAUSTED"
        <2>1. << >> \in Seq(P)
            OBVIOUS
        <2> QED
            BY <2>1 DEF NoResult, ResultRecords, Failures
    <1>11. r \in ResultRecords(P) /\ r.paths = paths /\ r.failure = NoResult.failure
        BY <1>7, <1>9, <1>10 DEF ResultRecords
    <1> HIDE DEF r
    <1>12. Len(o.stages) = 0
        OBVIOUS
    <1>13. \A p \in Range(r.paths) : Visits(p, o, Len(o.stages))
        BY <1>12, VisitsNone
    <1>14. \A p \in Q : active => DomainMemberLimitCompliant(snapshot, p, o.member_limit, o.fail_closed)
        OBVIOUS
    <1> HIDE DEF Q
    <1>15. ResultGood(snapshot, P, o, r)
        BY <1>8, <1>11, <1>13, <1>14 DEF ResultGood
    <1> QED
        BY <1>2, <1>10, <1>11, <1>15 DEF P, accepted

\* One path after another.
JoinedWell(v, E, p, q) ==
  /\ Join(p, q) \in PathSet(v, E)
  /\ Len(Join(p, q).hops) = Len(p.hops) + Len(q.hops)
  /\ Len(Join(p, q).nodes) >= Len(p.nodes)
  /\ \A i \in 1..Len(p.nodes) : Join(p, q).nodes[i] = p.nodes[i]
  /\ LastNode(p) = q.nodes[1] => LastNode(Join(p, q)) = LastNode(q)

\* Two paths that meet make a path.
LEMMA JoinIsPath ==
    ASSUME NEW v, NEW E, NEW p \in PathSet(v, E), NEW q \in PathSet(v, E)
    PROVE  JoinedWell(v, E, p, q)
    <1> DEFINE a == p.nodes
               b == q.nodes
               x == p.hops
               y == q.hops
               j == Join(p, q)
               t == Tail(b)
               N == v.nodes
               n == Len(a)
               m == Len(t)
               c == a \o t
               z == x \o y
    <1>1. /\ a \in Seq(N) /\ b \in Seq(N) /\ x \in Seq(E) /\ y \in Seq(E)
          /\ Len(a) = Len(x) + 1 /\ Len(b) = Len(y) + 1 /\ Len(x) \in Nat /\ Len(y) \in Nat
        BY PathOut
    <1>2. j.nodes = c /\ j.hops = z /\ j = [nodes |-> j.nodes, hops |-> j.hops]
        BY DEF Join
    <1> HIDE DEF a, b, x, y, j, N
    <1>3. b # << >>
        BY <1>1
    <1>4. t \in Seq(N) /\ m = Len(b) - 1 /\ \A i \in 1..m : t[i] = b[i + 1]
        BY <1>1, <1>3
    <1> HIDE DEF t
    <1>5. n \in Nat /\ m \in Nat /\ m = Len(y) /\ n = Len(x) + 1
        BY <1>1, <1>4
    <1>6. /\ c \in Seq(N) /\ Len(c) = n + m
          /\ \A i \in 1..(n + m) : c[i] = IF i <= n THEN a[i] ELSE t[i - n]
        BY <1>1, <1>4, ConcatProperties
    <1>7. z \in Seq(E) /\ Len(z) = Len(x) + Len(y)
        BY <1>1, ConcatProperties
    <1> HIDE DEF c, z
    <1>8. /\ j.nodes \in Seq(v.nodes) /\ j.hops \in Seq(E) /\ Len(j.nodes) = Len(j.hops) + 1
        BY <1>2, <1>5, <1>6, <1>7 DEF N
    <1>9. j \in PathSet(v, E)
        BY <1>2, <1>8, PathIn
    <1>10. \A i \in 1..n : c[i] = a[i]
        <2> HIDE DEF n, m
        <2> QED
            BY <1>5, <1>6
    <1>11. ASSUME a[n] = b[1]
           PROVE  c[n + m] = b[Len(b)]
        <2>1. CASE m = 0
            <3>1. n \in 1..(n + m) /\ n + m = n /\ Len(b) = 1
                BY <1>1, <1>4, <1>5, <2>1
            <3> QED
                BY <1>6, <1>11, <3>1
        <2>2. CASE m # 0
            <3>1. n + m \in 1..(n + m) /\ ~(n + m <= n) /\ (n + m) - n = m /\ m \in 1..m
                  /\ m + 1 = Len(b)
                BY <1>1, <1>4, <1>5, <2>2
            <3>2. c[n + m] = t[(n + m) - n]
                BY <1>6, <3>1
            <3> HIDE DEF n, m
            <3> QED
                BY <1>4, <3>1, <3>2
        <2> QED
            BY <2>1, <2>2
    <1>12. Len(c) >= n
        BY <1>5, <1>6
    <1>13. a[n] = b[1] => c[Len(c)] = b[Len(b)]
        BY <1>6, <1>11
    <1> QED
        BY <1>2, <1>7, <1>9, <1>10, <1>12, <1>13 DEF JoinedWell, LastNode, a, b, x, y, j

\* The first n hops of a path.
PathPrefix(p, n) == [nodes |-> SubSeq(p.nodes, 1, n + 1), hops |-> SubSeq(p.hops, 1, n)]

\* A prefix of a path is a path.
LEMMA PrefixIsPath ==
    ASSUME NEW v, NEW E, NEW p \in PathSet(v, E), NEW n \in Nat, n <= Len(p.hops)
    PROVE  PathPrefix(p, n) \in PathSet(v, E) /\ Len(PathPrefix(p, n).hops) = n
    <1> DEFINE a == p.nodes
               x == p.hops
               q == PathPrefix(p, n)
    <1>1. a \in Seq(v.nodes) /\ x \in Seq(E) /\ Len(a) = Len(x) + 1 /\ Len(x) \in Nat /\ n <= Len(x)
        BY PathOut
    <1>2. q.nodes = SubSeq(a, 1, n + 1) /\ q.hops = SubSeq(x, 1, n)
          /\ q = [nodes |-> q.nodes, hops |-> q.hops]
        BY DEF PathPrefix
    <1> HIDE DEF a, x, q
    <1>3. SubSeq(a, 1, n + 1) \in Seq(v.nodes) /\ Len(SubSeq(a, 1, n + 1)) = n + 1
        <2> DEFINE k == n + 1
                   N == v.nodes
        <2>1. 1 \in Int /\ k \in Int /\ \A i \in 1..k : a[i] \in N
            BY <1>1
        <2>2. k >= 1
            OBVIOUS
        <2> HIDE DEF k, N
        <2>3. /\ SubSeq(a, 1, k) \in Seq(N)
              /\ Len(SubSeq(a, 1, k)) = IF 1 <= k THEN k - 1 + 1 ELSE 0
            BY <2>1, SubSeqProperties
        <2>4. SubSeq(a, 1, k) \in Seq(N) /\ Len(SubSeq(a, 1, k)) = k
            BY <2>1, <2>2, <2>3
        <2> QED
            BY <2>4 DEF k, N
    <1>4. SubSeq(x, 1, n) \in Seq(E) /\ Len(SubSeq(x, 1, n)) = n
        <2>1. 1 \in Int /\ n \in Int /\ \A i \in 1..n : x[i] \in E
            BY <1>1
        <2>2. /\ SubSeq(x, 1, n) \in Seq(E)
              /\ Len(SubSeq(x, 1, n)) = IF 1 <= n THEN n - 1 + 1 ELSE 0
            BY <2>1, SubSeqProperties
        <2> QED
            BY <2>2
    <1>5. q.nodes \in Seq(v.nodes) /\ q.hops \in Seq(E) /\ Len(q.nodes) = Len(q.hops) + 1
        BY <1>2, <1>3, <1>4
    <1>6. q \in PathSet(v, E)
        BY <1>2, <1>5, PathIn
    <1> QED
        BY <1>2, <1>4, <1>6 DEF q

\* The last accepted path of Yen's algorithm.
LEMMA LastAccepted ==
    ASSUME NEW E, NEW o, NEW l, EnumGood(E, o, l), enum.phase \in {"spur", "spurring"}
    PROVE  LET p == enum.accepted[Len(enum.accepted)] IN
           /\ p \in Paths(view, E, o) /\ p \in PathSet(view, E) /\ Len(p.hops) \in Nat
           /\ o.max_hops # Absent => Len(p.hops) <= o.max_hops
           /\ enum.accepted \in Seq(Paths(view, E, o)) /\ o.stages = << >> /\ enum.spur \in Nat
    <1> DEFINE P == Paths(view, E, o)
               a == enum.accepted
    <1>1. a \in Seq(P) /\ a # << >> /\ o.stages = << >> /\ enum.spur \in Nat
        BY EnumFacts, EnumFields DEF YenInv
    <1> HIDE DEF P, a
    <1>2. a[Len(a)] \in P
        BY <1>1
    <1>3. a[Len(a)] \in PathSet(view, E)
          /\ (o.max_hops # Absent => Len(a[Len(a)].hops) <= o.max_hops)
        BY <1>2 DEF P, Paths
    <1> QED
        BY <1>1, <1>2, <1>3, PathOut DEF a, P

\* Running out of spur searches keeps the invariant.
LEMMA OutOfSpursInv ==
    ASSUME NEW E, NEW o, NEW l, EnumGood(E, o, l), enum.phase = "spur", budget.spurs = 0, OutOfSpurs
    PROVE  EnumInv(snapshot, view, E, o, l, enum', call', budget')
    <1> DEFINE P == Paths(view, E, o)
               code == "WORK_BUDGET_EXHAUSTED"
               r == [NoResult EXCEPT !.failure = code, !.limit = TRUE]
               next == Ended(enum, r)
               b == Spend(budget, "spurs")
    <1>1. /\ enum \in EnumRecords(P, o) /\ FoundInv(snapshot, o, enum) /\ Limits(l)
          /\ budget \in WorkBudgets(l) /\ WorkInv(view, o, l, enum, call, budget)
        BY EnumFacts
    <1>2. enum.phase \notin Waiting /\ enum.phase # "done"
        BY DEF Waiting
    <1>3. enum.result = NoResult /\ call = Idle /\ ~budget.exhausted
        BY <1>1, <1>2, NotExhausted DEF FoundInv, WorkInv
    <1>4. enum' = next /\ call' = Idle /\ budget' = b
        BY <1>3 DEF OutOfSpurs, Ended
    <1>5. code \in Failures
        BY DEF Failures
    <1>6. ResultGood(snapshot, P, o, r) /\ r.failure = code /\ r.limit /\ ~r.ok /\ r.paths = << >>
        <2> HIDE DEF code
        <2> QED
            BY <1>5, EmptyResult
    <1> HIDE DEF P, r
    <1>7. next \in EnumRecords(P, o) /\ next.phase = "done" /\ next.result = r
        BY <1>1, <1>6, EndedFields DEF ResultGood
    <1>8. FoundInv(snapshot, o, next) /\ YenInv(o, next, Idle) /\ LegInv(P, o, next, Idle)
        BY <1>1, <1>6, EndedFound
    <1>9. b \in WorkBudgets(l)
        BY <1>1, <1>3, SpendCounts
    <1>10. b.exhausted
        BY <1>1 DEF Spend, WorkBudgets
    <1> HIDE DEF next, b
    <1>11. WorkInv(view, o, l, next, Idle, b)
        BY <1>6, <1>7, <1>9, <1>10 DEF WorkInv, Waiting
    <1>12. EnumInv(snapshot, view, E, o, l, next, Idle, b)
        BY <1>7, <1>8, <1>11 DEF EnumInv, P
    <1> QED
        BY <1>4, <1>12

\* A spur search is banned from links only.
LEMMA BansAreLinks ==
    ASSUME NEW E, NEW o, NEW l, EnumGood(E, o, l), enum.phase = "spur",
           NEW previous, NEW n \in Nat
    PROVE  SpurBans(previous, n) \in SUBSET Nat
    <1> DEFINE P == Paths(view, E, o)
    <1>1. enum.accepted \in Seq(P) /\ E \in SUBSET EntryRecords
        BY EnumFacts, EnumFields DEF ViewShape
    <1>2. \A p \in Range(enum.accepted) : p \in P
        <2> DEFINE a == enum.accepted
        <2> HIDE DEF P, a
        <2>1. \A p \in Range(a) : p \in P
            BY <1>1 DEF Range, a
        <2> QED
            BY <2>1 DEF a
    <1>3. ASSUME NEW p \in Range(enum.accepted), Len(p.nodes) > n + 1
          PROVE  p.hops[n + 1].link \in Nat
        <2> DEFINE h == p.hops
        <2>1. p \in PathSet(view, E)
            BY <1>2, <1>3 DEF Paths
        <2>2. h \in Seq(E) /\ Len(p.nodes) = Len(h) + 1 /\ Len(h) \in Nat
            BY <2>1, PathOut
        <2> HIDE DEF h
        <2>3. n + 1 \in 1..Len(h)
            BY <1>3, <2>2
        <2>4. h[n + 1] \in E
            BY <2>2, <2>3
        <2>5. h[n + 1].link \in Nat
            BY <1>1, <2>4 DEF EntryRecords
        <2> QED
            BY <2>5 DEF h
    <1> QED
        BY <1>3 DEF SpurBans

\* The head of the spur loop keeps the invariant.
LEMMA SpurInv ==
    ASSUME NEW E, NEW o, NEW l, EnumGood(E, o, l), Spur
    PROVE  EnumInv(snapshot, view, E, o, l, enum', call', budget')
    <1> DEFINE P == Paths(view, E, o)
               previous == enum.accepted[Len(enum.accepted)]
               n == enum.spur
               first == [enum EXCEPT !.phase = "spurring"]
               bn == Range(SubSeq(previous.nodes, 1, n))
               bl == SpurBans(previous, n)
               best == Best(enum.pending)
               second == [enum EXCEPT !.accepted = Append(@, best), !.pending = @ \ {best}, !.spur = 0]
               b == Spend(budget, "spurs")
               src == previous.nodes[n + 1]
               dst == o.destination
               hops == HopsLeft(n)
    <1>1. /\ ViewShape(view, E) /\ OptionsGood(view, o) /\ Limits(l)
          /\ enum \in EnumRecords(P, o) /\ enum.options = o
          /\ WorkInv(view, o, l, enum, call, budget) /\ FoundInv(snapshot, o, enum)
          /\ EnumInv(snapshot, view, E, o, l, enum, call, budget)
          /\ budget \in WorkBudgets(l)
        BY EnumFacts
    <1>2. enum.phase = "spur" /\ enum.phase \notin Waiting /\ enum.phase # "done"
        BY DEF Spur, Waiting
    <1>3. ~budget.exhausted /\ enum.result = NoResult
        BY <1>1, <1>2, NotExhausted DEF FoundInv
    <1>4. /\ previous \in P /\ previous \in PathSet(view, E) /\ Len(previous.hops) \in Nat
          /\ o.max_hops # Absent => Len(previous.hops) <= o.max_hops
          /\ enum.accepted \in Seq(P) /\ o.stages = << >> /\ n \in Nat
        BY <1>2, LastAccepted
    <1>5. \/ Finish(YenResult(enum.accepted))
          \/ budget.spurs = 0 /\ OutOfSpurs
          \/ n < Len(previous.hops) /\ budget.spurs # 0 /\ Search(first, b, src, dst, hops, bn, bl)
          \/ enum.pending # {} /\ Goto(second)
        BY <1>1 DEF Spur
    <1> HIDE DEF P, previous, first, second, best, b, src, dst, hops, bn, bl
    <1>6. CASE Finish(YenResult(enum.accepted))
        BY <1>1, <1>3, <1>4, <1>6, YenResultGood, FinishInv
    <1>7. CASE budget.spurs = 0 /\ OutOfSpurs
        BY <1>2, <1>7, OutOfSpursInv
    <1>8. CASE n < Len(previous.hops) /\ budget.spurs # 0 /\ Search(first, b, src, dst, hops, bn, bl)
        <2>1. "spurring" \in Phases /\ "spurring" \in Waiting
            BY DEF Phases, Waiting
        <2>2. /\ first \in EnumRecords(P, o) /\ first.phase = "spurring" /\ first.spur = n
              /\ first.accepted = enum.accepted
              /\ first.result = NoResult /\ first.pending = enum.pending /\ first.best = enum.best
            BY <1>1, <1>3, <2>1, PhaseSet DEF first
        <2>3. FoundInv(snapshot, o, first)
            BY <1>1, <1>2, <1>3, <2>2 DEF FoundInv
        <2>4. b \in WorkBudgets(l) /\ ~b.exhausted
            <3>1. b \in WorkBudgets(l)
                BY <1>1, <1>3, SpendCounts DEF b
            <3>2. b.exhausted = budget.exhausted
                BY <1>1, <1>8 DEF Spend, WorkBudgets, b
            <3> QED
                BY <1>3, <3>1, <3>2
        <2>5. /\ previous.nodes \in Seq(view.nodes) /\ Len(previous.nodes) = Len(previous.hops) + 1
              /\ view.nodes \in SUBSET Nat
            BY <1>1, <1>4, PathOut DEF ViewShape
        <2>6. src \in view.nodes /\ dst \in view.nodes
            <3> DEFINE a == previous.nodes
                       N == view.nodes
            <3>1. n + 1 \in 1..Len(a) /\ a \in Seq(N)
                BY <1>4, <1>8, <2>5
            <3> HIDE DEF a, N
            <3>2. a[n + 1] \in N
                BY <3>1
            <3> QED
                BY <1>1, <3>2 DEF a, N, src, dst, OptionsGood
        <2>7. hops = BoundLeft(o, n) /\ hops \in Nat \cup {Absent} /\ (hops # Absent => o.max_hops # Absent)
            BY <1>1, <1>4, <1>8 DEF hops, HopsLeft, NoHopBound, BoundLeft, OptionsGood
        <2>8. bn \in SUBSET Nat
            <3> DEFINE a == previous.nodes
                       s == SubSeq(a, 1, n)
            <3>1. \A i \in 1..n : a[i] \in Nat
                <4> DEFINE N == view.nodes
                <4>1. /\ a \in Seq(N) /\ N \subseteq Nat
                      /\ n \in Nat /\ Len(a) \in Nat /\ n <= Len(a)
                    BY <1>4, <1>8, <2>5
                <4> HIDE DEF a, N, n
                <4>2. \A i \in 1..n : i \in 1..Len(a)
                    BY <4>1
                <4>3. \A i \in 1..Len(a) : a[i] \in N
                    BY <4>1
                <4> QED
                    BY <4>1, <4>2, <4>3
            <3> HIDE DEF a
            <3>2. s \in Seq(Nat)
                BY <1>4, <3>1, SubSeqProperties
            <3> HIDE DEF s
            <3>3. Range(s) \subseteq Nat
                BY <3>2 DEF Range
            <3> QED
                BY <3>3 DEF bn, s, a
        <2>9. bl \in SUBSET Nat
            BY <1>2, <1>4, BansAreLinks DEF bl
        <2>10. \A c : c.src = src /\ c.dst = dst /\ c.hops = hops =>
                        YenInv(o, first, c) /\ LegInv(P, o, first, c)
            <3>1. first.accepted # << >>
                BY <1>1, <1>2, <2>2, EnumFacts DEF YenInv
            <3>2. first.accepted[Len(first.accepted)] = previous
                BY <2>2 DEF previous
            <3>3. \A c : c.hops = hops => YenInv(o, first, c)
                BY <1>4, <1>8, <2>2, <2>7, <3>1, <3>2 DEF YenInv
            <3>4. \A c : LegInv(P, o, first, c)
                BY <2>2 DEF LegInv
            <3> QED
                BY <3>3, <3>4
        <2>11. first.phase \in Waiting
            BY <2>1, <2>2
        <2> QED
            BY <1>1, <1>8, <2>2, <2>3, <2>4, <2>6, <2>7, <2>8, <2>9, <2>10, <2>11, SearchInv DEF P
    <1>9. CASE enum.pending # {} /\ Goto(second)
        <2>1. enum.pending \in SUBSET P /\ IsFiniteSet(enum.pending)
            BY <1>1, EnumFields DEF FoundInv
        <2>2. best \in enum.pending
            <3>1. enum.pending \in SUBSET PathSet(view, E)
                BY <2>1 DEF P, Paths
            <3> QED
                BY <1>1, <1>9, <2>1, <3>1, BestExists DEF best
        <2>3. Append(enum.accepted, best) \in Seq(P) /\ Append(enum.accepted, best) # << >>
            BY <1>4, <2>1, <2>2
        <2>4. enum.pending \ {best} \in SUBSET P /\ IsFiniteSet(enum.pending \ {best})
            BY <2>1, FS_Subset
        <2> DEFINE acc == Append(enum.accepted, best)
                   pend == enum.pending \ {best}
        <2>5. second = [enum EXCEPT !.accepted = acc, !.pending = pend, !.spur = 0]
            BY DEF second
        <2>6. acc \in Seq(P) /\ acc # << >> /\ pend \in SUBSET P /\ IsFiniteSet(pend)
            BY <2>3, <2>4
        <2> HIDE DEF acc, pend
        <2>7. /\ second \in EnumRecords(P, o) /\ second.phase = "spur" /\ second.accepted = acc
              /\ second.result = NoResult /\ second.pending = pend /\ second.best = enum.best
            BY <1>1, <1>2, <1>3, <2>5, <2>6 DEF EnumRecords
        <2>8. FoundInv(snapshot, o, second)
            BY <1>1, <1>2, <1>3, <2>6, <2>7 DEF FoundInv
        <2>9. YenInv(o, second, Idle) /\ LegInv(P, o, second, Idle)
            BY <1>4, <2>6, <2>7 DEF YenInv, LegInv
        <2>10. second.result.failure # "WORK_BUDGET_EXHAUSTED" /\ second.phase \notin Waiting
            BY <2>7 DEF NoResult, Waiting
        <2> QED
            BY <1>1, <1>3, <1>9, <2>7, <2>8, <2>9, <2>10, GotoInv DEF P
    <1> QED
        BY <1>5, <1>6, <1>7, <1>8, <1>9

\* A spur path that was found, or not, keeps the invariant.
LEMMA SpurFoundInv ==
    ASSUME NEW E, NEW o, NEW l, EnumGood(E, o, l), SpurFound
    PROVE  EnumInv(snapshot, view, E, o, l, enum', call', budget')
    <1> DEFINE P == Paths(view, E, o)
               out == SearchOutcome
               previous == enum.accepted[Len(enum.accepted)]
               n == enum.spur
               root == [nodes |-> SubSeq(previous.nodes, 1, n + 1), hops |-> SubSeq(previous.hops, 1, n)]
               total == Join(root, out.path)
               kept == /\ out.found
                       /\ RawPathIsSimple(total)
                       /\ total \notin Range(enum.accepted)
                       /\ AccumulatePathCost(view, total.hops) # Overflow
               pend == IF kept THEN enum.pending \cup {total} ELSE enum.pending
               next == [enum EXCEPT !.phase = "spur", !.spur = @ + 1,
                                    !.pending = IF kept THEN @ \cup {total} ELSE @]
    <1>1. /\ enum \in EnumRecords(P, o) /\ YenInv(o, enum, call) /\ FoundInv(snapshot, o, enum)
          /\ EnumInv(snapshot, view, E, o, l, enum, call, budget) /\ OptionsGood(view, o)
        BY EnumFacts
    <1>2. enum.phase = "spurring" /\ enum.phase \in Waiting
        BY DEF SpurFound, Waiting
    <1>3. /\ out.limit => call.status = "limit"
          /\ ~out.limit => ~budget.exhausted
          /\ out.found => FoundPath(view, E, call, out.path)
          /\ enum.result = NoResult /\ enum.phase # "done"
        BY <1>2, OutcomeFacts
    <1>4. /\ previous \in PathSet(view, E) /\ Len(previous.hops) \in Nat
          /\ o.max_hops # Absent => Len(previous.hops) <= o.max_hops
          /\ o.stages = << >> /\ n \in Nat /\ enum.accepted # << >>
          /\ n < Len(previous.hops) /\ call.hops = BoundLeft(o, n)
        <2>1. n < Len(previous.hops) /\ call.hops = BoundLeft(o, n) /\ enum.accepted # << >>
            BY <1>1, <1>2 DEF YenInv
        <2> QED
            BY <1>2, <2>1, LastAccepted
    <1>6. \/ out.limit /\ FailLimit("WORK_BUDGET_EXHAUSTED")
          \/ ~out.limit /\ Goto(next)
        BY DEF SpurFound
    <1>7. kept => total \in P
        <2> SUFFICES ASSUME out.found
                     PROVE  total \in P
            OBVIOUS
        <2> DEFINE q == out.path
        <2>1. q \in PathSet(view, E) /\ (call.hops # Absent => Len(q.hops) <= call.hops)
            BY <1>3 DEF FoundPath
        <2>2. root \in PathSet(view, E) /\ Len(root.hops) = n
            <3> HIDE DEF previous, n
            <3>1. n <= Len(previous.hops)
                BY <1>4
            <3>2. root = PathPrefix(previous, n)
                BY DEF PathPrefix
            <3> HIDE DEF root
            <3>3. PathPrefix(previous, n) \in PathSet(view, E) /\ Len(PathPrefix(previous, n).hops) = n
                BY <1>4, <3>1, PrefixIsPath
            <3> QED
                BY <3>2, <3>3
        <2> HIDE DEF root, q
        <2>3. Join(root, q) \in PathSet(view, E) /\ Len(Join(root, q).hops) = n + Len(q.hops)
            <3>1. JoinedWell(view, E, root, q)
                BY <2>1, <2>2, JoinIsPath
            <3> QED
                BY <2>2, <3>1 DEF JoinedWell
        <2>4. total = Join(root, q) /\ Len(q.hops) \in Nat
            BY <2>1, PathOut DEF q
        <2> HIDE DEF total
        <2>5. o.max_hops # Absent => Len(total.hops) <= o.max_hops
            <3> SUFFICES ASSUME o.max_hops # Absent
                         PROVE  Len(total.hops) <= o.max_hops
                OBVIOUS
            <3>1. o.max_hops \in Nat /\ call.hops = o.max_hops - n /\ call.hops \in Nat
                BY <1>1, <1>4 DEF OptionsGood, BoundLeft
            <3>2. call.hops # Absent
                BY <3>1 DEF Absent
            <3> QED
                BY <1>4, <2>1, <2>3, <2>4, <3>1, <3>2
        <2> QED
            BY <2>3, <2>4, <2>5 DEF Paths
    <1>8. enum.pending \in SUBSET P /\ IsFiniteSet(enum.pending)
        BY <1>1, EnumFields DEF FoundInv
    <1> HIDE DEF kept, total, out, P
    <1>9. pend \in SUBSET P /\ IsFiniteSet(pend)
        BY <1>7, <1>8, FS_AddElement
    <1>10. CASE out.limit /\ FailLimit("WORK_BUDGET_EXHAUSTED")
        BY <1>1, <1>2, <1>3, <1>10, LimitInv
    <1>11. CASE ~out.limit /\ Goto(next)
        <2>1. "spur" \in Phases /\ n + 1 \in Nat
            BY <1>4 DEF Phases
        <2>3. /\ next \in EnumRecords(P, o) /\ next.phase = "spur" /\ next.accepted = enum.accepted
              /\ next.result = NoResult /\ next.pending = pend /\ next.best = enum.best
            BY <1>1, <1>3, <1>9, <2>1 DEF EnumRecords
        <2> HIDE DEF next, pend
        <2>4. FoundInv(snapshot, o, next)
            BY <1>1, <1>3, <1>9, <2>3 DEF FoundInv
        <2>5. YenInv(o, next, Idle) /\ LegInv(P, o, next, Idle)
            BY <1>4, <2>3 DEF YenInv, LegInv
        <2>6. next.result.failure # "WORK_BUDGET_EXHAUSTED" /\ next.phase \notin Waiting
            BY <2>3 DEF NoResult, Waiting
        <2> QED
            BY <1>1, <1>3, <1>11, <2>3, <2>4, <2>5, <2>6, GotoInv DEF P
    <1> QED
        BY <1>6, <1>10, <1>11

-----------------------------------------------------------------------------
(* The combinations of a required transit.                                 *)

\* A product of naturals is zero as soon as one of them is.
LEMMA ProductPositive ==
    ASSUME NEW sizes, NEW n \in Nat, DOMAIN sizes = 1..n, \A i \in 1..n : sizes[i] \in Nat,
           0 < Product(sizes)
    PROVE  \A i \in 1..n : sizes[i] > 0
    <1> SUFFICES ASSUME NEW k \in 1..n, sizes[k] = 0
                 PROVE  FALSE
        OBVIOUS
    <1> DEFINE T == Nat
    <1>1. 1 \in T /\ \A t \in T, i \in 1..n : t * sizes[i] \in T
        OBVIOUS
    <1> HIDE DEF T
    <1>2. PICK h : ProductSteps(h, n, T, sizes)
        BY <1>1, ProductTrace
    <1>3. /\ h \in [0..n -> Nat] /\ h[n] = Product(sizes)
          /\ \A i \in 1..n : h[i] = h[i - 1] * sizes[i]
        BY <1>2 DEF ProductSteps, T
    <1> DEFINE I == {i \in 0..n : i >= k => h[i] = 0}
    <1>4. 0 \in I
        OBVIOUS
    <1>5. ASSUME NEW i \in 1..n, i - 1 \in I
          PROVE  i \in I
        <2>1. h[i] = h[i - 1] * sizes[i] /\ h[i - 1] \in Nat /\ sizes[i] \in Nat
            BY <1>3
        <2>2. CASE i = k
            <3>1. h[i - 1] * 0 = 0
                BY <2>1
            <3> QED
                BY <2>1, <2>2, <3>1
        <2>3. CASE i < k
            BY <2>3
        <2>4. CASE i > k
            <3>1. h[i - 1] = 0
                BY <1>5, <2>4
            <3>2. 0 * sizes[i] = 0
                BY <2>1
            <3> QED
                BY <2>1, <3>1, <3>2
        <2> QED
            BY <2>2, <2>3, <2>4
    <1> HIDE DEF I
    <1>6. \A i \in 0..n : i \in I
        BY <1>4, <1>5, IndexInduction
    <1>7. h[n] = 0
        BY <1>6 DEF I
    <1> QED
        BY <1>3, <1>7

\* Stages that have alternatives have combinations.
LEMMA ProductOfPositive ==
    ASSUME NEW sizes, NEW n \in Nat, DOMAIN sizes = 1..n, \A i \in 1..n : sizes[i] \in Nat \ {0}
    PROVE  Product(sizes) \in Nat \ {0}
    <1> DEFINE T == Nat \ {0}
    <1>1. 1 \in T /\ \A t \in T, i \in 1..n : t * sizes[i] \in T
        <2>1. \A t, u \in Nat \ {0} : t * u \in Nat \ {0}
            OBVIOUS
        <2> QED
            BY <2>1
    <1> HIDE DEF T
    <1>2. PICK h : ProductSteps(h, n, T, sizes)
        BY <1>1, ProductTrace
    <1>3. h \in [0..n -> T] /\ h[n] = Product(sizes)
        BY <1>2 DEF ProductSteps
    <1>4. h[n] \in T
        BY <1>3
    <1> QED
        BY <1>3, <1>4 DEF T

\* Digit i of a combination is the place of an alternative of stage i.
LEMMA DigitIsPlace ==
    ASSUME NEW c \in Nat, NEW d \in Nat \ {0}, NEW n \in Nat \ {0}
    PROVE  ((c \div d) % n) + 1 \in 1..n
    <1> DEFINE q == c \div d
               m == q % n
    <1>1. q \in Int
        OBVIOUS
    <1> HIDE DEF q
    <1>2. m \in 0..(n - 1)
        BY <1>1
    <1> HIDE DEF m
    <1>3. m + 1 \in 1..n
        BY <1>2
    <1> QED
        BY <1>3 DEF m, q

\* The node selected for a stage is one of its alternatives.
LEMMA SelectedIsAlternative ==
    ASSUME NEW E, NEW o, NEW l, EnumGood(E, o, l), enum.combination < Product(Sizes(o)),
           NEW i \in 1..Len(o.stages)
    PROVE  Selected(enum.combination, i) \in Range(o.stages[i].alternatives)
    <1> DEFINE c == enum.combination
               n == Len(o.stages)
               sizes == Sizes(o)
               rest == SubSeq(sizes, i + 1, n)
               later == Product(rest)
               a == o.stages[i].alternatives
    <1>1. /\ enum.options = o /\ c \in Nat
          /\ o.stages \in Seq(Range(o.stages))
          /\ \A t \in Range(o.stages) : t.alternatives \in Seq(Nat)
        BY EnumFacts, EnumFields DEF OptionsGood
    <1>2. n \in Nat /\ DOMAIN o.stages = 1..n /\ \A j \in 1..n : o.stages[j] \in Range(o.stages)
        BY <1>1
    <1>3. /\ DOMAIN sizes = 1..n /\ \A j \in 1..n : sizes[j] \in Nat
          /\ sizes \in [1..n -> Nat]
          /\ sizes[i] = Len(a) /\ a \in Seq(Nat)
        BY <1>1, <1>2 DEF Sizes
    <1>4. StageSizes = sizes
        BY <1>1 DEF StageSizes, Sizes
    <1> HIDE DEF sizes, c, n
    <1>5. sizes \in Seq(Nat) /\ Len(sizes) = n
        BY <1>2, <1>3, SeqDef
    <1>6. 0 < Product(sizes)
        <2>1. Product(sizes) \in Nat
            <3> DEFINE T == Nat
            <3>1. 1 \in T /\ \A t \in T, j \in 1..n : t * sizes[j] \in T
                BY <1>3
            <3> HIDE DEF T
            <3>2. PICK h : ProductSteps(h, n, T, sizes)
                BY <1>2, <1>3, <3>1, ProductTrace
            <3>3. h \in [0..n -> T] /\ h[n] = Product(sizes) /\ n \in 0..n
                BY <1>2, <3>2 DEF ProductSteps
            <3> QED
                BY <3>3 DEF T
        <2> QED
            BY <1>1, <2>1 DEF c, sizes
    <1>7. \A j \in 1..n : sizes[j] > 0
        BY <1>2, <1>3, <1>6, ProductPositive
    <1>8. /\ rest \in Seq(Nat \ {0})
        <2>1. \A j \in (i + 1)..n : sizes[j] \in Nat \ {0}
            BY <1>2, <1>3, <1>7 DEF n
        <2>2. i + 1 \in Int /\ n \in Int
            BY <1>2 DEF n
        <2> DEFINE k == i + 1
                   X == Nat \ {0}
        <2>3. k \in Int /\ n \in Int /\ \A j \in k..n : sizes[j] \in X
            BY <2>1, <2>2
        <2> HIDE DEF k, X
        <2>4. SubSeq(sizes, k, n) \in Seq(X)
            BY <2>3, SubSeqProperties
        <2> QED
            BY <2>4 DEF k, X
    <1> HIDE DEF rest
    <1>9. later \in Nat \ {0}
        <2> DEFINE m == Len(rest)
        <2>1. m \in Nat /\ DOMAIN rest = 1..m /\ \A j \in 1..m : rest[j] \in Nat \ {0}
            BY <1>8
        <2> HIDE DEF m
        <2> QED
            BY <2>1, ProductOfPositive
    <1>10. Selected(c, i) = a[((c \div later) % sizes[i]) + 1]
        BY <1>1, <1>4, <1>5 DEF Selected, rest
    <1> HIDE DEF later, a
    <1>11. c \in Nat /\ sizes[i] \in Nat \ {0}
        BY <1>1, <1>3, <1>7 DEF c, n
    <1> DEFINE d == ((c \div later) % sizes[i]) + 1
    <1>12. d \in 1..sizes[i]
        <2> DEFINE s == sizes[i]
        <2>1. s \in Nat \ {0}
            BY <1>11
        <2> HIDE DEF s
        <2>2. ((c \div later) % s) + 1 \in 1..s
            BY <1>9, <1>11, <2>1, DigitIsPlace
        <2> QED
            BY <2>2 DEF s
    <1> HIDE DEF d
    <1>13. d \in DOMAIN a
        BY <1>3, <1>12
    <1>14. a[d] \in Range(a)
        BY <1>13 DEF Range
    <1> QED
        BY <1>10, <1>14 DEF c, a, d

\* A longer path visits what its beginning visits.
LEMMA VisitsJoin ==
    ASSUME NEW v, NEW E, NEW p \in PathSet(v, E), NEW q \in PathSet(v, E), NEW o, NEW m \in Nat,
           Visits(p, o, m)
    PROVE  Visits(Join(p, q), o, m)
    <1> DEFINE j == Join(p, q)
    <1>1. /\ j \in PathSet(v, E) /\ Len(j.nodes) >= Len(p.nodes)
          /\ \A i \in 1..Len(p.nodes) : j.nodes[i] = p.nodes[i]
        <2>1. JoinedWell(v, E, p, q)
            BY JoinIsPath
        <2> QED
            BY <2>1 DEF JoinedWell
    <1>2. /\ DOMAIN p.nodes = 1..Len(p.nodes) /\ DOMAIN j.nodes = 1..Len(j.nodes)
          /\ Len(p.nodes) \in Nat /\ Len(j.nodes) \in Nat
        <2>1. \A x \in PathSet(v, E) : DOMAIN x.nodes = 1..Len(x.nodes) /\ Len(x.nodes) \in Nat
            <3> SUFFICES ASSUME NEW x \in PathSet(v, E)
                         PROVE  DOMAIN x.nodes = 1..Len(x.nodes) /\ Len(x.nodes) \in Nat
                OBVIOUS
            <3> DEFINE y == x.nodes
            <3>1. y \in Seq(v.nodes)
                BY PathOut
            <3> HIDE DEF y
            <3>2. DOMAIN y = 1..Len(y) /\ Len(y) \in Nat
                BY <3>1
            <3> QED
                BY <3>2 DEF y
        <2> HIDE DEF j
        <2> QED
            BY <1>1, <2>1
    <1> HIDE DEF j
    <1>3. DOMAIN p.nodes \subseteq DOMAIN j.nodes
        BY <1>1, <1>2
    <1>4. PICK at \in [1..m -> DOMAIN p.nodes] :
            /\ \A i \in 1..m : p.nodes[at[i]] \in Range(o.stages[i].alternatives)
            /\ \A i, k \in 1..m : i <= k => at[i] <= at[k]
        BY DEF Visits
    <1>5. at \in [1..m -> DOMAIN j.nodes]
        BY <1>3, <1>4
    <1>6. \A i \in 1..m : j.nodes[at[i]] \in Range(o.stages[i].alternatives)
        BY <1>1, <1>2, <1>4
    <1>7. Visits(j, o, m)
        BY <1>4, <1>5, <1>6 DEF Visits
    <1> QED
        BY <1>7 DEF j

\* A path that ends in an alternative of the next stage visits that stage too.
LEMMA VisitsNext ==
    ASSUME NEW v, NEW E, NEW p \in PathSet(v, E), NEW o, NEW m \in Nat, Visits(p, o, m),
           LastNode(p) \in Range(o.stages[m + 1].alternatives)
    PROVE  Visits(p, o, m + 1)
    <1> DEFINE nodes == p.nodes
               n == Len(nodes)
    <1>1. nodes \in Seq(v.nodes) /\ n \in Nat /\ n > 0
        BY PathOut
    <1>2. nodes[n] \in Range(o.stages[m + 1].alternatives)
        BY DEF LastNode
    <1>3. PICK at \in [1..m -> DOMAIN nodes] :
            /\ \A i \in 1..m : nodes[at[i]] \in Range(o.stages[i].alternatives)
            /\ \A i, k \in 1..m : i <= k => at[i] <= at[k]
        BY DEF Visits
    <1> HIDE DEF nodes
    <1>4. DOMAIN nodes = 1..n
        BY <1>1
    <1> HIDE DEF n
    <1> DEFINE next == [i \in 1..(m + 1) |-> IF i <= m THEN at[i] ELSE n]
    <1>5. \A i \in 1..(m + 1) : i \in 1..m \/ i = m + 1
        OBVIOUS
    <1>6. /\ \A i \in 1..m : next[i] = at[i]
          /\ next[m + 1] = n
        OBVIOUS
    <1>7. next \in [1..(m + 1) -> DOMAIN nodes]
        BY <1>1, <1>3, <1>4
    <1> HIDE DEF next
    <1>8. \A i \in 1..(m + 1) : nodes[next[i]] \in Range(o.stages[i].alternatives)
        BY <1>2, <1>3, <1>5, <1>6
    <1>9. \A i, k \in 1..(m + 1) : i <= k => next[i] <= next[k]
        <2> SUFFICES ASSUME NEW i \in 1..(m + 1), NEW k \in 1..(m + 1), i <= k
                     PROVE  next[i] <= next[k]
            OBVIOUS
        <2>1. CASE k \in 1..m
            <3>1. i \in 1..m
                BY <2>1
            <3> QED
                BY <1>3, <1>6, <2>1, <3>1
        <2>2. CASE k = m + 1
            <3>1. next[i] \in 1..n
                BY <1>4, <1>7
            <3> QED
                BY <1>6, <2>2, <3>1
        <2> QED
            BY <1>5, <2>1, <2>2
    <1> QED
        BY <1>7, <1>8, <1>9 DEF Visits, nodes

\* The best complete paths found so far: none or one.
BestGood(P, o, best) ==
  /\ best \in SUBSET P
  /\ best = {} \/ \E p \in best : best = {p}
  /\ \A p \in best : Visits(p, o, Len(o.stages))

\* The best total so far is one path at most.
LEMMA BestSoFar ==
    ASSUME NEW E, NEW o, NEW l, EnumGood(E, o, l)
    PROVE  BestGood(Paths(view, E, o), o, enum.best)
    <1>1. enum.best \in SUBSET Paths(view, E, o) /\ FoundInv(snapshot, o, enum)
        BY EnumFacts, EnumFields
    <1> QED
        BY <1>1 DEF BestGood, FoundInv

\* Going on to the next combination keeps the invariant.
LEMMA NextInv ==
    ASSUME NEW E, NEW o, NEW l, EnumGood(E, o, l), enum.phase # "done", ~budget.exhausted,
           o.stages # << >>, NEW code \in Failures \ {"WORK_BUDGET_EXHAUSTED"},
           NEW best, BestGood(Paths(view, E, o), o, best), NextCombination(code, best)
    PROVE  EnumInv(snapshot, view, E, o, l, enum', call', budget')
    <1> DEFINE P == Paths(view, E, o)
               next == [enum EXCEPT !.phase = "combination", !.combination = @ + 1,
                                    !.leg_failure = code, !.best = best]
    <1>1. /\ enum \in EnumRecords(P, o) /\ FoundInv(snapshot, o, enum)
          /\ EnumInv(snapshot, view, E, o, l, enum, call, budget)
        BY EnumFacts
    <1>2. Goto(next)
        BY DEF NextCombination
    <1>3. best \in SUBSET P /\ "combination" \in Phases /\ enum.combination + 1 \in Nat
        BY <1>1, EnumFields DEF BestGood, Phases
    <1> HIDE DEF P
    <1>4. /\ next \in EnumRecords(P, o) /\ next.phase = "combination"
          /\ next.result = enum.result /\ next.pending = enum.pending /\ next.best = best
        BY <1>1, <1>3 DEF EnumRecords
    <1> HIDE DEF next
    <1>5. FoundInv(snapshot, o, next) /\ next.result = NoResult
        BY <1>1, <1>4 DEF FoundInv, BestGood
    <1>6. YenInv(o, next, Idle) /\ LegInv(P, o, next, Idle)
        BY <1>4 DEF YenInv, LegInv
    <1>7. next.result.failure # "WORK_BUDGET_EXHAUSTED" /\ next.phase \notin Waiting
        BY <1>4, <1>5 DEF NoResult, Waiting
    <1> QED
        BY <1>1, <1>2, <1>4, <1>5, <1>6, <1>7, GotoInv DEF P

\* A set of one path as a sequence.
LEMMA SingletonList ==
    ASSUME NEW P, NEW p \in P, NEW S1, S1 = {p}
    PROVE  SetToSeq(S1) \in Seq(P) /\ Range(SetToSeq(S1)) \subseteq S1
    <1>1. Cardinality(S1) = 1
        BY FS_Singleton
    <1> DEFINE f == [i \in 1..1 |-> p]
    <1>2. f \in [1..1 -> S1] /\ IsInjective(f)
        BY DEF IsInjective
    <1>3. \E g \in [1..Cardinality(S1) -> S1] : IsInjective(g)
        <2> HIDE DEF f
        <2> QED
            BY <1>1, <1>2
    <1>4. SetToSeq(S1) \in [1..Cardinality(S1) -> S1]
        BY <1>3, Zenon DEF SetToSeq
    <1>5. SetToSeq(S1) \in [1..1 -> S1]
        BY <1>1, <1>4
    <1> DEFINE s == SetToSeq(S1)
    <1> HIDE DEF s
    <1>6. s \in [1..1 -> S1]
        BY <1>5 DEF s
    <1>7. s \in Seq(S1)
        <2> DEFINE n == 1
        <2>1. n \in Nat /\ s \in [1..n -> S1]
            BY <1>6
        <2> HIDE DEF n
        <2> QED
            BY <2>1, SeqDef
    <1>8. s \in Seq(P) /\ Range(s) \subseteq S1
        BY <1>7 DEF Range
    <1> QED
        BY <1>8 DEF s

\* Starting a combination keeps the invariant.
LEMMA CombinationInv ==
    ASSUME NEW E, NEW o, NEW l, EnumGood(E, o, l), Combination
    PROVE  EnumInv(snapshot, view, E, o, l, enum', call', budget')
    <1> DEFINE P == Paths(view, E, o)
               start == [nodes |-> <<o.source>>, hops |-> << >>]
               next == [enum EXCEPT !.phase = "leg", !.stage = 1, !.combined = start]
               list == SetToSeq(enum.best)
               r == [NoResult EXCEPT !.ok = TRUE, !.paths = list]
    <1>1. /\ enum \in EnumRecords(P, o) /\ FoundInv(snapshot, o, enum) /\ OptionsGood(view, o)
          /\ EnumInv(snapshot, view, E, o, l, enum, call, budget) /\ enum.options = o
        BY EnumFacts
    <1>2. enum.phase = "combination" /\ enum.phase \notin Waiting /\ enum.phase # "done"
        BY DEF Combination, Waiting
    <1>3. ~budget.exhausted /\ enum.result = NoResult /\ o.stages # << >>
        BY <1>1, <1>2, EnumFacts, NotExhausted DEF FoundInv, LegInv
    <1>4. \/ enum.combination < Product(StageSizes) /\ Goto(next)
          \/ Fail(enum.leg_failure)
          \/ enum.best # {} /\ Finish(r)
        BY <1>1 DEF Combination
    <1>5. CASE enum.combination < Product(StageSizes) /\ Goto(next)
        <2>1. enum.combination < Product(Sizes(o))
            BY <1>1, <1>5 DEF StageSizes, Sizes
        <2>2. /\ start \in PathSet(view, E) /\ start.hops = << >> /\ Len(<< >>) = 0
            <3>1. o.source \in view.nodes
                BY <1>1 DEF OptionsGood
            <3> QED
                BY <3>1, TrivialPath
        <2> HIDE DEF start
        <2>3. start \in P
            <3>1. o.max_hops # Absent => Len(start.hops) <= o.max_hops
                BY <1>1, <2>2 DEF OptionsGood
            <3> QED
                BY <2>2, <3>1 DEF Paths
        <2>4. Visits(start, o, 0)
            BY VisitsNone
        <2> HIDE DEF P
        <2>5. "leg" \in Phases /\ 1 \in Nat
            BY DEF Phases
        <2>6. /\ next \in EnumRecords(P, o) /\ next.phase = "leg" /\ next.stage = 1
              /\ next.combined = start /\ next.combination = enum.combination
              /\ next.result = NoResult /\ next.pending = enum.pending /\ next.best = enum.best
            BY <1>1, <1>3, <2>3, <2>5 DEF EnumRecords
        <2> HIDE DEF next
        <2>7. FoundInv(snapshot, o, next)
            BY <1>1, <1>3, <2>6 DEF FoundInv
        <2>8. Len(o.stages) \in Nat
            BY <1>1 DEF OptionsGood
        <2>9. 1 \in 1..(Len(o.stages) + 1) /\ 1 - 1 = 0
            BY <2>8
        <2>10. LegInv(P, o, next, Idle)
            BY <1>3, <2>1, <2>3, <2>4, <2>6, <2>9 DEF LegInv
        <2>11. YenInv(o, next, Idle)
            BY <2>6 DEF YenInv
        <2>12. next.result.failure # "WORK_BUDGET_EXHAUSTED" /\ next.phase \notin Waiting
            BY <2>6 DEF NoResult, Waiting
        <2>13. Goto(next)
            BY <1>5
        <2> QED
            BY <1>1, <1>3, <2>6, <2>7, <2>10, <2>11, <2>12, <2>13, GotoInv DEF P
    <1>6. CASE Fail(enum.leg_failure)
        <2>1. enum.leg_failure \in Failures \ {"WORK_BUDGET_EXHAUSTED"}
            BY <1>1, EnumFields
        <2> QED
            BY <1>1, <1>3, <1>6, <2>1, FailInv
    <1>7. CASE enum.best # {} /\ Finish(r)
        <2>1. BestGood(P, o, enum.best)
            BY BestSoFar
        <2>2. PICK p \in enum.best : enum.best = {p}
            BY <1>7, <2>1 DEF BestGood
        <2>3. p \in P
            BY <2>1, <2>2 DEF BestGood
        <2>4. list \in Seq(P) /\ Range(list) \subseteq enum.best
            <3> HIDE DEF P
            <3> QED
                BY <2>2, <2>3, SingletonList
        <2> HIDE DEF list, P
        <2>5. NoResult \in ResultRecords(P) /\ NoResult.failure # "WORK_BUDGET_EXHAUSTED"
            <3>1. << >> \in Seq(P)
                OBVIOUS
            <3> QED
                BY <3>1 DEF NoResult, ResultRecords, Failures
        <2>6. r \in ResultRecords(P) /\ r.paths = list /\ r.failure = NoResult.failure
            BY <2>4, <2>5 DEF ResultRecords
        <2> HIDE DEF r
        <2>7. \A x \in Range(r.paths) : Visits(x, o, Len(o.stages))
            BY <2>1, <2>4, <2>6 DEF BestGood
        <2>8. ResultGood(snapshot, P, o, r)
            BY <1>3, <2>6, <2>7 DEF ResultGood
        <2>9. Finish(r) /\ r.failure # "WORK_BUDGET_EXHAUSTED"
            BY <1>7, <2>5, <2>6
        <2> QED
            BY <1>1, <1>3, <2>8, <2>9, FinishInv DEF P
    <1> QED
        BY <1>4, <1>5, <1>6, <1>7

\* Starting a leg keeps the invariant.
LEMMA LegActionInv ==
    ASSUME NEW E, NEW o, NEW l, EnumGood(E, o, l), Leg
    PROVE  EnumInv(snapshot, view, E, o, l, enum', call', budget')
    <1> DEFINE P == Paths(view, E, o)
               p == enum.combined
               n == enum.stage
               m == Len(o.stages)
               last == n > m
               target == IF last THEN o.destination ELSE Selected(enum.combination, n)
               used == Len(p.hops)
               visited == Range(p.nodes)
               src == Current
               hops == HopsLeft(used)
               bn == visited \ (IF last THEN {src, target} ELSE {src})
               none == {}
               ph == IF last THEN "finaling" ELSE "legging"
               next == [enum EXCEPT !.phase = ph]
    <1>1. /\ ViewShape(view, E) /\ OptionsGood(view, o) /\ Limits(l)
          /\ enum \in EnumRecords(P, o) /\ enum.options = o
          /\ YenInv(o, enum, call) /\ LegInv(P, o, enum, call)
          /\ FoundInv(snapshot, o, enum)
          /\ EnumInv(snapshot, view, E, o, l, enum, call, budget)
          /\ budget \in WorkBudgets(l)
        BY EnumFacts
    <1>2. enum.phase = "leg" /\ enum.phase \notin Waiting /\ enum.phase # "done"
        BY DEF Leg, Waiting
    <1>3. ~budget.exhausted /\ enum.result = NoResult /\ o.stages # << >>
        BY <1>1, <1>2, NotExhausted DEF FoundInv, LegInv
    <1>4. /\ enum.combination < Product(Sizes(o)) /\ p \in P /\ n \in 1..(m + 1) /\ m \in Nat
          /\ Visits(p, o, n - 1)
        BY <1>1, <1>2 DEF LegInv, OptionsGood
    <1>5. \/ NextCombination("REQUIRED_NODE_MISSING", enum.best)
          \/ NextCombination("MAX_HOPS_EXCEEDED", enum.best)
          \/ target \in view.nodes /\ Search(next, budget, src, target, hops, bn, none)
        BY <1>1 DEF Leg
    <1>6. BestGood(P, o, enum.best)
        BY BestSoFar
    <1> HIDE DEF P, target, hops, bn, none
    <1>7. CASE \/ NextCombination("REQUIRED_NODE_MISSING", enum.best)
               \/ NextCombination("MAX_HOPS_EXCEEDED", enum.best)
        <2>1. /\ "REQUIRED_NODE_MISSING" \in Failures \ {"WORK_BUDGET_EXHAUSTED"}
              /\ "MAX_HOPS_EXCEEDED" \in Failures \ {"WORK_BUDGET_EXHAUSTED"}
            BY DEF Failures
        <2> QED
            BY <1>2, <1>3, <1>6, <1>7, <2>1, NextInv DEF P
    <1>8. CASE target \in view.nodes /\ Search(next, budget, src, target, hops, bn, none)
        <2>1. ph \in Phases /\ ph \in Waiting /\ ph \in {"legging", "finaling"}
            BY DEF Phases, Waiting
        <2> HIDE DEF ph
        <2>2. /\ next \in EnumRecords(P, o) /\ next.phase = ph /\ next.stage = n
              /\ next.combined = p /\ next.combination = enum.combination
              /\ next.result = NoResult /\ next.pending = enum.pending /\ next.best = enum.best
            BY <1>1, <1>3, <2>1, PhaseSet
        <2> HIDE DEF next
        <2>3. FoundInv(snapshot, o, next)
            BY <1>1, <1>2, <1>3, <2>2 DEF FoundInv
        <2>4. /\ p \in PathSet(view, E) /\ used \in Nat
              /\ (o.max_hops # Absent => used <= o.max_hops)
            BY <1>4, PathOut DEF P, Paths
        <2>5. hops = BoundLeft(o, used) /\ hops \in Nat \cup {Absent}
              /\ (hops # Absent => o.max_hops # Absent)
            BY <1>1, <2>4 DEF hops, HopsLeft, NoHopBound, BoundLeft, OptionsGood
        <2>6. src = LastNode(p) /\ src \in view.nodes
            <3> DEFINE a == p.nodes
                       N == view.nodes
            <3>1. a \in Seq(N) /\ Len(a) > 0
                BY <2>4, PathOut
            <3>2. src = a[Len(a)]
                BY DEF Current
            <3> HIDE DEF a, N, src
            <3>3. a[Len(a)] \in N
                BY <3>1
            <3> QED
                BY <3>2, <3>3 DEF a, N, LastNode
        <2>7. bn \in SUBSET Nat /\ none \in SUBSET Nat
            <3> DEFINE a == p.nodes
                       N == view.nodes
            <3>1. a \in Seq(N) /\ N \subseteq Nat
                BY <1>1, <2>4, PathOut DEF ViewShape
            <3> HIDE DEF a, N
            <3>2. Range(a) \subseteq Nat
                <4>1. \A i \in DOMAIN a : a[i] \in N
                    BY <3>1
                <4> QED
                    BY <3>1, <4>1 DEF Range
            <3> QED
                BY <3>2 DEF a, bn, none
        <2>8. ~last => target \in Range(o.stages[n].alternatives) /\ n \in 1..m
            <3> SUFFICES ASSUME ~last
                         PROVE  target \in Range(o.stages[n].alternatives) /\ n \in 1..m
                OBVIOUS
            <3>1. n \in 1..m
                BY <1>4
            <3>2. target = Selected(enum.combination, n)
                BY DEF target
            <3> QED
                BY <1>4, <3>1, <3>2, SelectedIsAlternative
        <2>9. last => n = m + 1
            BY <1>4
        <2>10. ph = IF last THEN "finaling" ELSE "legging"
            BY DEF ph
        <2>14. /\ next.combination < Product(Sizes(o)) /\ next.combined \in P
               /\ next.stage \in 1..(Len(o.stages) + 1) /\ Visits(next.combined, o, next.stage - 1)
               /\ hops = BoundLeft(o, Len(next.combined.hops))
            BY <1>4, <2>2, <2>5
        <2>15. last => next.stage = Len(o.stages) + 1
            BY <2>2, <2>9
        <2>16. ~last => /\ next.stage <= Len(o.stages) /\ src = LastNode(next.combined)
                        /\ target \in Range(o.stages[next.stage].alternatives)
            BY <2>2, <2>6, <2>8
        <2> HIDE DEF last, used, m, n, src, p
        <2>11. ASSUME NEW c, c.src = src, c.dst = target, c.hops = hops
               PROVE  YenInv(o, next, c) /\ LegInv(P, o, next, c)
            <3>1. YenInv(o, next, c)
                BY <2>1, <2>2 DEF YenInv
            <3>2. CASE last
                <4>1. ph = "finaling"
                    BY <2>10, <3>2
                <4>2. next.phase = "finaling"
                    BY <2>2, <4>1
                <4>3. c.hops = BoundLeft(o, Len(next.combined.hops))
                    BY <2>11, <2>14
                <4>4. next.stage = Len(o.stages) + 1
                    BY <2>15, <3>2
                <4>5. /\ next.combination < Product(Sizes(o)) /\ next.combined \in P
                      /\ next.stage \in 1..(Len(o.stages) + 1)
                      /\ Visits(next.combined, o, next.stage - 1)
                    BY <2>14
                <4> QED
                    BY <1>3, <3>1, <4>2, <4>3, <4>4, <4>5 DEF LegInv
            <3>3. CASE ~last
                <4>1. ph = "legging" /\ n <= m
                    BY <2>8, <2>10, <3>3
                <4>2. next.phase = "legging"
                    BY <2>2, <4>1
                <4>3. c.hops = BoundLeft(o, Len(next.combined.hops))
                    BY <2>11, <2>14
                <4>4. /\ next.stage <= Len(o.stages) /\ c.src = LastNode(next.combined)
                      /\ c.dst \in Range(o.stages[next.stage].alternatives)
                    BY <2>11, <2>16, <3>3
                <4>5. /\ next.combination < Product(Sizes(o)) /\ next.combined \in P
                      /\ next.stage \in 1..(Len(o.stages) + 1)
                      /\ Visits(next.combined, o, next.stage - 1)
                    BY <2>14
                <4> QED
                    BY <1>3, <3>1, <4>2, <4>3, <4>4, <4>5 DEF LegInv
            <3> QED
                BY <3>1, <3>2, <3>3
        <2>12. \A c : c.src = src /\ c.dst = target /\ c.hops = hops =>
                        YenInv(o, next, c) /\ LegInv(P, o, next, c)
            BY <2>11
        <2>13. next.phase \in Waiting
            BY <2>1, <2>2
        <2> QED
            BY <1>1, <1>3, <1>8, <2>2, <2>3, <2>5, <2>6, <2>7, <2>12, <2>13, SearchInv DEF P
    <1> QED
        BY <1>5, <1>7, <1>8

\* A leg that was found prolongs the path within the hop bound.
LEMMA LegJoins ==
    ASSUME NEW E, NEW o, NEW l, EnumGood(E, o, l), enum.phase \in {"legging", "finaling"},
           NEW q, FoundPath(view, E, call, q)
    PROVE  /\ Join(enum.combined, q) \in Paths(view, E, o)
           /\ Visits(Join(enum.combined, q), o, enum.stage - 1)
           /\ enum.phase = "legging" => Visits(Join(enum.combined, q), o, enum.stage)
    <1> DEFINE P == Paths(view, E, o)
               p == enum.combined
               j == Join(p, q)
               n == enum.stage
               m == Len(o.stages)
               used == Len(p.hops)
    <1>1. LegInv(P, o, enum, call) /\ OptionsGood(view, o)
        BY EnumFacts
    <1>2. /\ p \in P /\ n \in 1..(m + 1) /\ m \in Nat /\ Visits(p, o, n - 1)
          /\ call.hops = BoundLeft(o, used)
          /\ enum.phase = "legging" => /\ n <= m
                                       /\ call.src = LastNode(p)
                                       /\ call.dst \in Range(o.stages[n].alternatives)
        BY <1>1 DEF LegInv, OptionsGood
    <1>3. /\ q \in PathSet(view, E) /\ q.nodes[1] = call.src /\ LastNode(q) = call.dst
          /\ call.hops # Absent => Len(q.hops) <= call.hops
        BY DEF FoundPath, LastNode
    <1>4. p \in PathSet(view, E) /\ (o.max_hops # Absent => used <= o.max_hops)
        BY <1>2 DEF Paths
    <1>5. used \in Nat /\ Len(q.hops) \in Nat
        BY <1>3, <1>4, PathOut
    <1>6. JoinedWell(view, E, p, q)
        BY <1>3, <1>4, JoinIsPath
    <1>7. /\ j \in PathSet(view, E) /\ Len(j.hops) = used + Len(q.hops)
          /\ LastNode(p) = q.nodes[1] => LastNode(j) = LastNode(q)
        BY <1>6 DEF JoinedWell
    <1>8. n - 1 \in Nat /\ n = (n - 1) + 1
        BY <1>2
    <1>9. Visits(j, o, n - 1)
        BY <1>2, <1>3, <1>4, <1>8, VisitsJoin
    <1> HIDE DEF j, p, n, m, used
    <1>10. o.max_hops # Absent => Len(j.hops) <= o.max_hops
        <2> SUFFICES ASSUME o.max_hops # Absent
                     PROVE  Len(j.hops) <= o.max_hops
            OBVIOUS
        <2>1. o.max_hops \in Nat /\ call.hops = o.max_hops - used /\ call.hops \in Nat
            BY <1>1, <1>2, <1>4, <1>5 DEF OptionsGood, BoundLeft
        <2>2. call.hops # Absent
            BY <2>1 DEF Absent
        <2> QED
            BY <1>3, <1>5, <1>7, <2>1, <2>2
    <1>11. j \in P
        BY <1>7, <1>10 DEF Paths
    <1>12. ASSUME enum.phase = "legging"
           PROVE  Visits(j, o, n)
        <2> DEFINE k == n - 1
        <2>1. k \in Nat /\ n = k + 1 /\ Visits(j, o, k)
            BY <1>8, <1>9
        <2> HIDE DEF k
        <2>2. LastNode(j) \in Range(o.stages[k + 1].alternatives)
            BY <1>2, <1>3, <1>7, <1>12, <2>1
        <2>3. Visits(j, o, k + 1)
            BY <1>7, <2>1, <2>2, VisitsNext
        <2> QED
            BY <2>1, <2>3
    <1> QED
        BY <1>9, <1>11, <1>12 DEF j, p, n

\* A leg that was found, or not, keeps the invariant.
LEMMA LegFoundInv ==
    ASSUME NEW E, NEW o, NEW l, EnumGood(E, o, l), LegFound
    PROVE  EnumInv(snapshot, view, E, o, l, enum', call', budget')
    <1> DEFINE P == Paths(view, E, o)
               out == SearchOutcome
               j == Join(enum.combined, out.path)
               n == enum.stage
               m == Len(o.stages)
               next == [enum EXCEPT !.phase = "leg", !.stage = @ + 1, !.combined = Join(@, out.path)]
    <1>1. /\ enum \in EnumRecords(P, o) /\ LegInv(P, o, enum, call) /\ FoundInv(snapshot, o, enum)
          /\ EnumInv(snapshot, view, E, o, l, enum, call, budget) /\ OptionsGood(view, o)
        BY EnumFacts
    <1>2. enum.phase = "legging" /\ enum.phase \in Waiting
        BY DEF LegFound, Waiting
    <1>3. /\ out.limit => call.status = "limit"
          /\ ~out.limit => ~budget.exhausted
          /\ out.found => FoundPath(view, E, call, out.path)
          /\ enum.result = NoResult /\ enum.phase # "done"
        BY <1>2, OutcomeFacts
    <1>4. /\ enum.combination < Product(Sizes(o)) /\ n \in 1..(m + 1) /\ m \in Nat /\ n <= m
          /\ o.stages # << >>
        BY <1>1, <1>2 DEF LegInv, OptionsGood
    <1>5. \/ out.limit /\ FailLimit("WORK_BUDGET_EXHAUSTED")
          \/ ~out.limit /\ out.found /\ Goto(next)
          \/ ~out.limit /\ NextCombination("REQUIRED_NODE_MISSING", enum.best)
          \/ ~out.limit /\ NextCombination("REQUIRED_ANY_SET_UNSATISFIED", enum.best)
        BY DEF LegFound
    <1>6. CASE out.limit /\ FailLimit("WORK_BUDGET_EXHAUSTED")
        <2> HIDE DEF out
        <2> QED
            BY <1>1, <1>2, <1>3, <1>6, LimitInv
    <1>7. CASE \/ ~out.limit /\ NextCombination("REQUIRED_NODE_MISSING", enum.best)
               \/ ~out.limit /\ NextCombination("REQUIRED_ANY_SET_UNSATISFIED", enum.best)
        <2>1. /\ "REQUIRED_NODE_MISSING" \in Failures \ {"WORK_BUDGET_EXHAUSTED"}
              /\ "REQUIRED_ANY_SET_UNSATISFIED" \in Failures \ {"WORK_BUDGET_EXHAUSTED"}
            BY DEF Failures
        <2>2. BestGood(Paths(view, E, o), o, enum.best)
            BY BestSoFar
        <2> HIDE DEF out
        <2> QED
            BY <1>3, <1>4, <1>7, <2>1, <2>2, NextInv
    <1>8. CASE ~out.limit /\ out.found /\ Goto(next)
        <2>1. FoundPath(view, E, call, out.path)
            BY <1>3, <1>8
        <2>2. j \in P /\ Visits(j, o, n)
            <3> DEFINE q == out.path
            <3>1. FoundPath(view, E, call, q)
                BY <2>1
            <3> HIDE DEF q
            <3>2. Join(enum.combined, q) \in P /\ Visits(Join(enum.combined, q), o, enum.stage)
                BY <1>2, <3>1, LegJoins
            <3> QED
                BY <3>2 DEF q
        <2>3. "leg" \in Phases /\ n + 1 \in Nat
            BY <1>4 DEF Phases
        <2> HIDE DEF P
        <2>4. /\ next \in EnumRecords(P, o) /\ next.phase = "leg" /\ next.stage = n + 1
              /\ next.combined = j /\ next.combination = enum.combination
              /\ next.result = NoResult /\ next.pending = enum.pending /\ next.best = enum.best
            <3> HIDE DEF out
            <3> QED
                BY <1>1, <1>3, <2>2, <2>3 DEF EnumRecords
        <2>5. Goto(next)
            BY <1>8
        <2>6. n + 1 \in 1..(m + 1) /\ (n + 1) - 1 = n
            BY <1>4
        <2> HIDE DEF next, j
        <2>7. FoundInv(snapshot, o, next)
            BY <1>1, <1>3, <2>4 DEF FoundInv
        <2>8. /\ next.combination < Product(Sizes(o)) /\ next.combined \in P
              /\ next.stage \in 1..(Len(o.stages) + 1) /\ Visits(next.combined, o, next.stage - 1)
            BY <1>4, <2>2, <2>4, <2>6
        <2>9. YenInv(o, next, Idle) /\ LegInv(P, o, next, Idle)
            BY <1>4, <2>4, <2>8 DEF YenInv, LegInv
        <2>10. next.result.failure # "WORK_BUDGET_EXHAUSTED" /\ next.phase \notin Waiting
            BY <2>4 DEF NoResult, Waiting
        <2>11. ~budget.exhausted
            BY <1>3, <1>8
        <2> QED
            BY <1>1, <2>4, <2>5, <2>7, <2>9, <2>10, <2>11, GotoInv DEF P
    <1> QED
        BY <1>5, <1>6, <1>7, <1>8

\* The last leg of a combination keeps the invariant.
LEMMA FinalFoundInv ==
    ASSUME NEW E, NEW o, NEW l, EnumGood(E, o, l), FinalFound
    PROVE  EnumInv(snapshot, view, E, o, l, enum', call', budget')
    <1> DEFINE P == Paths(view, E, o)
               out == SearchOutcome
               total == Join(enum.combined, out.path)
               all == enum.best \cup {total}
               best == Best(all)
    <1>1. /\ enum \in EnumRecords(P, o) /\ LegInv(P, o, enum, call) /\ OptionsGood(view, o)
          /\ EnumInv(snapshot, view, E, o, l, enum, call, budget) /\ ViewShape(view, E)
        BY EnumFacts
    <1>2. enum.phase = "finaling" /\ enum.phase \in Waiting
        BY DEF FinalFound, Waiting
    <1>3. /\ out.limit => call.status = "limit"
          /\ ~out.limit => ~budget.exhausted
          /\ out.found => FoundPath(view, E, call, out.path)
          /\ enum.phase # "done"
        BY <1>2, OutcomeFacts
    <1>4. enum.stage = Len(o.stages) + 1 /\ Len(o.stages) \in Nat /\ o.stages # << >>
        BY <1>1, <1>2 DEF LegInv, OptionsGood
    <1>5. \/ out.limit /\ FailLimit("WORK_BUDGET_EXHAUSTED")
          \/ ~out.limit /\ NextCombination("MAX_HOPS_EXCEEDED", enum.best)
          \/ ~out.limit /\ NextCombination(enum.leg_failure, enum.best)
          \/ ~out.limit /\ NextCombination("COST_OVERFLOW", enum.best)
          \/ ~out.limit /\ out.found /\ NextCombination(enum.leg_failure, {best})
        BY DEF FinalFound
    <1>6. BestGood(P, o, enum.best)
        BY BestSoFar
    <1>7. /\ "MAX_HOPS_EXCEEDED" \in Failures \ {"WORK_BUDGET_EXHAUSTED"}
          /\ "COST_OVERFLOW" \in Failures \ {"WORK_BUDGET_EXHAUSTED"}
          /\ enum.leg_failure \in Failures \ {"WORK_BUDGET_EXHAUSTED"}
        BY <1>1, EnumFields DEF Failures
    <1>8. out.found => BestGood(P, o, {best})
        <2> SUFFICES ASSUME out.found
                     PROVE  BestGood(P, o, {best})
            OBVIOUS
        <2>1. total \in P /\ Visits(total, o, Len(o.stages))
            <3> DEFINE q == out.path
            <3>1. FoundPath(view, E, call, q)
                BY <1>3
            <3> HIDE DEF q
            <3>2. Join(enum.combined, q) \in P /\ Visits(Join(enum.combined, q), o, enum.stage - 1)
                BY <1>2, <3>1, LegJoins
            <3>3. enum.stage - 1 = Len(o.stages)
                BY <1>4
            <3> QED
                BY <3>2, <3>3 DEF q
        <2> HIDE DEF total, out
        <2>2. IsFiniteSet(all)
            <3>1. IsFiniteSet(enum.best)
                BY <1>6, FS_Singleton, FS_EmptySet DEF BestGood
            <3> QED
                BY <3>1, FS_AddElement
        <2>3. /\ all \in SUBSET P /\ all # {} /\ \A p \in all : Visits(p, o, Len(o.stages))
            BY <1>6, <2>1 DEF BestGood
        <2>4. all \in SUBSET PathSet(view, E)
            BY <2>3 DEF Paths
        <2> HIDE DEF all
        <2>5. best \in all
            BY <1>1, <2>2, <2>3, <2>4, BestExists
        <2> HIDE DEF best
        <2> QED
            BY <2>3, <2>5 DEF BestGood
    <1> HIDE DEF out, best, P
    <1>9. CASE out.limit /\ FailLimit("WORK_BUDGET_EXHAUSTED")
        BY <1>1, <1>2, <1>3, <1>9, LimitInv
    <1>10. CASE \/ ~out.limit /\ NextCombination("MAX_HOPS_EXCEEDED", enum.best)
                \/ ~out.limit /\ NextCombination(enum.leg_failure, enum.best)
                \/ ~out.limit /\ NextCombination("COST_OVERFLOW", enum.best)
        BY <1>3, <1>4, <1>6, <1>7, <1>10, NextInv DEF P
    <1>11. CASE ~out.limit /\ out.found /\ NextCombination(enum.leg_failure, {best})
        <2> DEFINE b == {best}
        <2>1. BestGood(P, o, b) /\ NextCombination(enum.leg_failure, b)
            BY <1>8, <1>11
        <2> HIDE DEF b
        <2> QED
            BY <1>3, <1>4, <1>7, <1>11, <2>1, NextInv DEF P
    <1> QED
        BY <1>5, <1>9, <1>10, <1>11

\* Every step of an enumeration keeps its invariant.
LEMMA EnumStepInv ==
    ASSUME NEW E, NEW o, NEW l, EnumGood(E, o, l), EnumStep
    PROVE  EnumInv(snapshot, view, E, o, l, enum', call', budget')
    <1>1. CASE EnumStart
        BY <1>1, EnumStartInv
    <1>2. CASE Pop
        BY <1>2, PopInv
    <1>3. CASE First
        BY <1>3, FirstInv
    <1>4. CASE Spur
        BY <1>4, SpurInv
    <1>5. CASE SpurFound
        BY <1>5, SpurFoundInv
    <1>6. CASE Combination
        BY <1>6, CombinationInv
    <1>7. CASE Leg
        BY <1>7, LegActionInv
    <1>8. CASE LegFound
        BY <1>8, LegFoundInv
    <1>9. CASE FinalFound
        BY <1>9, FinalFoundInv
    <1> QED
        BY <1>1, <1>2, <1>3, <1>4, <1>5, <1>6, <1>7, <1>8, <1>9 DEF EnumStep
=============================================================================
