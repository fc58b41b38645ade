-------------------------------- MODULE Lemmas --------------------------------
(***************************************************************************)
(* Facts about numbers, finite sets and sequences that the proofs of       *)
(* several components rest on.  Induction is stated with sets in the place *)
(* of predicates: a proof by induction names the set of the values for     *)
(* which its claim holds.                                                  *)
(***************************************************************************)
EXTENDS Integers, Sequences, FiniteSets, FiniteSetsExt, Functions,
        FiniteSetTheorems, SequenceTheorems, WellFoundedInduction, TLAPS

-----------------------------------------------------------------------------
(* Induction *)

\* A set of natural numbers has a least one.
LEMMA LeastNat ==
    ASSUME NEW T, T \subseteq Nat, T # {}
    PROVE  \E n \in T : \A m \in T : n <= m
<1>1. \E x \in T : \A y \in T : ~(<<y, x>> \in OpToRel(<, Nat))
  BY WFMin, NatLessThanWellFounded, Zenon
<1>2. PICK x \in T : \A y \in T : ~(<<y, x>> \in OpToRel(<, Nat))
  BY <1>1
<1>3. \A y \in T : ~(y < x)
  BY <1>2 DEF OpToRel
<1> QED
  BY <1>3

\* Induction over the natural numbers.
LEMMA NatSetInduction ==
    ASSUME NEW T, 0 \in T, \A n \in Nat : n \in T => n + 1 \in T
    PROVE  Nat \subseteq T
<1> SUFFICES ASSUME Nat \ T # {} PROVE FALSE
  OBVIOUS
<1>1. PICK n \in Nat \ T : \A m \in Nat \ T : n <= m
  <2>1. Nat \ T \subseteq Nat
    OBVIOUS
  <2> QED
    BY <2>1, LeastNat
<1>2. n # 0 /\ n - 1 \in Nat
  BY <1>1
<1>3. n - 1 \in T
  BY <1>1, <1>2
<1>4. (n - 1) + 1 \in T
  BY <1>2, <1>3
<1> QED
  BY <1>1, <1>2, <1>4

\* Induction over the subsets of a finite set.
LEMMA FiniteInduction ==
    ASSUME NEW S, IsFiniteSet(S), NEW F, {} \in F,
           \A s \in SUBSET S : s # {} /\ (\A x \in s : s \ {x} \in F) => s \in F
    PROVE  S \in F
<1> DEFINE T == {n \in Nat : \A s \in SUBSET S : Cardinality(s) = n => s \in F}
<1>1. \A s \in SUBSET S : IsFiniteSet(s) /\ Cardinality(s) \in Nat
  BY FS_Subset, FS_CardinalityType
<1>2. 0 \in T
  BY <1>1, FS_EmptySet
<1>3. ASSUME NEW n \in Nat, n \in T PROVE n + 1 \in T
  <2> SUFFICES ASSUME NEW s \in SUBSET S, Cardinality(s) = n + 1 PROVE s \in F
    OBVIOUS
  <2>1. s # {}
    BY FS_EmptySet, <1>1
  <2>2. ASSUME NEW x \in s PROVE s \ {x} \in F
    <3>1. IsFiniteSet(s)
      BY <1>1
    <3>2. Cardinality(s \ {x}) = Cardinality(s) - 1
      BY <3>1, FS_RemoveElement
    <3> QED
      BY <1>3, <3>2
  <2> QED
    BY <2>1, <2>2
<1>4. Nat \subseteq T
  <2> HIDE DEF T
  <2> QED
    BY <1>2, <1>3, NatSetInduction
<1> QED
  BY <1>1, <1>4

-----------------------------------------------------------------------------
(* Folds *)

\* g is the fold of the subsets of S that takes pick[s] out of s first.
IsFold(g, S, base, step, pick) ==
    \A s \in SUBSET S :
        g[s] = IF s = {} THEN base ELSE step[<<pick[s], g[s \ {pick[s]}]>>]

\* There is such a fold of every finite set.
LEMMA FiniteRecursion ==
    ASSUME NEW S, IsFiniteSet(S), NEW R, NEW base \in R,
           NEW step \in [S \X R -> R],
           NEW pick, \A s \in SUBSET S : s # {} => pick[s] \in s
    PROVE  \E g \in [SUBSET S -> R] : IsFold(g, S, base, step, pick)
<1> DEFINE Small(n) == {s \in SUBSET S : Cardinality(s) <= n}
           Is(g, n) == /\ g \in [Small(n) -> R]
                       /\ \A s \in Small(n) :
                             g[s] = IF s = {} THEN base
                                    ELSE step[<<pick[s], g[s \ {pick[s]}]>>]
           T == {n \in Nat : \E g : Is(g, n)}
<1>1. \A s \in SUBSET S : IsFiniteSet(s) /\ Cardinality(s) \in Nat
  BY FS_Subset, FS_CardinalityType
<1>2. \A s \in SUBSET S : s # {} =>
          /\ pick[s] \in S /\ s \ {pick[s]} \in SUBSET S
          /\ Cardinality(s \ {pick[s]}) = Cardinality(s) - 1
          /\ Cardinality(s) > 0
  <2> SUFFICES ASSUME NEW s \in SUBSET S, s # {}
               PROVE  /\ pick[s] \in S /\ s \ {pick[s]} \in SUBSET S
                      /\ Cardinality(s \ {pick[s]}) = Cardinality(s) - 1
                      /\ Cardinality(s) > 0
    OBVIOUS
  <2>1. pick[s] \in s
    OBVIOUS
  <2>2. IsFiniteSet(s) /\ Cardinality(s) \in Nat
    BY <1>1
  <2>3. Cardinality(s) # 0
    BY <2>2, FS_EmptySet
  <2>4. Cardinality(s \ {pick[s]}) = Cardinality(s) - 1
    BY <2>1, <2>2, FS_RemoveElement
  <2>5. pick[s] \in S /\ s \ {pick[s]} \in SUBSET S
    BY <2>1
  <2>6. Cardinality(s) > 0
    BY <2>2, <2>3
  <2> QED
    BY <2>4, <2>5, <2>6
<1>3. 0 \in T
  <2> DEFINE g == [s \in Small(0) |-> base]
  <2>1. ASSUME NEW s \in Small(0) PROVE s = {}
    <3>1. s \in SUBSET S /\ Cardinality(s) \in Nat /\ Cardinality(s) <= 0
      BY <1>1
    <3>2. s # {} => Cardinality(s) > 0
      BY <1>2, <3>1
    <3> QED
      BY <3>1, <3>2
  <2>2. Is(g, 0)
    BY <2>1
  <2> QED
    BY <2>2
<1>4. ASSUME NEW n \in Nat, n \in T PROVE n + 1 \in T
  <2>1. PICK g : Is(g, n)
    BY <1>4
  <2> DEFINE h == [s \in Small(n + 1) |->
                      IF s = {} THEN base ELSE step[<<pick[s], g[s \ {pick[s]}]>>]]
  <2>2. \A s \in Small(n + 1) : s # {} => s \ {pick[s]} \in Small(n) /\ s \ {pick[s]} \in Small(n + 1)
    BY <1>1, <1>2
  <2>3. \A s \in Small(n) : s \in Small(n + 1)
    BY <1>1
  <2> HIDE DEF Small
  <2>4. \A s \in Small(n) : h[s] = g[s]
    BY <2>1, <2>3
  <2>5. h \in [Small(n + 1) -> R]
    <3>1. \A s \in Small(n + 1) : s # {} => pick[s] \in S
      BY <1>2 DEF Small
    <3> QED
      BY <2>1, <2>2, <3>1
  <2>6. Is(h, n + 1)
    BY <2>2, <2>4, <2>5
  <2> HIDE DEF h, Is
  <2> QED
    BY <2>6
<1>5. Nat \subseteq T
  <2> HIDE DEF T
  <2> QED
    BY <1>3, <1>4, NatSetInduction
<1>6. PICK g : Is(g, Cardinality(S))
  BY <1>1, <1>5
<1>7. Small(Cardinality(S)) = SUBSET S
  BY FS_Subset, <1>1
<1> HIDE DEF Small
<1>8. /\ g \in [SUBSET S -> R]
      /\ \A s \in SUBSET S : g[s] = IF s = {} THEN base
                                    ELSE step[<<pick[s], g[s \ {pick[s]}]>>]
  BY <1>6, <1>7
<1> QED
  BY <1>8 DEF IsFold

\* g adds up the weights of the elements of a set, the one chosen first last.
IsSum(g, S, w) ==
    /\ g \in [SUBSET S -> Nat]
    /\ \A s \in SUBSET S :
          g[s] = IF s = {} THEN 0
                 ELSE w[CHOOSE x \in s : TRUE] + g[s \ {CHOOSE x \in s : TRUE}]

\* Every finite set of weights has a sum.
LEMMA SumExists ==
    ASSUME NEW S, IsFiniteSet(S), NEW w \in [S -> Nat]
    PROVE  \E g : IsSum(g, S, w)
<1> DEFINE pick == [s \in SUBSET S |-> CHOOSE x \in s : TRUE]
           step == [p \in S \X Nat |-> w[p[1]] + p[2]]
<1>1. step \in [S \X Nat -> Nat] /\ \A x \in S, r \in Nat : step[<<x, r>>] = w[x] + r
  OBVIOUS
<1>2. \A s \in SUBSET S :
          s # {} => pick[s] \in s /\ pick[s] \in S /\ pick[s] = CHOOSE x \in s : TRUE
  OBVIOUS
<1> HIDE DEF pick, step
<1>3. PICK g \in [SUBSET S -> Nat] : IsFold(g, S, 0, step, pick)
  <2>1. \A s \in SUBSET S : s # {} => pick[s] \in s
    BY <1>2
  <2>2. 0 \in Nat
    OBVIOUS
  <2> QED
    BY <1>1, <2>1, <2>2, FiniteRecursion
<1>4. ASSUME NEW s \in SUBSET S
      PROVE  g[s] = IF s = {} THEN 0
                     ELSE w[CHOOSE x \in s : TRUE] + g[s \ {CHOOSE x \in s : TRUE}]
  <2>1. CASE s = {}
    BY <1>3, <2>1 DEF IsFold
  <2>2. CASE s # {}
    <3>1. pick[s] \in S /\ g[s \ {pick[s]}] \in Nat
      BY <1>2, <2>2
    <3>2. g[s] = step[<<pick[s], g[s \ {pick[s]}]>>]
      BY <1>3, <2>2 DEF IsFold
    <3>3. g[s] = w[pick[s]] + g[s \ {pick[s]}]
      BY <1>1, <3>1, <3>2
    <3> QED
      BY <1>2, <2>2, <3>3
  <2> QED
    BY <2>1, <2>2
<1> QED
  BY <1>4 DEF IsSum

\* w is v with one more unit of t's weight.
OneMoreUnit(S, v, w, t) ==
    /\ t \in S
    /\ v \in [S -> Nat] /\ w \in [S -> Nat]
    /\ w[t] = v[t] + 1
    /\ \A x \in S : x # t => w[x] = v[x]

\* It adds one to the sum.
LEMMA SumBump ==
    ASSUME NEW S, IsFiniteSet(S), NEW v, NEW w, NEW t, OneMoreUnit(S, v, w, t),
           NEW g, IsSum(g, S, v), NEW h, IsSum(h, S, w)
    PROVE  h[S] = g[S] + 1
<1>0. /\ t \in S /\ v \in [S -> Nat] /\ w \in [S -> Nat] /\ w[t] = v[t] + 1
      /\ \A x \in S : x # t => w[x] = v[x]
      /\ g \in [SUBSET S -> Nat] /\ h \in [SUBSET S -> Nat]
  BY DEF OneMoreUnit, IsSum
<1> DEFINE F == {s \in SUBSET S : h[s] = g[s] + (IF t \in s THEN 1 ELSE 0)}
<1>1. {} \in F
  BY DEF IsSum
<1>2. ASSUME NEW s \in SUBSET S, s # {}, \A x \in s : s \ {x} \in F
      PROVE  s \in F
  <2> DEFINE c == CHOOSE x \in s : TRUE
             r == s \ {c}
  <2>1. c \in s /\ r \in SUBSET S
    BY <1>2
  <2>2. g[s] = v[c] + g[r] /\ h[s] = w[c] + h[r]
    BY <1>2 DEF IsSum
  <2>3. h[r] = g[r] + (IF t \in r THEN 1 ELSE 0)
    BY <1>2, <2>1
  <2>4. t \in r <=> t \in s /\ t # c
    OBVIOUS
  <2>5. /\ v[c] \in Nat /\ w[c] \in Nat /\ g[r] \in Nat /\ h[r] \in Nat
    BY <1>0, <2>1
  <2> HIDE DEF c, r
  <2>6. h[s] = g[s] + (IF t \in s THEN 1 ELSE 0)
    <3>1. CASE t = c
      BY <1>0, <2>1, <2>2, <2>3, <2>4, <2>5, <3>1
    <3>2. CASE t # c
      <4>1. w[c] = v[c]
        BY <1>0, <2>1, <3>2
      <4> QED
        BY <2>2, <2>3, <2>4, <2>5, <3>2, <4>1
    <3> QED
      BY <3>1, <3>2
  <2> QED
    BY <2>6
<1>3. S \in F
  <2> HIDE DEF F
  <2> QED
    BY <1>1, <1>2, FiniteInduction
<1> QED
  BY <1>0, <1>3

\* That sum is what the Functions module calls the sum of a function.
LEMMA SumOf ==
    ASSUME NEW S, IsFiniteSet(S), NEW f \in [S -> Nat]
    PROVE  \E g : IsSum(g, S, f) /\ SumFunction(f) = g[S]
<1> DEFINE body(g) == [s \in SUBSET S |-> IF s = {} THEN 0
                     ELSE f[CHOOSE x \in s : TRUE] + g[s \ {CHOOSE x \in s : TRUE}]]
           it == CHOOSE g : g = body(g)
<1>1. PICK g : IsSum(g, S, f)
  BY SumExists
<1>2. g = body(g)
  BY <1>1 DEF IsSum
<1>3. it = body(it)
  BY <1>2
<1>4. SumFunction(f) = it[S]
  BY DEF SumFunction, SumFunctionOnSet, FoldFunctionOnSet, MapThenFoldSet
<1> HIDE DEF it
<1> DEFINE F == {s \in SUBSET S : it[s] = g[s]}
<1>5. {} \in F
  BY <1>2, <1>3
<1>6. ASSUME NEW s \in SUBSET S, s # {}, \A x \in s : s \ {x} \in F
      PROVE  s \in F
  <2> DEFINE c == CHOOSE x \in s : TRUE
  <2>1. c \in s /\ s \ {c} \in SUBSET S
    BY <1>6
  <2>2. it[s \ {c}] = g[s \ {c}]
    BY <1>6, <2>1
  <2>3. it[s] = f[c] + it[s \ {c}] /\ g[s] = f[c] + g[s \ {c}]
    BY <1>2, <1>3, <1>6, Zenon
  <2> QED
    BY <1>6, <2>2, <2>3
<1>7. S \in F
  <2> HIDE DEF F
  <2> QED
    BY <1>5, <1>6, FiniteInduction
<1> QED
  BY <1>1, <1>4, <1>7

\* A sum is zero if and only if everything it adds up is.
LEMMA SumIsZero ==
    ASSUME NEW S, IsFiniteSet(S), NEW w \in [S -> Nat], NEW g, IsSum(g, S, w)
    PROVE  g[S] = 0 <=> \A x \in S : w[x] = 0
<1> DEFINE F == {s \in SUBSET S : g[s] = 0 <=> \A x \in s : w[x] = 0}
<1>1. {} \in F
  BY DEF IsSum
<1>2. ASSUME NEW s \in SUBSET S, s # {}, \A x \in s : s \ {x} \in F
      PROVE  s \in F
  <2> DEFINE c == CHOOSE x \in s : TRUE
             r == s \ {c}
  <2>1. c \in s /\ c \in S /\ r \in SUBSET S
    BY <1>2
  <2>2. g[s] = w[c] + g[r]
    BY <1>2 DEF IsSum
  <2>3. g[r] = 0 <=> \A x \in r : w[x] = 0
    BY <1>2, <2>1
  <2>4. w[c] \in Nat /\ g[r] \in Nat
    BY <2>1 DEF IsSum
  <2>5. (\A x \in s : w[x] = 0) <=> w[c] = 0 /\ \A x \in r : w[x] = 0
    BY <2>1
  <2> HIDE DEF c, r
  <2>6. g[s] = 0 <=> w[c] = 0 /\ g[r] = 0
    BY <2>2, <2>4
  <2> QED
    BY <2>3, <2>5, <2>6
<1>3. S \in F
  <2> HIDE DEF F
  <2> QED
    BY <1>1, <1>2, FiniteInduction
<1> QED
  BY <1>3

-----------------------------------------------------------------------------
(* Recursion over a range of numbers *)

\* f runs from base through the steps 1 to n.
IsIteration(f, n, base, step) ==
    \A i \in 0 .. n : f[i] = IF i = 0 THEN base ELSE step[<<i, f[i - 1]>>]

\* Every such run exists.
LEMMA IterationExists ==
    ASSUME NEW n \in Nat, NEW R, NEW base \in R, NEW step \in [(1 .. n) \X R -> R]
    PROVE  \E f \in [0 .. n -> R] : IsIteration(f, n, base, step)
<1> DEFINE T == {k \in Nat : k <= n => \E f \in [0 .. k -> R] : IsIteration(f, k, base, step)}
<1>1. 0 \in T
  <2> DEFINE f == [i \in 0 .. 0 |-> base]
  <2>1. f \in [0 .. 0 -> R] /\ IsIteration(f, 0, base, step)
    BY DEF IsIteration
  <2> QED
    BY <2>1
<1>2. ASSUME NEW k \in Nat, k \in T PROVE k + 1 \in T
  <2> SUFFICES ASSUME k + 1 <= n
               PROVE  \E g \in [0 .. k + 1 -> R] : IsIteration(g, k + 1, base, step)
    OBVIOUS
  <2>1. PICK f \in [0 .. k -> R] : IsIteration(f, k, base, step)
    BY <1>2
  <2> DEFINE g == [i \in 0 .. k + 1 |-> IF i = k + 1 THEN step[<<i, f[k]>>] ELSE f[i]]
  <2>2. step[<<k + 1, f[k]>>] \in R
    <3>1. f[k] \in R /\ k + 1 \in 1 .. n
      OBVIOUS
    <3> QED
      BY <3>1
  <2>3. g \in [0 .. k + 1 -> R]
    BY <2>2
  <2>4. ASSUME NEW i \in 0 .. k + 1
        PROVE  g[i] = IF i = 0 THEN base ELSE step[<<i, g[i - 1]>>]
    <3>1. CASE i = k + 1
      <4>1. i # 0 /\ i - 1 = k /\ k \in 0 .. k + 1 /\ k # k + 1
        BY <3>1
      <4>2. g[i] = step[<<i, f[k]>>] /\ g[k] = f[k]
        BY <3>1, <4>1
      <4> QED
        BY <4>1, <4>2
    <3>2. CASE i # k + 1
      <4>1. i \in 0 .. k /\ g[i] = f[i]
        BY <3>2
      <4>2. i # 0 => i - 1 \in 0 .. k + 1 /\ i - 1 # k + 1 /\ g[i - 1] = f[i - 1]
        BY <4>1
      <4> QED
        BY <2>1, <4>1, <4>2 DEF IsIteration
    <3> QED
      BY <3>1, <3>2
  <2> HIDE DEF g
  <2>5. IsIteration(g, k + 1, base, step)
    BY <2>4 DEF IsIteration
  <2> QED
    BY <2>3, <2>5
<1>3. Nat \subseteq T
  <2> HIDE DEF T
  <2> QED
    BY <1>1, <1>2, NatSetInduction
<1>4. n \in T
  BY <1>3
<1> QED
  BY <1>4

-----------------------------------------------------------------------------
(* Folds over a sequence, from the left *)

\* A set of numbers up to n has a greatest one.
LEMMA GreatestNat ==
    ASSUME NEW n \in Nat, NEW T, T \subseteq 0 .. n, T # {}
    PROVE  \E x \in T : \A y \in T : x >= y
<1> DEFINE U == {n - x : x \in T}
<1>1. U \subseteq Nat /\ U # {}
  <2>1. \A x \in T : n - x \in Nat
    OBVIOUS
  <2> QED
    BY <2>1
<1>2. PICK u \in U : \A v \in U : u <= v
  BY <1>1, LeastNat
<1>3. PICK x \in T : u = n - x
  OBVIOUS
<1>4. ASSUME NEW y \in T PROVE x >= y
  <2>1. n - x <= n - y
    BY <1>2, <1>3
  <2>2. x \in 0 .. n /\ y \in 0 .. n
    OBVIOUS
  <2> QED
    BY <2>1, <2>2
<1> QED
  BY <1>4

\* g folds the indices of a sequence like FoldLeft: the greatest comes first.
IsMaxFold(g, n, base, step) ==
    /\ g[{}] = base
    /\ \A s \in SUBSET (1 .. n) :
          s # {} => Max(s) \in s /\ g[s] = step[<<Max(s), g[s \ {Max(s)}]>>]

\* There is such a fold.
LEMMA MaxFold ==
    ASSUME NEW n \in Nat, NEW R, NEW base \in R, NEW step \in [(1 .. n) \X R -> R]
    PROVE  \E g \in [SUBSET (1 .. n) -> R] : IsMaxFold(g, n, base, step)
<1> DEFINE pick == [s \in SUBSET (1 .. n) |-> Max(s)]
<1>1. \A s \in SUBSET (1 .. n) : s # {} => Max(s) \in s
  <2> SUFFICES ASSUME NEW s \in SUBSET (1 .. n), s # {} PROVE Max(s) \in s
    OBVIOUS
  <2>1. s \subseteq 0 .. n
    OBVIOUS
  <2>2. \E x \in s : \A y \in s : x >= y
    BY <2>1, GreatestNat
  <2> QED
    BY <2>2 DEF Max
<1>2. IsFiniteSet(1 .. n)
  BY FS_Interval
<1>3. \A s \in SUBSET (1 .. n) : pick[s] = Max(s)
  OBVIOUS
<1> HIDE DEF pick
<1>4. PICK g \in [SUBSET (1 .. n) -> R] : IsFold(g, 1 .. n, base, step, pick)
  <2>1. \A s \in SUBSET (1 .. n) : s # {} => pick[s] \in s
    BY <1>1, <1>3
  <2> QED
    BY <1>2, <2>1, FiniteRecursion
<1>5. g[{}] = base
  BY <1>4 DEF IsFold
<1>6. \A s \in SUBSET (1 .. n) : s # {} => g[s] = step[<<Max(s), g[s \ {Max(s)}]>>]
  BY <1>3, <1>4 DEF IsFold
<1> QED
  BY <1>1, <1>4, <1>5, <1>6 DEF IsMaxFold

\* The greatest of the first indices is the last.
LEMMA MaxOfRange ==
    ASSUME NEW n \in Nat, NEW k \in 1 .. n
    PROVE  /\ 1 .. k \in SUBSET (1 .. n) /\ 1 .. k # {}
           /\ Max(1 .. k) = k
           /\ (1 .. k) \ {k} = 1 .. k - 1
<1>1. k \in 1 .. k /\ \A y \in 1 .. k : k >= y
  OBVIOUS
<1>2. \A x \in 1 .. k : (\A y \in 1 .. k : x >= y) => x = k
  OBVIOUS
<1>3. Max(1 .. k) = k
  BY <1>1, <1>2 DEF Max
<1> QED
  BY <1>1, <1>3

-----------------------------------------------------------------------------
(* parse_stream_info *)

-----------------------------------------------------------------------------
(* A log kept in two parts, what was taken from a queue and what waits in  *)
(* it: the inbox of a port, the pipe of a tool.                            *)

\* What is appended to the rear is appended to the whole.
LEMMA ConcatAppend ==
    ASSUME NEW S, NEW s \in Seq(S), NEW t \in Seq(S), NEW e \in S
    PROVE  s \o Append(t, e) = Append(s \o t, e)
<1>1. <<e>> \in Seq(S)
  OBVIOUS
<1>2. s \o t \in Seq(S)
  BY ConcatProperties
<1>3. (s \o t) \o <<e>> = s \o (t \o <<e>>)
  BY <1>1, ConcatAssociative
<1> QED
  BY <1>2, <1>3, AppendIsConcat

\* Handing the first of a queue on leaves the whole as it was.
LEMMA HandOn ==
    ASSUME NEW S, NEW s \in Seq(S), NEW q \in Seq(S), q # <<>>
    PROVE  /\ Append(s, Head(q)) \in Seq(S) /\ Tail(q) \in Seq(S)
           /\ Append(s, Head(q)) \o Tail(q) = s \o q
<1>1. Head(q) \in S /\ Tail(q) \in Seq(S)
  BY HeadTailProperties
<1>2. <<Head(q)>> \in Seq(S)
  BY <1>1
<1>3. Append(s, Head(q)) = s \o <<Head(q)>>
  BY <1>1, AppendIsConcat
<1>4. q = <<Head(q)>> \o Tail(q)
  <2>1. SubSeq(q, 1, Len(q)) = <<q[1]>> \o SubSeq(q, 2, Len(q))
    BY SubSeqRecursiveFirst, EmptySeq
  <2> QED
    BY <2>1, SubSeqFull, TailIsSubSeq
<1>5. (s \o <<Head(q)>>) \o Tail(q) = s \o (<<Head(q)>> \o Tail(q))
  BY <1>1, <1>2, ConcatAssociative
<1> QED
  BY <1>1, <1>3, <1>4, <1>5, AppendProperties

-----------------------------------------------------------------------------
(* Sums and extremes *)

\* Sums of the same weights are the same.
LEMMA SumAgrees ==
    ASSUME NEW S, IsFiniteSet(S), NEW T \in SUBSET S, NEW v, NEW w,
           \A x \in T : v[x] = w[x],
           NEW g, IsSum(g, S, v), NEW h, IsSum(h, T, w)
    PROVE  h[T] = g[T]
<1> DEFINE F == {s \in SUBSET T : h[s] = g[s]}
<1>1. {} \in F
  BY DEF IsSum
<1>2. ASSUME NEW s \in SUBSET T, s # {}, \A x \in s : s \ {x} \in F
      PROVE  s \in F
  <2> DEFINE c == CHOOSE x \in s : TRUE
  <2>1. c \in s /\ c \in T /\ s \in SUBSET S
    BY <1>2
  <2>2. h[s \ {c}] = g[s \ {c}]
    BY <1>2, <2>1
  <2>3. g[s] = v[c] + g[s \ {c}]
    BY <1>2, <2>1, Zenon DEF IsSum
  <2>4. h[s] = w[c] + h[s \ {c}]
    BY <1>2, Zenon DEF IsSum
  <2> HIDE DEF c
  <2> QED
    BY <2>1, <2>2, <2>3, <2>4
<1>3. T \in F
  <2>1. IsFiniteSet(T)
    BY FS_Subset
  <2> HIDE DEF F
  <2> QED
    BY <1>1, <1>2, <2>1, FiniteInduction
<1> QED
  BY <1>3

\* Any element of a set may be added last.
LEMMA SumOrder ==
    ASSUME NEW S, IsFiniteSet(S), NEW w \in [S -> Nat], NEW g, IsSum(g, S, w),
           NEW s0 \in SUBSET S
    PROVE  \A x \in s0 : g[s0] = w[x] + g[s0 \ {x}]
<1> DEFINE F == {s \in SUBSET S : \A x \in s : g[s] = w[x] + g[s \ {x}]}
<1>0. g \in [SUBSET S -> Nat]
  BY DEF IsSum
<1>1. {} \in F
  OBVIOUS
<1>2. ASSUME NEW s \in SUBSET s0, s # {}, \A x \in s : s \ {x} \in F
      PROVE  s \in F
  <2> SUFFICES ASSUME NEW x \in s PROVE g[s] = w[x] + g[s \ {x}]
    OBVIOUS
  <2> DEFINE c == CHOOSE y \in s : TRUE
  <2>1. c \in s /\ c \in S /\ x \in S
    OBVIOUS
  <2>2. g[s] = w[c] + g[s \ {c}]
    <3>1. s \in SUBSET S /\ s # {}
      OBVIOUS
    <3> QED
      BY <3>1, Zenon DEF IsSum
  <2> HIDE DEF c
  <2>3. CASE c = x
    BY <2>2, <2>3
  <2>4. CASE c # x
    <3>1. g[s \ {c}] = w[x] + g[(s \ {c}) \ {x}]
      BY <1>2, <2>1, <2>4
    <3>2. g[s \ {x}] = w[c] + g[(s \ {x}) \ {c}]
      BY <1>2, <2>1, <2>4
    <3>3. (s \ {c}) \ {x} = (s \ {x}) \ {c}
      OBVIOUS
    <3>4. w[c] \in Nat /\ w[x] \in Nat /\ g[(s \ {x}) \ {c}] \in Nat
      <4>1. (s \ {x}) \ {c} \in SUBSET S
        OBVIOUS
      <4> QED
        BY <1>0, <2>1, <4>1
    <3> QED
      BY <2>2, <3>1, <3>2, <3>3, <3>4
  <2> QED
    BY <2>3, <2>4
<1>3. s0 \in F
  <2>1. IsFiniteSet(s0)
    BY FS_Subset
  <2> HIDE DEF F
  <2> QED
    BY <1>1, <1>2, <2>1, FiniteInduction
<1> QED
  BY <1>3

\* A sum, and the sum without one of the elements.
LEMMA SumWithout ==
    ASSUME NEW S, IsFiniteSet(S), NEW f \in [S -> Nat], NEW x \in S
    PROVE  /\ SumFunction([y \in S \ {x} |-> f[y]]) \in Nat
           /\ SumFunction(f) = f[x] + SumFunction([y \in S \ {x} |-> f[y]])
<1> DEFINE T == S \ {x}
           e == [y \in T |-> f[y]]
<1>1. T \in SUBSET S /\ IsFiniteSet(T)
  BY FS_Subset
<1>2. e \in [T -> Nat] /\ \A y \in T : f[y] = e[y]
  OBVIOUS
<1> HIDE DEF e, T
<1>3. PICK g : IsSum(g, S, f) /\ SumFunction(f) = g[S]
  BY SumOf
<1>4. PICK h : IsSum(h, T, e) /\ SumFunction(e) = h[T]
  BY <1>1, <1>2, SumOf
<1>5. h[T] = g[T]
  BY <1>1, <1>2, <1>3, <1>4, SumAgrees
<1>6. S \in SUBSET S
  OBVIOUS
<1>7. \A y \in S : g[S] = f[y] + g[S \ {y}]
  BY <1>3, <1>6, SumOrder
<1>8. h[T] \in Nat
  BY <1>4 DEF IsSum
<1> QED
  BY <1>4, <1>3, <1>5, <1>7, <1>8 DEF e, T

\* The sum over a sequence, and over the sequence without its last.
LEMMA SumAppend ==
    ASSUME NEW n \in Nat, NEW f \in [1 .. n + 1 -> Nat]
    PROVE  /\ SumFunction([i \in 1 .. n |-> f[i]]) \in Nat
           /\ SumFunction(f) = f[n + 1] + SumFunction([i \in 1 .. n |-> f[i]])
<1>1. IsFiniteSet(1 .. n + 1)
  BY FS_Interval
<1>2. (1 .. n + 1) \ {n + 1} = 1 .. n /\ n + 1 \in 1 .. n + 1
  OBVIOUS
<1>3. ASSUME NEW S, S = 1 .. n + 1
      PROVE  /\ SumFunction([y \in S \ {n + 1} |-> f[y]]) \in Nat
             /\ SumFunction(f) = f[n + 1] + SumFunction([y \in S \ {n + 1} |-> f[y]])
  <2>1. IsFiniteSet(S) /\ f \in [S -> Nat] /\ n + 1 \in S
    BY <1>1, <1>2, <1>3
  <2>2. \A x \in S : /\ SumFunction([y \in S \ {x} |-> f[y]]) \in Nat
                    /\ SumFunction(f) = f[x] + SumFunction([y \in S \ {x} |-> f[y]])
    BY <2>1, SumWithout, Zenon
  <2> QED
    BY <2>1, <2>2
<1> QED
  BY <1>2, <1>3

\* A sum lies between as many times the least weight and the greatest.
LEMMA SumBounds ==
    ASSUME NEW S, IsFiniteSet(S), NEW w \in [S -> Nat], NEW g, IsSum(g, S, w),
           NEW lo \in Nat, NEW hi \in Nat, \A x \in S : lo <= w[x] /\ w[x] <= hi
    PROVE  Cardinality(S) * lo <= g[S] /\ g[S] <= Cardinality(S) * hi
<1> DEFINE F == {s \in SUBSET S :
                    Cardinality(s) * lo <= g[s] /\ g[s] <= Cardinality(s) * hi}
<1>0. \A s \in SUBSET S : IsFiniteSet(s) /\ Cardinality(s) \in Nat /\ g[s] \in Nat
  BY FS_Subset, FS_CardinalityType DEF IsSum
<1>1. {} \in F
  <2>1. g[{}] = 0 /\ Cardinality({}) = 0
    BY FS_EmptySet DEF IsSum
  <2> QED
    BY <2>1
<1>2. ASSUME NEW s \in SUBSET S, s # {}, \A x \in s : s \ {x} \in F
      PROVE  s \in F
  <2> DEFINE c == CHOOSE x \in s : TRUE
             k == Cardinality(s \ {c})
             r == g[s \ {c}]
  <2>1. c \in s /\ c \in S
    BY <1>2
  <2>2. g[s] = w[c] + r
    BY <1>2, Zenon DEF IsSum
  <2>3. k * lo <= r /\ r <= k * hi
    BY <1>2, <2>1
  <2>4. Cardinality(s) = k + 1
    <3>1. Cardinality(s \ {c}) = Cardinality(s) - 1
      BY <1>0, <2>1, FS_RemoveElement
    <3> QED
      BY <1>0, <3>1
  <2>5. k \in Nat /\ r \in Nat /\ w[c] \in Nat /\ lo <= w[c] /\ w[c] <= hi
    BY <1>0, <2>1
  <2> HIDE DEF c, k, r
  <2>6. (k + 1) * lo = k * lo + lo /\ (k + 1) * hi = k * hi + hi
    BY <2>5
  <2>7. k * lo \in Nat /\ k * hi \in Nat
    BY <2>5
  <2>8. (k + 1) * lo <= g[s] /\ g[s] <= (k + 1) * hi
    BY <2>2, <2>3, <2>5, <2>6, <2>7
  <2> QED
    BY <2>4, <2>8
<1>3. S \in F
  <2> HIDE DEF F
  <2> QED
    BY <1>1, <1>2, FiniteInduction
<1> QED
  BY <1>3

-----------------------------------------------------------------------------
(* Extremes *)

\* A finite set of numbers has a greatest and a least one.
LEMMA ExtremesExist ==
    ASSUME NEW S, IsFiniteSet(S), S \subseteq Int, S # {}
    PROVE  /\ Max(S) \in S /\ \A x \in S : x <= Max(S)
           /\ Min(S) \in S /\ \A x \in S : Min(S) <= x
<1> DEFINE F == {s \in SUBSET S : s # {} => /\ \E x \in s : \A y \in s : x >= y
                                            /\ \E x \in s : \A y \in s : x <= y}
<1>1. {} \in F
  OBVIOUS
<1>2. ASSUME NEW s \in SUBSET S, s # {}, \A x \in s : s \ {x} \in F
      PROVE  s \in F
  <2>1. PICK c : c \in s
    BY <1>2
  <2>2. CASE s = {c}
    BY <2>1, <2>2
  <2>3. CASE s # {c}
    <3>1. s \ {c} # {}
      BY <2>1, <2>3
    <3>2. PICK a \in s \ {c} : \A y \in s \ {c} : a >= y
      BY <1>2, <2>1, <3>1
    <3>3. PICK b \in s \ {c} : \A y \in s \ {c} : b <= y
      BY <1>2, <2>1, <3>1
    <3>4. a \in Int /\ b \in Int /\ c \in Int /\ \A y \in s : y \in Int
      BY <2>1
    <3>5. \E x \in s : \A y \in s : x >= y
      <4>1. CASE a >= c
        BY <3>2, <4>1
      <4>2. CASE ~(a >= c)
        BY <2>1, <3>2, <3>4, <4>2
      <4> QED
        BY <4>1, <4>2
    <3>6. \E x \in s : \A y \in s : x <= y
      <4>1. CASE b <= c
        BY <3>3, <4>1
      <4>2. CASE ~(b <= c)
        BY <2>1, <3>3, <3>4, <4>2
      <4> QED
        BY <4>1, <4>2
    <3> QED
      BY <3>5, <3>6
  <2> QED
    BY <2>2, <2>3
<1>3. S \in F
  <2> HIDE DEF F
  <2> QED
    BY <1>1, <1>2, FiniteInduction
<1>4. PICK a \in S : \A y \in S : a >= y
  BY <1>3
<1>5. PICK b \in S : \A y \in S : b <= y
  BY <1>3
<1>6. Max(S) \in S /\ \A y \in S : Max(S) >= y
  BY <1>4, Zenon DEF Max
<1>7. Min(S) \in S /\ \A y \in S : Min(S) <= y
  BY <1>5, Zenon DEF Min
<1> QED
  BY <1>6, <1>7

\* The one element of a set that no other exceeds.
LEMMA MaxIs ==
    ASSUME NEW S, S \subseteq Int, NEW x \in S, \A y \in S : x >= y
    PROVE  Max(S) = x
<1>1. Max(S) \in S /\ \A y \in S : Max(S) >= y
  BY Zenon DEF Max
<1>2. Max(S) \in Int /\ x \in Int /\ Max(S) >= x /\ x >= Max(S)
  BY <1>1
<1> QED
  BY <1>2

\* What is at most everything in a set is its minimum.
LEMMA MinIs ==
    ASSUME NEW S, S \subseteq Int, NEW x \in S, \A y \in S : x <= y
    PROVE  Min(S) = x
<1>1. Min(S) \in S /\ \A y \in S : Min(S) <= y
  BY Zenon DEF Min
<1>2. Min(S) \in Int /\ x \in Int /\ Min(S) <= x /\ x <= Min(S)
  BY <1>1
<1> QED
  BY <1>2

=============================================================================
