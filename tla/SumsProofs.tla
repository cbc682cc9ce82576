----------------------------- MODULE SumsProofs -----------------------------
(* What is true of sums, whatever is added up. *)
EXTENDS Sums, Functions, FiniteSetTheorems, TLAPS

\* A set of numbers that holds 0 and the successor of each of its members up
\* to n holds them all: the induction the lemmas on sums rest on.
LEMMA Upwards ==
    ASSUME NEW n \in Nat, NEW S, 0 \in S,
           \A i \in 0 .. n - 1 : i \in S => i + 1 \in S
    PROVE  0 .. n \subseteq S
<1> DEFINE I == 0 .. n
           R == StrictSubsetOrdering(I)
           T == {0 .. i : i \in I \ S}
<1>1. SUFFICES ASSUME NEW m \in I \ S PROVE FALSE
  OBVIOUS
<1>2. T \subseteq FiniteSubsetsOf(I)
  <2>1. SUFFICES ASSUME NEW i \in I PROVE IsFiniteSet(0 .. i) /\ 0 .. i \subseteq I
    BY DEF FiniteSubsetsOf
  <2>2. i \in Int OBVIOUS
  <2> QED BY <2>2, FS_Interval
<1>3. PICK x \in T : \A y \in T : ~ (<<y, x>> \in R)
  <2>1. IsWellFoundedOn(R, FiniteSubsetsOf(I)) BY FS_StrictSubsetOrderingWellFounded
  <2>2. T # {} BY <1>1
  <2> HIDE DEF R, T, I
  <2> QED BY <1>2, <2>1, <2>2, WFMin
<1>4. PICK i \in I \ S : x = 0 .. i OBVIOUS
<1>5. i - 1 \in I \ S OBVIOUS
<1>6. <<0 .. i - 1, 0 .. i>> \in R
  <2>1. i \in 0 .. i /\ i \notin 0 .. i - 1 OBVIOUS
  <2>2. 0 .. i \subseteq I /\ 0 .. i - 1 \subseteq 0 .. i OBVIOUS
  <2> QED BY <2>1, <2>2 DEF StrictSubsetOrdering
<1> QED BY <1>3, <1>4, <1>5, <1>6

\* s is the running total of f.
Totals(s, f, n) ==
    /\ s \in [0 .. n -> Int]
    /\ s[0] = 0
    /\ \A i \in 1 .. n : s[i] = s[i - 1] + f[i]

\* There is a running total, and the sum is where it ends.
LEMMA SumTotals ==
    ASSUME NEW N \in Nat, NEW f \in [1 .. N -> Int]
    PROVE  \E s : Totals(s, f, N) /\ Sum(f, N) = s[N]
<1> DEFINE S == {n \in 0 .. N : \E s : Totals(s, f, n)}
           E(s) == s = [i \in 0 .. N |-> IF i = 0 THEN 0 ELSE s[i - 1] + f[i]]
<1>1. N \in Nat OBVIOUS
<1>2. 0 \in S
  <2>1. Totals([i \in 0 .. 0 |-> 0], f, 0) BY DEF Totals
  <2> QED BY <1>1, <2>1
<1>3. ASSUME NEW n \in 0 .. N - 1, n \in S PROVE n + 1 \in S
  <2>1. PICK s : Totals(s, f, n) BY <1>3
  <2> DEFINE t == [i \in 0 .. n + 1 |-> IF i = n + 1 THEN s[n] + f[n + 1] ELSE s[i]]
  <2>2. f[n + 1] \in Int /\ s[n] \in Int BY <1>1, <2>1 DEF Totals
  <2>3. t \in [0 .. n + 1 -> Int] BY <1>1, <2>1, <2>2 DEF Totals
  <2>4. Totals(t, f, n + 1) BY <1>1, <2>1, <2>3 DEF Totals
  <2> QED BY <1>1, <2>4
<1>4. N \in S
  <2>1. 0 .. N \subseteq S
    <3> HIDE DEF S
    <3> QED BY <1>1, <1>2, <1>3, Upwards
  <2> QED BY <1>1, <2>1
<1>5. PICK s : Totals(s, f, N) BY <1>4
<1>6. E(s) BY <1>1, <1>5 DEF Totals
<1> DEFINE c == CHOOSE sum : E(sum)
<1>7. E(c)
  <2> HIDE DEF E
  <2> QED BY <1>6
<1>8. Sum(f, N) = c[N] BY DEF Sum
<1> HIDE DEF c
<1>9. c[0] = 0 /\ \A i \in 1 .. N : c[i] = c[i - 1] + f[i] BY <1>1, <1>7
<1>10. 0 .. N \subseteq {i \in 0 .. N : c[i] = s[i]}
  <2> DEFINE W == {i \in 0 .. N : c[i] = s[i]}
  <2>1. 0 \in W BY <1>1, <1>5, <1>9 DEF Totals
  <2>2. ASSUME NEW i \in 0 .. N - 1, i \in W PROVE i + 1 \in W
    <3>1. i + 1 \in 1 .. N /\ (i + 1) - 1 = i BY <1>1
    <3> QED BY <1>1, <1>5, <1>9, <2>2, <3>1 DEF Totals
  <2> HIDE DEF W
  <2>3. 0 .. N \subseteq W BY <1>1, <2>1, <2>2, Upwards
  <2> QED BY <2>3 DEF W
<1>11. c[N] = s[N] BY <1>1, <1>10
<1> QED BY <1>5, <1>8, <1>11

\* Sums add up point by point.
LEMMA SumAdds ==
    ASSUME NEW N \in Nat, NEW f \in [1 .. N -> Int], NEW g \in [1 .. N -> Int],
           NEW d \in [1 .. N -> Int], \A h \in 1 .. N : g[h] = f[h] + d[h]
    PROVE  Sum(g, N) = Sum(f, N) + Sum(d, N)
<1>1. N \in Nat OBVIOUS
<1>2. PICK s : Totals(s, f, N) /\ Sum(f, N) = s[N] BY SumTotals
<1>3. PICK t : Totals(t, g, N) /\ Sum(g, N) = t[N] BY SumTotals
<1>4. PICK u : Totals(u, d, N) /\ Sum(d, N) = u[N] BY SumTotals
<1> DEFINE W == {i \in 0 .. N : t[i] = s[i] + u[i]}
<1>5. 0 \in W BY <1>1, <1>2, <1>3, <1>4 DEF Totals
<1>6. ASSUME NEW i \in 0 .. N - 1, i \in W PROVE i + 1 \in W
  <2>1. i + 1 \in 1 .. N /\ (i + 1) - 1 = i BY <1>1
  <2>2. t[i + 1] = t[i] + g[i + 1] /\ s[i + 1] = s[i] + f[i + 1]
        /\ u[i + 1] = u[i] + d[i + 1]
    BY <1>2, <1>3, <1>4, <2>1 DEF Totals
  <2>3. g[i + 1] = f[i + 1] + d[i + 1] /\ f[i + 1] \in Int /\ d[i + 1] \in Int
    BY <1>1, <2>1
  <2>4. s[i] \in Int /\ u[i] \in Int BY <1>1, <1>2, <1>4 DEF Totals
  <2>5. i + 1 \in 0 .. N BY <2>1
  <2> QED BY <1>6, <2>2, <2>3, <2>4, <2>5
<1>7. 0 .. N \subseteq W
  <2> HIDE DEF W
  <2> QED BY <1>1, <1>5, <1>6, Upwards
<1>8. N \in W BY <1>1, <1>7
<1> QED BY <1>2, <1>3, <1>4, <1>8

\* The sum of a function that is nothing but at one place is what it is there.
LEMMA SumOne ==
    ASSUME NEW N \in Nat, NEW f \in [1 .. N -> Int], NEW k \in 1 .. N,
           \A h \in 1 .. N \ {k} : f[h] = 0
    PROVE  Sum(f, N) = f[k]
<1>1. N \in Nat OBVIOUS
<1>2. PICK s : Totals(s, f, N) /\ Sum(f, N) = s[N] BY SumTotals
<1> DEFINE W == {i \in 0 .. N : s[i] = IF i < k THEN 0 ELSE f[k]}
<1>3. 0 \in W BY <1>1, <1>2 DEF Totals
<1>4. ASSUME NEW i \in 0 .. N - 1, i \in W PROVE i + 1 \in W
  <2>1. i + 1 \in 1 .. N /\ (i + 1) - 1 = i BY <1>1
  <2>2. s[i + 1] = s[i] + f[i + 1] BY <1>2, <2>1 DEF Totals
  <2>3. f[k] \in Int /\ f[i + 1] \in Int /\ k \in Int BY <1>1, <2>1
  <2>4. CASE i + 1 = k BY <1>1, <1>4, <2>1, <2>2, <2>3, <2>4
  <2>5. CASE i + 1 # k
    <3>1. f[i + 1] = 0 BY <1>1, <2>1, <2>5
    <3> QED BY <1>1, <1>4, <2>1, <2>2, <2>3, <2>5, <3>1
  <2> QED BY <2>4, <2>5
<1>5. 0 .. N \subseteq W
  <2> HIDE DEF W
  <2> QED BY <1>1, <1>3, <1>4, Upwards
<1>6. N \in W /\ ~(N < k) BY <1>1, <1>5
<1> QED BY <1>2, <1>6

\* What happens to one of them happens to the sum.
LEMMA SumMoves ==
    ASSUME NEW N \in Nat, NEW f \in [1 .. N -> Int], NEW g \in [1 .. N -> Int], NEW k \in 1 .. N,
           \A h \in 1 .. N \ {k} : g[h] = f[h]
    PROVE  Sum(g, N) = Sum(f, N) + g[k] - f[k]
<1> DEFINE d == [h \in 1 .. N |-> g[h] - f[h]]
<1>1. d \in [1 .. N -> Int] /\ \A h \in 1 .. N : g[h] = f[h] + d[h] OBVIOUS
<1>2. \A h \in 1 .. N \ {k} : d[h] = 0 OBVIOUS
<1>3. d[k] = g[k] - f[k] OBVIOUS
<1>4. Sum(d, N) = d[k]
  <2> HIDE DEF d
  <2> QED BY <1>1, <1>2, SumOne
<1>5. Sum(g, N) = Sum(f, N) + Sum(d, N)
  <2> HIDE DEF d
  <2> QED BY <1>1, SumAdds
<1>6. Sum(f, N) \in Int
  <2>1. N \in 0 .. N OBVIOUS
  <2> QED BY SumTotals, <2>1 DEF Totals
<1> QED BY <1>3, <1>4, <1>5, <1>6

\* A sum is a whole number, and no less than nothing if nothing in it is.
LEMMA SumType ==
    ASSUME NEW N \in Nat, NEW f \in [1 .. N -> Int]
    PROVE  /\ Sum(f, N) \in Int
           /\ (\A h \in 1 .. N : f[h] >= 0) => Sum(f, N) >= 0
<1>1. N \in Nat OBVIOUS
<1>2. PICK s : Totals(s, f, N) /\ Sum(f, N) = s[N] BY SumTotals
<1>3. Sum(f, N) \in Int BY <1>1, <1>2 DEF Totals
<1>4. ASSUME \A h \in 1 .. N : f[h] >= 0 PROVE Sum(f, N) >= 0
  <2> DEFINE W == {i \in 0 .. N : s[i] >= 0}
  <2>1. 0 \in W BY <1>1, <1>2 DEF Totals
  <2>2. ASSUME NEW i \in 0 .. N - 1, i \in W PROVE i + 1 \in W
    <3>1. i + 1 \in 1 .. N /\ (i + 1) - 1 = i BY <1>1
    <3>2. s[i + 1] = s[i] + f[i + 1] /\ s[i] \in Int BY <1>1, <1>2, <3>1 DEF Totals
    <3>3. f[i + 1] \in Int /\ f[i + 1] >= 0 BY <1>1, <1>4, <3>1
    <3> QED BY <1>1, <2>2, <3>1, <3>2, <3>3
  <2>3. 0 .. N \subseteq W
    <3> HIDE DEF W
    <3> QED BY <1>1, <2>1, <2>2, Upwards
  <2> QED BY <1>1, <1>2, <2>3
<1> QED BY <1>3, <1>4

\* A sum of nothings is nothing.
LEMMA SumZero ==
    ASSUME NEW N \in Nat, NEW f \in [1 .. N -> Int], \A h \in 1 .. N : f[h] = 0
    PROVE  Sum(f, N) = 0
<1>1. \A h \in 1 .. N : f[h] = f[h] + f[h] OBVIOUS
<1>2. Sum(f, N) = Sum(f, N) + Sum(f, N) BY <1>1, SumAdds
<1>3. Sum(f, N) \in Int BY SumType
<1> QED BY <1>2, <1>3

\* What is no more anywhere is no more in all.
LEMMA SumLeq ==
    ASSUME NEW N \in Nat, NEW f \in [1 .. N -> Int], NEW g \in [1 .. N -> Int],
           \A h \in 1 .. N : f[h] <= g[h]
    PROVE  Sum(f, N) <= Sum(g, N)
<1> DEFINE d == [h \in 1 .. N |-> g[h] - f[h]]
<1>1. /\ d \in [1 .. N -> Int]
      /\ \A h \in 1 .. N : d[h] >= 0 /\ g[h] = f[h] + d[h]
  OBVIOUS
<1> HIDE DEF d
<1>2. Sum(g, N) = Sum(f, N) + Sum(d, N) BY <1>1, SumAdds
<1>3. Sum(d, N) \in Int /\ Sum(d, N) >= 0 BY <1>1, SumType
<1>4. Sum(f, N) \in Int BY SumType
<1> QED BY <1>2, <1>3, <1>4

\* What one has more than is counted elsewhere, all have together.
LEMMA SumGap ==
    ASSUME NEW N \in Nat, NEW f \in [1 .. N -> Int], NEW g \in [1 .. N -> Int],
           NEW k \in 1 .. N, \A h \in 1 .. N : f[h] <= g[h]
    PROVE  Sum(f, N) + g[k] - f[k] <= Sum(g, N)
<1> DEFINE d == [f EXCEPT ![k] = g[k]]
<1>1. /\ d \in [1 .. N -> Int] /\ d[k] = g[k]
      /\ \A h \in 1 .. N \ {k} : d[h] = f[h]
      /\ \A h \in 1 .. N : d[h] <= g[h]
  OBVIOUS
<1> HIDE DEF d
<1>2. Sum(d, N) = Sum(f, N) + d[k] - f[k] BY <1>1, SumMoves
<1>3. Sum(d, N) <= Sum(g, N) BY <1>1, SumLeq
<1> QED BY <1>1, <1>2, <1>3
-----------------------------------------------------------------------------
(* Sums over a finite set, in whatever order it is gone through. *)

\* A family of sets that holds the empty one, and each that is one more than
\* others it holds, holds every part of a finite set.
LEMMA Outwards ==
    ASSUME NEW S, IsFiniteSet(S), NEW F, {} \in F,
           \A T \in SUBSET S : T # {} /\ (\A x \in T : T \ {x} \in F) => T \in F
    PROVE  SUBSET S \subseteq F
<1> DEFINE R == StrictSubsetOrdering(S)
           B == (SUBSET S) \ F
<1> SUFFICES ASSUME B # {} PROVE FALSE
  OBVIOUS
<1>1. B \subseteq FiniteSubsetsOf(S) BY FS_Subset DEF FiniteSubsetsOf
<1>2. PICK T \in B : \A U \in B : ~ (<<U, T>> \in R)
  <2>1. IsWellFoundedOn(R, FiniteSubsetsOf(S)) BY FS_StrictSubsetOrderingWellFounded
  <2> HIDE DEF R, B
  <2> QED BY <1>1, <2>1, WFMin
<1>3. T \in SUBSET S /\ T \notin F BY <1>2
<1>4. PICK x \in T : T \ {x} \notin F
  <2>1. T # {} BY <1>3
  <2> QED BY <1>3, <2>1
<1>5. T \ {x} \in B BY <1>3, <1>4
<1>6. <<T \ {x}, T>> \in R BY <1>3, <1>4 DEF StrictSubsetOrdering
<1> QED BY <1>2, <1>5, <1>6

\* What comes of T when s is what comes of its parts.
OneMore(s, f, T) ==
    IF T = {} THEN 0 ELSE f[CHOOSE x \in T : TRUE] + s[T \ {CHOOSE x \in T : TRUE}]

\* s is what f comes to over the parts of S.
Adds(s, f, S) ==
    /\ s \in [SUBSET S -> Int]
    /\ \A T \in SUBSET S : s[T] = OneMore(s, f, T)

\* There is such a function: by the number of members.
LEMMA AddsExists ==
    ASSUME NEW S, IsFiniteSet(S), NEW f, \A x \in S : f[x] \in Int
    PROVE  \E s : Adds(s, f, S)
<1> DEFINE N == Cardinality(S)
           Small(n) == {T \in SUBSET S : Cardinality(T) <= n}
           Good(s, n) == /\ s \in [Small(n) -> Int]
                         /\ \A T \in Small(n) : s[T] = OneMore(s, f, T)
           I == {n \in 0 .. N : \E s : Good(s, n)}
<1>1. N \in Nat BY FS_CardinalityType
<1>2. \A T \in SUBSET S : Cardinality(T) \in Nat /\ Cardinality(T) <= N
  BY FS_CardinalityType, FS_Subset
<1>3. \A T \in SUBSET S : T # {} =>
        LET x == CHOOSE x \in T : TRUE
        IN  x \in T /\ f[x] \in Int /\ T \ {x} \in SUBSET S
            /\ Cardinality(T \ {x}) = Cardinality(T) - 1
  <2> SUFFICES ASSUME NEW T \in SUBSET S, T # {}, NEW x \in T, x = CHOOSE y \in T : TRUE
               PROVE  f[x] \in Int /\ Cardinality(T \ {x}) = Cardinality(T) - 1
    OBVIOUS
  <2> QED BY FS_Subset, FS_RemoveElement
<1>4. 0 \in I
  <2>1. \A T \in Small(0) : T = {}
    BY <1>2, FS_EmptySet, FS_Subset
  <2> DEFINE z == [T \in Small(0) |-> 0]
  <2>2. \A T \in Small(0) : z[T] = OneMore(z, f, T) BY <2>1 DEF OneMore
  <2>3. Good(z, 0) BY <2>2
  <2>4. 0 \in 0 .. N BY <1>1
  <2> HIDE DEF Good, z
  <2> QED BY <2>3, <2>4
<1>5. ASSUME NEW n \in 0 .. N - 1, n \in I PROVE n + 1 \in I
  <2>1. PICK s : Good(s, n) BY <1>5
  <2> DEFINE t == [T \in Small(n + 1) |-> OneMore(s, f, T)]
  <2>2. \A T \in Small(n + 1) : T # {} => T \ {CHOOSE x \in T : TRUE} \in Small(n)
    BY <1>2, <1>3
  <2>3. t \in [Small(n + 1) -> Int]
    <3> SUFFICES ASSUME NEW T \in Small(n + 1) PROVE OneMore(s, f, T) \in Int
      OBVIOUS
    <3>1. CASE T = {} BY <3>1 DEF OneMore
    <3>2. CASE T # {}
      <4>1. s[T \ {CHOOSE x \in T : TRUE}] \in Int BY <2>1, <2>2, <3>2
      <4> QED BY <1>3, <3>2, <4>1 DEF OneMore
    <3> QED BY <3>1, <3>2
  <2>4. \A T \in Small(n) : T \in Small(n + 1) /\ t[T] = s[T]
    <3>1. \A T \in Small(n) : T \in Small(n + 1) BY <1>2
    <3> QED BY <2>1, <3>1
  <2>5. \A T \in Small(n + 1) : t[T] = OneMore(t, f, T)
    <3> SUFFICES ASSUME NEW T \in Small(n + 1) PROVE OneMore(s, f, T) = OneMore(t, f, T)
      OBVIOUS
    <3>1. CASE T = {} BY <3>1 DEF OneMore
    <3>2. CASE T # {}
      <4>1. t[T \ {CHOOSE x \in T : TRUE}] = s[T \ {CHOOSE x \in T : TRUE}]
        BY <2>2, <2>4, <3>2
      <4> HIDE DEF t
      <4> QED BY <3>2, <4>1 DEF OneMore
    <3> QED BY <3>1, <3>2
  <2>6. Good(t, n + 1) BY <2>3, <2>5
  <2>7. n + 1 \in 0 .. N BY <1>1
  <2> HIDE DEF Good
  <2> QED BY <2>6, <2>7
<1>6. N \in I
  <2> HIDE DEF I
  <2>1. 0 .. N \subseteq I BY <1>1, <1>4, <1>5, Upwards
  <2> QED BY <1>1, <2>1
<1>7. PICK s : Good(s, N) BY <1>6
<1>8. Small(N) = SUBSET S BY <1>2
<1>9. Adds(s, f, S) BY <1>7, <1>8 DEF Adds
<1> QED BY <1>9

\* There is but one, and it gives the sums over the parts.
LEMMA AddsSums ==
    ASSUME NEW S, IsFiniteSet(S), NEW f, \A x \in S : f[x] \in Int,
           NEW s, Adds(s, f, S)
    PROVE  SumFunctionOnSet(f, S) = s[S]
<1> DEFINE E(i) == i = [T \in SUBSET S |-> OneMore(i, f, T)]
           c == CHOOSE i : E(i)
<1>1. SumFunctionOnSet(f, S) = c[S]
  BY Zenon DEF SumFunctionOnSet, FoldFunctionOnSet, MapThenFoldSet, OneMore
<1>2. E(s) BY DEF Adds
<1>3. E(c)
  <2> HIDE DEF E
  <2> QED BY <1>2
<1>4. \A T \in SUBSET S : c[T] = OneMore(c, f, T)
  <2> HIDE DEF c
  <2> QED BY <1>3
<1> HIDE DEF c
<1> DEFINE F == {T \in SUBSET S : c[T] = s[T]}
<1>5. {} \in F BY <1>4 DEF Adds, OneMore
<1>6. ASSUME NEW T \in SUBSET S, T # {}, \A x \in T : T \ {x} \in F PROVE T \in F
  BY <1>4, <1>6 DEF Adds, OneMore
<1>7. SUBSET S \subseteq F
  <2> HIDE DEF F
  <2> QED BY <1>5, <1>6, Outwards
<1> QED BY <1>1, <1>7

\* The sum over no set at all.
LEMMA OnSetEmpty == ASSUME NEW f PROVE SumFunctionOnSet(f, {}) = 0
<1>1. PICK s : Adds(s, f, {}) BY AddsExists, FS_EmptySet
<1>2. SumFunctionOnSet(f, {}) = s[{}] BY <1>1, AddsSums, FS_EmptySet
<1> QED BY <1>1, <1>2 DEF Adds, OneMore

\* A sum is a whole number, and any member can be counted on its own.
LEMMA OnSetRemove ==
    ASSUME NEW S, IsFiniteSet(S), NEW f, \A x \in S : f[x] \in Int
    PROVE  /\ SumFunctionOnSet(f, S) \in Int
           /\ \A x \in S : SumFunctionOnSet(f, S) = f[x] + SumFunctionOnSet(f, S \ {x})
<1>1. PICK s : Adds(s, f, S) BY AddsExists
<1>2. SumFunctionOnSet(f, S) = s[S] /\ s[S] \in Int BY <1>1, AddsSums DEF Adds
<1>3. \A x \in S : SumFunctionOnSet(f, S \ {x}) = s[S \ {x}]
  <2> SUFFICES ASSUME NEW x \in S PROVE SumFunctionOnSet(f, S \ {x}) = s[S \ {x}]
    OBVIOUS
  <2> DEFINE D == S \ {x}
             t == [T \in SUBSET D |-> s[T]]
  <2>1. IsFiniteSet(D) BY FS_RemoveElement
  <2>2. Adds(t, f, D)
    <3>1. t \in [SUBSET D -> Int] BY <1>1 DEF Adds
    <3>2. \A T \in SUBSET D : t[T] = OneMore(t, f, T) BY <1>1 DEF Adds, OneMore
    <3> QED BY <3>1, <3>2 DEF Adds
  <2>3. t[D] = s[D] OBVIOUS
  <2>4. \A y \in D : f[y] \in Int OBVIOUS
  <2> HIDE DEF D, t
  <2>5. SumFunctionOnSet(f, D) = s[D] BY <2>1, <2>2, <2>3, <2>4, AddsSums
  <2> QED BY <2>5 DEF D
<1> DEFINE F == {T \in SUBSET S : \A x \in T : s[T] = f[x] + s[T \ {x}]}
<1>4. {} \in F OBVIOUS
<1>5. ASSUME NEW T \in SUBSET S, T # {}, \A x \in T : T \ {x} \in F PROVE T \in F
  <2> SUFFICES ASSUME NEW x \in T PROVE s[T] = f[x] + s[T \ {x}]
    OBVIOUS
  <2> DEFINE y == CHOOSE z \in T : TRUE
  <2>1. y \in T /\ s[T] = f[y] + s[T \ {y}] BY <1>1 DEF Adds, OneMore
  <2>2. CASE x = y BY <2>1, <2>2
  <2>3. CASE x # y
    <3> HIDE DEF y
    <3>1. s[T \ {y}] = f[x] + s[(T \ {y}) \ {x}] BY <1>5, <2>1, <2>3
    <3>2. s[T \ {x}] = f[y] + s[(T \ {x}) \ {y}] BY <1>5, <2>1, <2>3
    <3>3. (T \ {y}) \ {x} = (T \ {x}) \ {y} OBVIOUS
    <3>4. f[x] \in Int /\ f[y] \in Int /\ s[(T \ {x}) \ {y}] \in Int
      BY <1>1, <2>1 DEF Adds
    <3> DEFINE a == s[(T \ {x}) \ {y}]
    <3>5. s[T] = f[y] + (f[x] + a) /\ s[T \ {x}] = f[y] + a
      BY <2>1, <3>1, <3>2, <3>3
    <3>6. f[x] \in Int /\ f[y] \in Int /\ a \in Int BY <3>4
    <3> HIDE DEF a
    <3> QED BY <3>5, <3>6
  <2> QED BY <2>2, <2>3
<1>6. SUBSET S \subseteq F
  <2> HIDE DEF F
  <2> QED BY <1>4, <1>5, Outwards
<1>7. \A x \in S : s[S] = f[x] + s[S \ {x}] BY <1>6
<1> QED BY <1>2, <1>3, <1>7

\* Sums add up point by point.
LEMMA OnSetAdds ==
    ASSUME NEW S, IsFiniteSet(S), NEW f, NEW g, NEW d,
           \A x \in S : f[x] \in Int /\ d[x] \in Int /\ g[x] = f[x] + d[x]
    PROVE  SumFunctionOnSet(g, S) = SumFunctionOnSet(f, S) + SumFunctionOnSet(d, S)
<1> DEFINE F == {T \in SUBSET S :
                   SumFunctionOnSet(g, T) = SumFunctionOnSet(f, T) + SumFunctionOnSet(d, T)}
<1>1. {} \in F
  <2>1. /\ SumFunctionOnSet(f, {}) = 0 /\ SumFunctionOnSet(g, {}) = 0
        /\ SumFunctionOnSet(d, {}) = 0
    BY OnSetEmpty
  <2> QED BY <2>1
<1>2. ASSUME NEW T \in SUBSET S, T # {}, \A x \in T : T \ {x} \in F PROVE T \in F
  <2>1. PICK x \in T : TRUE BY <1>2
  <2> DEFINE U == T \ {x}
  <2>2. IsFiniteSet(T) /\ IsFiniteSet(U) BY FS_Subset
  <2>3. \A y \in T : f[y] \in Int /\ g[y] \in Int /\ d[y] \in Int OBVIOUS
  <2>4. /\ SumFunctionOnSet(f, T) = f[x] + SumFunctionOnSet(f, U)
        /\ SumFunctionOnSet(g, T) = g[x] + SumFunctionOnSet(g, U)
        /\ SumFunctionOnSet(d, T) = d[x] + SumFunctionOnSet(d, U)
    BY <2>1, <2>2, <2>3, OnSetRemove
  <2>5. SumFunctionOnSet(f, U) \in Int /\ SumFunctionOnSet(d, U) \in Int
    <3>1. \A y \in U : f[y] \in Int /\ d[y] \in Int OBVIOUS
    <3> HIDE DEF U
    <3> QED BY <2>2, <3>1, OnSetRemove
  <2>6. SumFunctionOnSet(g, U) = SumFunctionOnSet(f, U) + SumFunctionOnSet(d, U)
    BY <1>2, <2>1
  <2>7. f[x] \in Int /\ d[x] \in Int /\ g[x] = f[x] + d[x] BY <2>1
  <2>8. SumFunctionOnSet(g, T) = SumFunctionOnSet(f, T) + SumFunctionOnSet(d, T)
    <3> HIDE DEF U
    <3> QED BY <2>4, <2>5, <2>6, <2>7
  <2> QED BY <2>8
<1>3. SUBSET S \subseteq F
  <2> HIDE DEF F
  <2> QED BY <1>1, <1>2, Outwards
<1> QED BY <1>3

\* Where nothing is added up there is nothing.
LEMMA OnSetZero ==
    ASSUME NEW S, IsFiniteSet(S), NEW f, \A x \in S : f[x] = 0
    PROVE  SumFunctionOnSet(f, S) = 0
<1> DEFINE a == SumFunctionOnSet(f, S)
<1>1. \A x \in S : f[x] \in Int /\ f[x] = f[x] + f[x] OBVIOUS
<1>2. a = a + a BY <1>1, OnSetAdds
<1>3. a \in Int BY <1>1, OnSetRemove
<1> HIDE DEF a
<1>4. a = 0 BY <1>2, <1>3
<1> QED BY <1>4 DEF a

\* Nothing but the numbers counts.
LEMMA OnSetSame ==
    ASSUME NEW S, IsFiniteSet(S), NEW f, NEW g,
           \A x \in S : f[x] \in Int /\ g[x] = f[x]
    PROVE  SumFunctionOnSet(g, S) = SumFunctionOnSet(f, S)
<1> DEFINE z == [x \in S |-> 0]
<1>1. SumFunctionOnSet(z, S) = 0 BY OnSetZero
<1>2. \A x \in S : f[x] \in Int /\ z[x] \in Int /\ g[x] = f[x] + z[x] OBVIOUS
<1>3. SumFunctionOnSet(g, S) = SumFunctionOnSet(f, S) + SumFunctionOnSet(z, S)
  <2> HIDE DEF z
  <2> QED BY <1>2, OnSetAdds
<1>4. SumFunctionOnSet(f, S) \in Int BY OnSetRemove
<1> QED BY <1>1, <1>3, <1>4

\* What happens to one number happens to the sum.
LEMMA OnSetMoves ==
    ASSUME NEW S, IsFiniteSet(S), NEW f, NEW g, NEW k \in S,
           \A x \in S : f[x] \in Int /\ g[x] \in Int,
           \A x \in S \ {k} : g[x] = f[x]
    PROVE  SumFunctionOnSet(g, S) = SumFunctionOnSet(f, S) + g[k] - f[k]
<1> DEFINE U == S \ {k}
<1>1. IsFiniteSet(U) /\ \A x \in U : f[x] \in Int BY FS_RemoveElement
<1>2. /\ SumFunctionOnSet(f, S) = f[k] + SumFunctionOnSet(f, U)
      /\ SumFunctionOnSet(g, S) = g[k] + SumFunctionOnSet(g, U)
  BY OnSetRemove
<1>3. /\ SumFunctionOnSet(g, U) = SumFunctionOnSet(f, U)
      /\ SumFunctionOnSet(f, U) \in Int
  <2>1. \A x \in U : g[x] = f[x] OBVIOUS
  <2> HIDE DEF U
  <2> QED BY <1>1, <2>1, OnSetSame, OnSetRemove
<1>4. f[k] \in Int /\ g[k] \in Int OBVIOUS
<1> HIDE DEF U
<1> QED BY <1>2, <1>3, <1>4

\* A sum of nothing negative is not, and no less than any part of it.
LEMMA OnSetNat ==
    ASSUME NEW S, IsFiniteSet(S), NEW f, \A x \in S : f[x] \in Nat
    PROVE  /\ SumFunctionOnSet(f, S) \in Nat
           /\ \A x \in S : f[x] <= SumFunctionOnSet(f, S)
<1> DEFINE F == {T \in SUBSET S : SumFunctionOnSet(f, T) \in Nat}
<1>1. {} \in F BY OnSetEmpty
<1>2. ASSUME NEW T \in SUBSET S, NEW x \in T, T \ {x} \in F
      PROVE  /\ SumFunctionOnSet(f, T) \in Nat
             /\ f[x] <= SumFunctionOnSet(f, T)
  <2>1. IsFiniteSet(T) /\ \A y \in T : f[y] \in Int BY FS_Subset
  <2>2. SumFunctionOnSet(f, T) = f[x] + SumFunctionOnSet(f, T \ {x})
    BY <2>1, OnSetRemove
  <2>3. SumFunctionOnSet(f, T \ {x}) \in Nat BY <1>2
  <2>4. f[x] \in Nat OBVIOUS
  <2> QED BY <2>2, <2>3, <2>4
<1>3. \A T \in SUBSET S : T # {} /\ (\A x \in T : T \ {x} \in F) => T \in F BY <1>2
<1>4. SUBSET S \subseteq F
  <2> HIDE DEF F
  <2> QED BY <1>1, <1>3, Outwards
<1>5. \A x \in S : S \ {x} \in F BY <1>4
<1> QED BY <1>2, <1>4, <1>5

\* A sum over a part is one over the whole, with nothing for the rest.
LEMMA OnSetMask ==
    ASSUME NEW S, IsFiniteSet(S), NEW T \in SUBSET S, NEW f, NEW m,
           \A x \in S : f[x] \in Int,
           \A x \in S : m[x] = IF x \in T THEN f[x] ELSE 0
    PROVE  SumFunctionOnSet(f, T) = SumFunctionOnSet(m, S)
<1> DEFINE F == {U \in SUBSET S : SumFunctionOnSet(m, U) = SumFunctionOnSet(f, U \cap T)}
<1>1. {} \in F
  <2>1. SumFunctionOnSet(m, {}) = 0 /\ SumFunctionOnSet(f, {}) = 0 BY OnSetEmpty
  <2>2. {} \cap T = {} OBVIOUS
  <2> QED BY <2>1, <2>2
<1>2. ASSUME NEW U \in SUBSET S, U # {}, \A x \in U : U \ {x} \in F PROVE U \in F
  <2>1. PICK x \in U : TRUE BY <1>2
  <2>2. /\ IsFiniteSet(U) /\ IsFiniteSet(U \cap T) /\ IsFiniteSet((U \ {x}) \cap T)
        /\ \A y \in U : m[y] \in Int
        /\ \A y \in U \cap T : f[y] \in Int
    BY FS_Subset
  <2>3. SumFunctionOnSet(m, U) = m[x] + SumFunctionOnSet(m, U \ {x})
    BY <2>1, <2>2, OnSetRemove
  <2>4. SumFunctionOnSet(m, U \ {x}) = SumFunctionOnSet(f, (U \ {x}) \cap T)
    BY <1>2, <2>1
  <2>5. CASE x \in T
    <3>1. SumFunctionOnSet(f, U \cap T) = f[x] + SumFunctionOnSet(f, (U \cap T) \ {x})
      BY <2>1, <2>2, <2>5, OnSetRemove
    <3>2. (U \cap T) \ {x} = (U \ {x}) \cap T OBVIOUS
    <3>3. m[x] = f[x] BY <2>1, <2>5
    <3>4. SumFunctionOnSet(m, U) = SumFunctionOnSet(f, U \cap T)
      BY <2>3, <2>4, <3>1, <3>2, <3>3
    <3> QED BY <3>4
  <2>6. CASE x \notin T
    <3>1. (U \ {x}) \cap T = U \cap T BY <2>6
    <3>2. m[x] = 0 BY <2>1, <2>6
    <3>3. SumFunctionOnSet(f, U \cap T) \in Int
      <4> DEFINE V == U \cap T
      <4>1. IsFiniteSet(V) /\ \A y \in V : f[y] \in Int BY <2>2
      <4> HIDE DEF V
      <4>2. SumFunctionOnSet(f, V) \in Int BY <4>1, OnSetRemove
      <4> QED BY <4>2 DEF V
    <3>4. SumFunctionOnSet(m, U) = SumFunctionOnSet(f, U \cap T)
      <4> DEFINE a == SumFunctionOnSet(f, U \cap T)
      <4>1. SumFunctionOnSet(m, U) = m[x] + a BY <2>3, <2>4, <3>1
      <4> HIDE DEF a
      <4>2. a \in Int BY <3>3 DEF a
      <4>3. SumFunctionOnSet(m, U) = a BY <3>2, <4>1, <4>2
      <4> QED BY <4>3 DEF a
    <3> QED BY <3>4
  <2> QED BY <2>5, <2>6
<1>3. SUBSET S \subseteq F
  <2> HIDE DEF F
  <2> QED BY <1>1, <1>2, Outwards
<1>4. S \cap T = T OBVIOUS
<1> QED BY <1>3, <1>4

\* What is in a part and what is in the rest.
LEMMA OnSetSplit ==
    ASSUME NEW S, IsFiniteSet(S), NEW T \in SUBSET S, NEW f, \A x \in S : f[x] \in Int
    PROVE  SumFunctionOnSet(f, S) = SumFunctionOnSet(f, T) + SumFunctionOnSet(f, S \ T)
<1> DEFINE m == [x \in S |-> IF x \in T THEN f[x] ELSE 0]
           n == [x \in S |-> IF x \in S \ T THEN f[x] ELSE 0]
<1>1. \A x \in S : m[x] \in Int /\ n[x] \in Int /\ f[x] = m[x] + n[x] OBVIOUS
<1>2. SumFunctionOnSet(f, T) = SumFunctionOnSet(m, S)
  <2>1. \A x \in S : m[x] = IF x \in T THEN f[x] ELSE 0 OBVIOUS
  <2> HIDE DEF m
  <2> QED BY <2>1, OnSetMask
<1>3. SumFunctionOnSet(f, S \ T) = SumFunctionOnSet(n, S)
  <2> DEFINE U == S \ T
  <2>1. U \in SUBSET S /\ \A x \in S : n[x] = IF x \in U THEN f[x] ELSE 0 OBVIOUS
  <2> HIDE DEF n, U
  <2>2. SumFunctionOnSet(f, U) = SumFunctionOnSet(n, S) BY <2>1, OnSetMask
  <2> QED BY <2>2 DEF U
<1>4. SumFunctionOnSet(f, S) = SumFunctionOnSet(m, S) + SumFunctionOnSet(n, S)
  <2> HIDE DEF m, n
  <2> QED BY <1>1, OnSetAdds
<1> QED BY <1>2, <1>3, <1>4

\* A sum of so many times each is so many times the sum.
LEMMA OnSetScale ==
    ASSUME NEW S, IsFiniteSet(S), NEW f, NEW g, NEW c \in Int,
           \A x \in S : f[x] \in Int /\ g[x] = c * f[x]
    PROVE  SumFunctionOnSet(g, S) = c * SumFunctionOnSet(f, S)
<1> DEFINE F == {T \in SUBSET S : SumFunctionOnSet(g, T) = c * SumFunctionOnSet(f, T)}
<1>0. \A a, b \in Int : c * a \in Int /\ c * (a + b) = c * a + c * b OBVIOUS
<1>1. {} \in F
  <2>1. SumFunctionOnSet(g, {}) = 0 /\ SumFunctionOnSet(f, {}) = 0 BY OnSetEmpty
  <2> QED BY <2>1
<1>2. ASSUME NEW T \in SUBSET S, T # {}, \A x \in T : T \ {x} \in F PROVE T \in F
  <2>1. PICK x \in T : TRUE BY <1>2
  <2> DEFINE U == T \ {x}
             a == SumFunctionOnSet(f, U)
  <2>2. IsFiniteSet(T) /\ IsFiniteSet(U) BY FS_Subset
  <2>3. \A y \in T : f[y] \in Int /\ g[y] \in Int /\ g[y] = c * f[y] BY <1>0
  <2>4. SumFunctionOnSet(f, T) = f[x] + a /\ SumFunctionOnSet(g, T) = g[x] + SumFunctionOnSet(g, U)
    BY <2>1, <2>2, <2>3, OnSetRemove
  <2>5. a \in Int
    <3>1. \A y \in U : f[y] \in Int BY <2>3
    <3> HIDE DEF U
    <3> QED BY <2>2, <3>1, OnSetRemove
  <2>6. SumFunctionOnSet(g, U) = c * a BY <1>2, <2>1
  <2>7. SumFunctionOnSet(g, T) = c * SumFunctionOnSet(f, T)
    <3>1. f[x] \in Int /\ g[x] = c * f[x] BY <2>1, <2>3
    <3> HIDE DEF U, a
    <3>2. SumFunctionOnSet(g, T) = c * f[x] + c * a BY <2>4, <2>6, <3>1
    <3> QED BY <1>0, <2>4, <2>5, <3>1, <3>2
  <2> QED BY <2>7
<1>3. SUBSET S \subseteq F
  <2> HIDE DEF F
  <2> QED BY <1>1, <1>2, Outwards
<1> QED BY <1>3

\* g has, for each of L, the sum of f over the members of S that are at it.
GroupSums(g, L, f, S, at) ==
    /\ \A x \in S : f[x] \in Int /\ at[x] \in L
    /\ \A l \in L : g[l] = SumFunctionOnSet(f, {x \in S : at[x] = l})

\* Added up group by group it comes to the same.
LEMMA OnSetGroups ==
    ASSUME NEW S, IsFiniteSet(S), NEW L, IsFiniteSet(L), NEW f, NEW at, NEW g,
           GroupSums(g, L, f, S, at)
    PROVE  SumFunctionOnSet(g, L) = SumFunctionOnSet(f, S)
<1> USE DEF GroupSums
<1> DEFINE G(T) == [l \in L |-> SumFunctionOnSet(f, {x \in T : at[x] = l})]
           F == {T \in SUBSET S : SumFunctionOnSet(G(T), L) = SumFunctionOnSet(f, T)}
<1>1. {} \in F
  <2> DEFINE z == G({})
  <2>1. \A l \in L : {x \in {} : at[x] = l} = {} OBVIOUS
  <2>2. \A l \in L : z[l] = 0 BY <2>1, OnSetEmpty
  <2>3. SumFunctionOnSet(z, L) = 0
    <3> HIDE DEF z
    <3> QED BY <2>2, OnSetZero
  <2> QED BY <2>3, OnSetEmpty
<1>2. ASSUME NEW T \in SUBSET S, T # {}, \A x \in T : T \ {x} \in F PROVE T \in F
  <2>1. PICK x \in T : TRUE BY <1>2
  <2> DEFINE U == T \ {x}
             a == G(U)
             b == G(T)
             k == at[x]
  <2>2. IsFiniteSet(T) /\ IsFiniteSet(U) /\ k \in L /\ f[x] \in Int BY <2>1, FS_Subset
  <2>3. \A l \in L : IsFiniteSet({y \in T : at[y] = l}) /\ IsFiniteSet({y \in U : at[y] = l})
    BY <2>2, FS_Subset
  <2>4. \A l \in L : a[l] \in Int /\ b[l] \in Int
    <3> SUFFICES ASSUME NEW l \in L PROVE a[l] \in Int /\ b[l] \in Int
      OBVIOUS
    <3> DEFINE A == {y \in U : at[y] = l}
               B == {y \in T : at[y] = l}
    <3>1. \A y \in A : f[y] \in Int OBVIOUS
    <3>2. \A y \in B : f[y] \in Int OBVIOUS
    <3>3. IsFiniteSet(A) /\ IsFiniteSet(B) BY <2>3
    <3>4. a[l] = SumFunctionOnSet(f, A) /\ b[l] = SumFunctionOnSet(f, B) OBVIOUS
    <3> HIDE DEF A, B, a, b
    <3> QED BY <3>1, <3>2, <3>3, <3>4, OnSetRemove
  <2>5. \A l \in L \ {k} : b[l] = a[l]
    <3> SUFFICES ASSUME NEW l \in L \ {k} PROVE b[l] = a[l]
      OBVIOUS
    <3>1. {y \in T : at[y] = l} = {y \in U : at[y] = l} OBVIOUS
    <3> QED BY <3>1
  <2>6. b[k] = f[x] + a[k]
    <3> DEFINE B == {y \in T : at[y] = k}
    <3>1. x \in B /\ \A y \in B : f[y] \in Int BY <2>1
    <3>2. IsFiniteSet(B) BY <2>2, <2>3
    <3>3. B \ {x} = {y \in U : at[y] = k} OBVIOUS
    <3>4. b[k] = SumFunctionOnSet(f, B) /\ a[k] = SumFunctionOnSet(f, B \ {x})
      BY <2>2, <3>3
    <3> HIDE DEF B, U, a, b, k
    <3>5. SumFunctionOnSet(f, B) = f[x] + SumFunctionOnSet(f, B \ {x})
      BY <3>1, <3>2, OnSetRemove
    <3> QED BY <3>4, <3>5
  <2>7. SumFunctionOnSet(b, L) = SumFunctionOnSet(a, L) + b[k] - a[k]
    <3> HIDE DEF a, b, k
    <3> QED BY <2>2, <2>4, <2>5, OnSetMoves
  <2>8. SumFunctionOnSet(f, T) = f[x] + SumFunctionOnSet(f, U)
    BY <2>1, <2>2, OnSetRemove
  <2>9. SumFunctionOnSet(a, L) = SumFunctionOnSet(f, U) BY <1>2, <2>1
  <2>10. SumFunctionOnSet(a, L) \in Int
    <3> HIDE DEF a, b
    <3> QED BY <2>4, OnSetRemove
  <2>11. SumFunctionOnSet(b, L) = SumFunctionOnSet(f, T)
    <3>1. a[k] \in Int /\ f[x] \in Int BY <2>2, <2>4
    <3> HIDE DEF a, b, U, k
    <3> QED BY <2>6, <2>7, <2>8, <2>9, <2>10, <3>1
  <2> QED BY <2>11
<1>3. SUBSET S \subseteq F
  <2> HIDE DEF F
  <2> QED BY <1>1, <1>2, Outwards
<1>4. SumFunctionOnSet(G(S), L) = SumFunctionOnSet(f, S) BY <1>3
<1>5. SumFunctionOnSet(g, L) = SumFunctionOnSet(G(S), L)
  <2> DEFINE h == G(S)
  <2>1. \A l \in L : h[l] \in Int
    <3> SUFFICES ASSUME NEW l \in L PROVE h[l] \in Int
      OBVIOUS
    <3> DEFINE A == {y \in S : at[y] = l}
    <3>1. IsFiniteSet(A) /\ \A y \in A : f[y] \in Int BY FS_Subset
    <3>2. h[l] = SumFunctionOnSet(f, A) OBVIOUS
    <3> HIDE DEF A, h
    <3> QED BY <3>1, <3>2, OnSetRemove
  <2>2. \A l \in L : g[l] = h[l] OBVIOUS
  <2>3. SumFunctionOnSet(g, L) = SumFunctionOnSet(h, L)
    <3> HIDE DEF h
    <3> QED BY <2>1, <2>2, OnSetSame
  <2> QED BY <2>3
<1> QED BY <1>4, <1>5

\* What a sum up to n is the sum up to one less, and the last.
LEMMA OnSetLast ==
    ASSUME NEW n \in Nat, NEW f, \A i \in 1 .. n + 1 : f[i] \in Int
    PROVE  /\ SumFunctionOnSet(f, 1 .. n) \in Int
           /\ SumFunctionOnSet(f, 1 .. n + 1) = SumFunctionOnSet(f, 1 .. n) + f[n + 1]
<1> DEFINE S == 1 .. n + 1
            T == 1 .. n
<1>1. IsFiniteSet(S) /\ IsFiniteSet(T)
  BY FS_Interval
<1>2. n + 1 \in S /\ S \ {n + 1} = T
  OBVIOUS
<1>3. (\A i \in S : f[i] \in Int) /\ (\A i \in T : f[i] \in Int)
  OBVIOUS
<1>4. f[n + 1] \in Int
  BY <1>2, <1>3
<1> HIDE DEF S, T
<1>5. SumFunctionOnSet(f, T) \in Int
  BY <1>1, <1>3, OnSetRemove
<1>6. SumFunctionOnSet(f, S) = f[n + 1] + SumFunctionOnSet(f, S \ {n + 1})
  BY <1>1, <1>2, <1>3, OnSetRemove
<1>7. SumFunctionOnSet(f, S) = SumFunctionOnSet(f, T) + f[n + 1]
  BY <1>2, <1>4, <1>5, <1>6
<1> QED
  BY <1>5, <1>7 DEF S, T
=============================================================================
