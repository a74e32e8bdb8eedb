----------------------------- MODULE Induction -----------------------------
(***************************************************************************)
(* Induction over the natural numbers, and what follows from it, stated    *)
(* about sets and functions: the theorems of the library have operators as *)
(* parameters, which the provers cannot instantiate.                       *)
(***************************************************************************)
EXTENDS Integers, Sequences, SequencesExt, FiniteSetTheorems, SequenceTheorems, TLAPS

\* Every set of natural numbers has a least element: the intervals up to its
\* elements are finite sets, which strict inclusion orders well.
LEMMA Least ==
  ASSUME NEW T \in SUBSET Nat, T # {}
  PROVE  \E m \in T : \A n \in T : m <= n
<1> DEFINE W == {0 .. n : n \in T}
           F == FiniteSubsetsOf(Nat)
<1>1. W \subseteq F
  <2> SUFFICES ASSUME NEW n \in T PROVE 0 .. n \in F
    OBVIOUS
  <2>1. IsFiniteSet(0 .. n)
    BY FS_Interval
  <2> QED BY <2>1 DEF FiniteSubsetsOf
<1>2. W # {}
  OBVIOUS
<1>3. PICK x \in W : \A y \in W : ~ (<<y, x>> \in StrictSubsetOrdering(Nat))
  BY <1>1, <1>2, FS_StrictSubsetOrderingWellFounded, WFMin
<1>4. PICK m \in T : x = 0 .. m
  OBVIOUS
<1>5. ASSUME NEW n \in T, n < m PROVE FALSE
  <2>1. 0 .. n \in W /\ 0 .. n \subseteq 0 .. m /\ m \in 0 .. m /\ m \notin 0 .. n
    BY <1>5
  <2>2. <<0 .. n, x>> \in StrictSubsetOrdering(Nat)
    BY <2>1, <1>4 DEF StrictSubsetOrdering
  <2> QED BY <2>1, <2>2, <1>3
<1> QED BY <1>5

\* A bounded set of natural numbers has a greatest element.
LEMMA Greatest ==
  ASSUME NEW T \in SUBSET Nat, T # {}, NEW b \in Nat, \A n \in T : n <= b
  PROVE  \E m \in T : \A n \in T : m >= n
<1> DEFINE U == {b - n : n \in T}
<1>1. U \in SUBSET Nat /\ U # {}
  <2>1. \A n \in T : b - n \in Nat
    OBVIOUS
  <2>2. U # {}
    OBVIOUS
  <2> QED BY <2>1, <2>2
<1>2. PICK u \in U : \A v \in U : u <= v
  BY <1>1, Least
<1>3. PICK m \in T : u = b - m
  OBVIOUS
<1>4. ASSUME NEW n \in T PROVE m >= n
  <2>1. b - n \in U /\ m \in Nat /\ n \in Nat
    OBVIOUS
  <2>2. b - m <= b - n
    BY <1>2, <1>3, <2>1
  <2> QED BY <2>1, <2>2
<1> QED BY <1>4

\* What holds of 0, and of n + 1 if it holds of n, holds of every number.
LEMMA NatSetInduction ==
  ASSUME NEW S, 0 \in S, \A n \in Nat : n \in S => n + 1 \in S
  PROVE  Nat \subseteq S
<1> SUFFICES ASSUME Nat \ S # {} PROVE FALSE
  OBVIOUS
<1>1. PICK m \in Nat \ S : \A n \in Nat \ S : m <= n
  BY Least
<1>2. m # 0 /\ m - 1 \in Nat /\ (m - 1) + 1 = m
  BY <1>1
<1>3. m - 1 \in S
  BY <1>1, <1>2
<1> QED BY <1>1, <1>2, <1>3

\* The same up to a bound.
LEMMA IntervalInduction ==
  ASSUME NEW N \in Nat, NEW S, 0 \in S,
         \A n \in 0 .. N - 1 : n \in S => n + 1 \in S
  PROVE  0 .. N \subseteq S
<1> DEFINE T == {n \in Nat : n <= N => n \in S}
<1>1. 0 \in T
  OBVIOUS
<1>2. \A n \in Nat : n \in T => n + 1 \in T
  OBVIOUS
<1> HIDE DEF T
<1>3. Nat \subseteq T
  BY <1>1, <1>2, NatSetInduction
<1> USE DEF T
<1> QED BY <1>3

\* The minimum and maximum of the community modules.
LEMMA MinIsLeast ==
  ASSUME NEW T \in SUBSET Nat, T # {}
  PROVE  Min(T) \in T /\ \A n \in T : Min(T) <= n
BY Least DEF Min

LEMMA MaxIsGreatest ==
  ASSUME NEW T \in SUBSET Nat, T # {}, NEW b \in Nat, \A n \in T : n <= b
  PROVE  Max(T) \in T /\ \A n \in T : Max(T) >= n
BY Greatest DEF Max

-----------------------------------------------------------------------------
\* f goes through n steps from v.
Run(f, v, step, n) ==
  /\ f[0] = v
  /\ \A i \in 0 .. n - 1 : f[i + 1] = step[<<i, f[i]>>]

LEMMA RunsExist ==
  ASSUME NEW V, NEW v \in V, NEW step \in [Nat \X V -> V]
  PROVE  \A n \in Nat : \E f \in [0 .. n -> V] : Run(f, v, step, n)
<1> DEFINE S == {n \in Nat : \E f \in [0 .. n -> V] : Run(f, v, step, n)}
<1>1. 0 \in S
  <2> DEFINE f == [i \in 0 .. 0 |-> v]
  <2>1. f \in [0 .. 0 -> V] /\ Run(f, v, step, 0)
    BY DEF Run
  <2> QED BY <2>1
<1>2. ASSUME NEW n \in Nat, n \in S PROVE n + 1 \in S
  <2>1. PICK f \in [0 .. n -> V] : Run(f, v, step, n)
    BY <1>2
  <2> DEFINE g == [i \in 0 .. n + 1 |-> IF i = n + 1 THEN step[<<n, f[n]>>] ELSE f[i]]
  <2>2. n \in 0 .. n /\ f[n] \in V /\ <<n, f[n]>> \in Nat \X V
    OBVIOUS
  <2>3. step[<<n, f[n]>>] \in V
    BY <2>2
  <2>4. g \in [0 .. n + 1 -> V]
    BY <2>3
  <2>5. g[0] = v /\ g[n + 1] = step[<<n, g[n]>>]
    <3>1. 0 \in 0 .. n + 1 /\ n \in 0 .. n + 1 /\ n + 1 \in 0 .. n + 1 /\ 0 # n + 1 /\ n # n + 1
      OBVIOUS
    <3>2. g[0] = f[0] /\ g[n] = f[n] /\ g[n + 1] = step[<<n, f[n]>>]
      BY <3>1
    <3> QED BY <2>1, <3>2 DEF Run
  <2>6. ASSUME NEW i \in 0 .. (n + 1) - 1 PROVE g[i + 1] = step[<<i, g[i]>>]
    <3>1. CASE i = n
      BY <2>5, <3>1
    <3>2. CASE i \in 0 .. n - 1
      BY <2>1, <3>2 DEF Run
    <3> QED BY <3>1, <3>2
  <2>7. Run(g, v, step, n + 1)
    BY <2>5, <2>6 DEF Run
  <2> QED BY <2>4, <2>7
<1> HIDE DEF S
<1>3. Nat \subseteq S
  BY <1>1, <1>2, NatSetInduction
<1> QED BY <1>3 DEF S

\* f is defined on 1 .. N by its first value v and a step.
Recurs(f, v, step, N) ==
  f[1] = v /\ \A n \in 2 .. N : f[n] = step[<<n, f[n - 1]>>]

\* There is such a function.
LEMMA Recursion ==
  ASSUME NEW V, NEW N \in Nat \ {0}, NEW v \in V, NEW step \in [Nat \X V -> V]
  PROVE  \E f \in [1 .. N -> V] : Recurs(f, v, step, N)
<1> DEFINE later == [x \in Nat \X V |-> step[<<x[1] + 2, x[2]>>]]
<1>1. later \in [Nat \X V -> V]
  BY \A x \in Nat \X V : <<x[1] + 2, x[2]>> \in Nat \X V
<1>2. \A i \in Nat, w \in V : later[<<i, w>>] = step[<<i + 2, w>>]
  OBVIOUS
<1> HIDE DEF later
<1>3. N - 1 \in Nat
  OBVIOUS
<1>4. PICK f \in [0 .. N - 1 -> V] : Run(f, v, later, N - 1)
  BY <1>1, <1>3, RunsExist
<1> DEFINE g == [n \in 1 .. N |-> f[n - 1]]
<1>5. g \in [1 .. N -> V]
  OBVIOUS
<1>6. g[1] = v
  BY <1>4 DEF Run
<1>7. ASSUME NEW n \in 2 .. N PROVE g[n] = step[<<n, g[n - 1]>>]
  <2>1. /\ n - 2 \in 0 .. (N - 1) - 1 /\ n - 2 \in Nat /\ n - 2 \in 0 .. N - 1
        /\ (n - 2) + 1 = n - 1 /\ (n - 2) + 2 = n /\ n - 1 \in 1 .. N /\ (n - 1) - 1 = n - 2
    OBVIOUS
  <2>2. f[(n - 2) + 1] = later[<<n - 2, f[n - 2]>>]
    BY <1>4, <2>1 DEF Run
  <2>3. f[n - 2] \in V
    BY <2>1
  <2>4. later[<<n - 2, f[n - 2]>>] = step[<<n, f[n - 2]>>]
    BY <1>2, <2>1, <2>3
  <2>5. g[n] = f[n - 1] /\ g[n - 1] = f[n - 2]
    BY <2>1
  <2> QED BY <2>1, <2>2, <2>4, <2>5
<1> HIDE DEF g
<1>8. Recurs(g, v, step, N)
  BY <1>6, <1>7 DEF Recurs
<1> QED BY <1>5, <1>8

-----------------------------------------------------------------------------
\* h[i] is the first i elements of ss in a row.
Flattens(h, S, ss) ==
  /\ \A i \in 1 .. Len(ss) : h[i] \in Seq(S)
  /\ h[1] = ss[1] /\ \A i \in 2 .. Len(ss) : h[i] = h[i - 1] \o ss[i]
  /\ FlattenSeq(ss) = h[Len(ss)]

LEMMA FlattenSteps ==
  ASSUME NEW S, NEW ss \in Seq(Seq(S)), Len(ss) # 0
  PROVE  \E h : Flattens(h, S, ss)
<1> DEFINE L == Len(ss)
           V == Seq(S)
           step == [x \in Nat \X V |-> IF x[1] \in 1 .. L THEN x[2] \o ss[x[1]] ELSE x[2]]
           Is(f) == f = [i \in 1 .. L |-> IF i = 1 THEN ss[i] ELSE f[i - 1] \o ss[i]]
           h == CHOOSE f : Is(f)
<1>1. L \in Nat \ {0} /\ 1 \in 1 .. L /\ \A i \in 1 .. L : ss[i] \in V
  OBVIOUS
<1>2. \A x \in Nat \X V : x[1] \in 1 .. L => x[2] \o ss[x[1]] \in V
  BY <1>1
<1>3. step \in [Nat \X V -> V]
  OBVIOUS
<1>4. \A i \in 1 .. L, w \in V : step[<<i, w>>] = w \o ss[i]
  <2> SUFFICES ASSUME NEW i \in 1 .. L, NEW w \in V PROVE step[<<i, w>>] = w \o ss[i]
    OBVIOUS
  <2>1. <<i, w>> \in Nat \X V /\ <<i, w>>[1] = i /\ <<i, w>>[2] = w
    BY <1>1
  <2> HIDE DEF V
  <2> QED BY <2>1
<1>5. \A w \in V, i \in 1 .. L : w \o ss[i] \in V
  BY <1>1
<1>6. ss[1] \in V
  BY <1>1
<1> HIDE DEF step, V, L, h
<1>7. PICK f \in [1 .. L -> V] : Recurs(f, ss[1], step, L)
  BY <1>1, <1>6, <1>3, Recursion
<1> USE DEF L, h
<1>8. ASSUME NEW i \in 1 .. L PROVE f[i] = IF i = 1 THEN ss[i] ELSE f[i - 1] \o ss[i]
  <2>1. CASE i = 1
    BY <1>7, <2>1 DEF Recurs
  <2>2. CASE i # 1
    <3>1. i \in 2 .. L /\ i - 1 \in 1 .. L
      BY <1>1, <2>2
    <3> QED BY <1>4, <1>7, <2>2, <3>1 DEF Recurs
  <2> QED BY <2>1, <2>2
<1>9. f = [i \in 1 .. L |-> IF i = 1 THEN ss[i] ELSE f[i - 1] \o ss[i]]
  BY <1>8
<1>10. Is(h)
  BY <1>9
<1>11. \A i \in 1 .. L : h[i] = IF i = 1 THEN ss[i] ELSE h[i - 1] \o ss[i]
  BY <1>10
<1>12. FlattenSeq(ss) = h[L]
  BY DEF FlattenSeq
<1> HIDE DEF h, L
<1> DEFINE T == {n \in Nat : n = 0 \/ h[n] \in V}
<1>13. 0 \in T
  OBVIOUS
<1> HIDE DEF T
<1>14. ASSUME NEW n \in 0 .. L - 1, n \in T PROVE n + 1 \in T
  <2>1. n + 1 \in 1 .. L /\ (n + 1) - 1 = n
    BY <1>1
  <2>2. CASE n = 0
    <3>1. h[1] = ss[1]
      BY <1>1, <1>11
    <3> QED BY <1>1, <2>2, <3>1 DEF T
  <2>3. CASE n # 0
    <3>1. n + 1 # 1 /\ n + 1 \in Nat
      BY <1>1, <2>3
    <3>2. h[n + 1] = h[n] \o ss[n + 1]
      BY <1>11, <2>1, <3>1
    <3>3. h[n] \in V
      BY <1>14, <2>3 DEF T
    <3>4. h[n + 1] \in V
      BY <1>5, <2>1, <3>2, <3>3
    <3> QED BY <3>1, <3>4 DEF T
  <2> QED BY <2>2, <2>3
<1>15. 0 .. L \subseteq T
  BY <1>1, <1>13, <1>14, IntervalInduction
<1>16. ASSUME NEW i \in 1 .. L PROVE h[i] \in V
  <2>1. i \in 0 .. L /\ i # 0
    BY <1>1
  <2> QED BY <1>15, <2>1 DEF T
<1>17. h[1] = ss[1]
  BY <1>1, <1>11
<1>18. ASSUME NEW i \in 2 .. L PROVE h[i] = h[i - 1] \o ss[i]
  <2>1. i \in 1 .. L /\ i # 1
    BY <1>1
  <2> QED BY <1>11, <2>1
<1>19. Flattens(h, S, ss)
  BY <1>12, <1>16, <1>17, <1>18 DEF Flattens, V, L
<1> QED BY <1>19

\* Sequences of elements of S in a row are a sequence of elements of S.
LEMMA FlattenType ==
  ASSUME NEW S, NEW ss \in Seq(Seq(S))
  PROVE  FlattenSeq(ss) \in Seq(S)
<1>1. CASE Len(ss) = 0
  <2>1. ss = <<>>
    BY <1>1
  <2> QED BY <1>1, <2>1 DEF FlattenSeq
<1>2. CASE Len(ss) # 0
  <2>1. PICK h : Flattens(h, S, ss)
    BY <1>2, FlattenSteps
  <2>2. Len(ss) \in 1 .. Len(ss)
    BY <1>2
  <2> QED BY <2>1, <2>2 DEF Flattens
<1> QED BY <1>1, <1>2

\* The first byte of a stream in two pieces is the first byte of the first piece.
LEMMA TailOfConcat ==
  ASSUME NEW S, NEW s \in Seq(S), NEW t \in Seq(S), s # <<>>
  PROVE  Tail(s) \o t = Tail(s \o t)
<1> DEFINE x == Tail(s)
           y == s \o t
           u == x \o t
           v == Tail(y)
<1>1. Len(s) \in Nat \ {0} /\ Len(t) \in Nat
  BY EmptySeq
<1>2. x \in Seq(S) /\ Len(x) = Len(s) - 1 /\ \A i \in 1 .. Len(s) - 1 : x[i] = s[i + 1]
  BY HeadTailProperties
<1>3. /\ y \in Seq(S) /\ Len(y) = Len(s) + Len(t)
      /\ \A i \in 1 .. Len(s) + Len(t) : y[i] = IF i <= Len(s) THEN s[i] ELSE t[i - Len(s)]
  BY ConcatProperties
<1> HIDE DEF x, y
<1>4. /\ u \in Seq(S) /\ Len(u) = Len(x) + Len(t)
      /\ \A i \in 1 .. Len(x) + Len(t) : u[i] = IF i <= Len(x) THEN x[i] ELSE t[i - Len(x)]
  BY <1>2, ConcatProperties
<1>5. y # <<>>
  BY <1>1, <1>3, EmptySeq
<1>6. /\ v \in Seq(S) /\ Len(v) = Len(y) - 1 /\ \A i \in 1 .. Len(y) - 1 : v[i] = y[i + 1]
  BY <1>3, <1>5, HeadTailProperties
<1> HIDE DEF u, v
<1>7. Len(u) = Len(v) /\ Len(u) = Len(s) - 1 + Len(t) /\ Len(y) - 1 = Len(u)
  BY <1>1, <1>2, <1>3, <1>4, <1>6
<1>8. ASSUME NEW i \in 1 .. Len(u) PROVE u[i] = v[i]
  <2>1. v[i] = y[i + 1] /\ i + 1 \in 1 .. Len(s) + Len(t) /\ i \in 1 .. Len(x) + Len(t)
    BY <1>1, <1>2, <1>3, <1>4, <1>6, <1>7
  <2>2. CASE i <= Len(s) - 1
    <3>1. u[i] = x[i] /\ y[i + 1] = s[i + 1] /\ i \in 1 .. Len(s) - 1
      BY <1>1, <1>2, <1>3, <1>4, <2>1, <2>2
    <3> QED BY <1>2, <2>1, <3>1
  <2>3. CASE i > Len(s) - 1
    <3>1. u[i] = t[i - Len(x)] /\ y[i + 1] = t[i + 1 - Len(s)] /\ i - Len(x) = i + 1 - Len(s)
      BY <1>1, <1>2, <1>3, <1>4, <2>1, <2>3
    <3> QED BY <2>1, <3>1
  <2> QED BY <1>1, <2>2, <2>3
<1>9. u = v
  BY <1>4, <1>6, <1>7, <1>8, SeqEqual
<1> QED BY <1>9 DEF u, v, x, y

\* place[i] is where ss[i] begins in s, which holds the elements of ss in a row.
LaidInto(place, ss, s) ==
  /\ place \in [1 .. Len(ss) + 1 -> Nat \ {0}]
  /\ place[1] = 1 /\ place[Len(ss) + 1] = Len(s) + 1
  /\ \A i \in 1 .. Len(ss) : place[i + 1] = place[i] + Len(ss[i])
  /\ \A i, j \in 1 .. Len(ss) + 1 : i <= j => place[i] <= place[j]
  /\ \A i \in 1 .. Len(ss), o \in Nat : o < Len(ss[i]) => s[place[i] + o] = ss[i][o + 1]

\* Sequences in a row each have their place.
LEMMA FlattenPlaces ==
  ASSUME NEW S, NEW ss \in Seq(Seq(S)), Len(ss) # 0
  PROVE  \E place : LaidInto(place, ss, FlattenSeq(ss))
<1> DEFINE L == Len(ss)
           s == FlattenSeq(ss)
<1>1. L \in Nat \ {0} /\ \A i \in 1 .. L : ss[i] \in Seq(S) /\ Len(ss[i]) \in Nat
  BY LenProperties, ElementOfSeq
<1>2. PICK h : Flattens(h, S, ss)
  BY FlattenSteps
<1> DEFINE place == [i \in 1 .. L + 1 |-> IF i = 1 THEN 1 ELSE Len(h[i - 1]) + 1]
<1>3. /\ \A i \in 1 .. L : h[i] \in Seq(S) /\ Len(h[i]) \in Nat
      /\ h[1] = ss[1] /\ \A i \in 2 .. L : h[i] = h[i - 1] \o ss[i]
      /\ s = h[L]
  BY <1>2, LenProperties DEF Flattens
<1>4. ASSUME NEW i \in 1 .. L + 1 PROVE place[i] \in Nat \ {0}
  <2>1. i # 1 => i - 1 \in 1 .. L
    BY <1>1
  <2> QED BY <1>3, <2>1
<1>5. place \in [1 .. L + 1 -> Nat \ {0}]
  BY <1>4
<1>6. place[1] = 1 /\ place[L + 1] = Len(s) + 1
  BY <1>1, <1>3
<1>7. ASSUME NEW i \in 1 .. L PROVE i + 1 \in 2 .. L + 1 /\ place[i + 1] = Len(h[i]) + 1
  BY <1>1
<1>8. ASSUME NEW i \in 2 .. L
      PROVE  /\ Len(h[i]) = Len(h[i - 1]) + Len(ss[i])
             /\ \A o \in 1 .. Len(h[i - 1]) + Len(ss[i]) :
                  h[i][o] = IF o <= Len(h[i - 1]) THEN h[i - 1][o] ELSE ss[i][o - Len(h[i - 1])]
  <2>1. i \in 1 .. L /\ i - 1 \in 1 .. L
    BY <1>1
  <2>2. h[i - 1] \in Seq(S) /\ ss[i] \in Seq(S) /\ h[i] = h[i - 1] \o ss[i]
    BY <1>1, <1>3, <2>1
  <2> DEFINE u == h[i - 1]
             v == ss[i]
  <2>3. u \in Seq(S) /\ v \in Seq(S) /\ h[i] = u \o v
    BY <2>2
  <2> HIDE DEF u, v
  <2>4. /\ Len(h[i]) = Len(u) + Len(v)
        /\ \A o \in 1 .. Len(u) + Len(v) : h[i][o] = IF o <= Len(u) THEN u[o] ELSE v[o - Len(u)]
    BY <2>3, ConcatProperties
  <2> QED BY <2>4 DEF u, v
<1> HIDE DEF place, s, L
<1>9. ASSUME NEW i \in 1 .. L PROVE place[i + 1] = place[i] + Len(ss[i])
  <2>1. CASE i = 1
    <3>1. place[i + 1] = Len(h[i]) + 1 /\ place[i] = 1 /\ h[i] = ss[i] /\ Len(ss[i]) \in Nat
      BY <1>1, <1>3, <1>6, <1>7, <2>1
    <3> QED BY <3>1
  <2>2. CASE i # 1
    <3>1. i \in 2 .. L /\ i - 1 \in 1 .. L /\ (i - 1) + 1 = i
      BY <1>1, <2>2
    <3>2. place[i] = Len(h[i - 1]) + 1
      BY <1>7, <3>1
    <3>3. /\ place[i + 1] = Len(h[i]) + 1 /\ Len(h[i]) = Len(h[i - 1]) + Len(ss[i])
          /\ Len(h[i - 1]) \in Nat /\ Len(ss[i]) \in Nat
      BY <1>1, <1>3, <1>7, <1>8, <3>1
    <3> DEFINE x == Len(h[i - 1])
               y == Len(ss[i])
    <3>4. place[i] = x + 1 /\ place[i + 1] = (x + y) + 1 /\ x \in Nat /\ y \in Nat
      BY <3>2, <3>3
    <3> HIDE DEF x, y
    <3>5. place[i + 1] = place[i] + y
      BY <3>4
    <3> QED BY <3>5 DEF y
  <2> QED BY <2>1, <2>2
\* Each sequence begins behind those before it.
<1> DEFINE T == {n \in Nat : n <= L => \A i \in 1 .. n + 1 : place[i] <= place[n + 1]}
<1>10. 0 .. L \subseteq T
  <2>1. 0 \in T
    BY <1>1, <1>5, <1>6
  <2>2. ASSUME NEW n \in 0 .. L - 1, n \in T PROVE n + 1 \in T
    <3>1. n + 1 \in 1 .. L /\ n \in Nat /\ n + 1 \in Nat
      BY <1>1
    <3>2. place[n + 1] \in Nat /\ place[(n + 1) + 1] = place[n + 1] + Len(ss[n + 1]) /\ Len(ss[n + 1]) \in Nat
          /\ place[(n + 1) + 1] \in Nat
      <4>1. n + 1 \in 1 .. L + 1 /\ (n + 1) + 1 \in 1 .. L + 1
        BY <1>1, <3>1
      <4> QED BY <1>1, <1>5, <1>9, <3>1, <4>1
    <3>3. ASSUME NEW i \in 1 .. (n + 1) + 1 PROVE place[i] <= place[(n + 1) + 1]
      <4>1. CASE i = (n + 1) + 1
        BY <3>2, <4>1
      <4>2. CASE i # (n + 1) + 1
        <5>1. i \in 1 .. n + 1 /\ i \in 1 .. L + 1 /\ n <= L
          BY <1>1, <3>1, <4>2
        <5>2. place[i] <= place[n + 1] /\ place[i] \in Nat
          BY <1>5, <2>2, <5>1
        <5> QED BY <3>2, <5>2
      <4> QED BY <4>1, <4>2
    <3> QED BY <3>1, <3>3
  <2> HIDE DEF T
  <2> QED BY <1>1, <2>1, <2>2, IntervalInduction
<1>11. ASSUME NEW i \in 1 .. L + 1, NEW j \in 1 .. L + 1, i <= j PROVE place[i] <= place[j]
  <2>1. j - 1 \in 0 .. L /\ (j - 1) + 1 = j /\ i \in 1 .. j /\ j - 1 <= L
    BY <1>1, <1>11
  <2>2. j - 1 \in T
    BY <1>10, <2>1
  <2> QED BY <2>1, <2>2
<1> HIDE DEF T
\* What is in its place in a beginning of s stays there.
<1> DEFINE U == {n \in Nat : n \in 1 .. L => \A i \in 1 .. n, o \in Nat : o < Len(ss[i]) =>
                              place[i] + o \in 1 .. Len(h[n]) /\ h[n][place[i] + o] = ss[i][o + 1]}
<1> HIDE DEF U
<1>12. 0 .. L \subseteq U
  <2>1. 0 \in U
    BY DEF U
  <2>2. ASSUME NEW n \in 0 .. L - 1, n \in U PROVE n + 1 \in U
    <3> DEFINE k == n + 1
    <3>1. k \in 1 .. L /\ k \in Nat /\ n \in Nat
      BY <1>1
    <3>2. ASSUME NEW i \in 1 .. k, NEW o \in Nat, o < Len(ss[i])
          PROVE  place[i] + o \in 1 .. Len(h[k]) /\ h[k][place[i] + o] = ss[i][o + 1]
      <4>1. i \in 1 .. L /\ i \in 1 .. L + 1 /\ place[i] \in Nat \ {0} /\ Len(ss[i]) \in Nat
        BY <1>1, <1>5, <3>1
      <4>2. place[i] + o \in Nat /\ place[i] + o >= 1 /\ o + 1 \in 1 .. Len(ss[i])
        BY <3>2, <4>1
      <4>3. CASE n = 0
        BY <1>3, <1>6, <3>2, <4>1, <4>2, <4>3
      <4>4. CASE n # 0 /\ i # k
        <5>1. n \in 1 .. L /\ i \in 1 .. n /\ k \in 2 .. L /\ k - 1 = n
          BY <1>1, <3>1, <4>4
        <5>2. place[i] + o \in 1 .. Len(h[n]) /\ h[n][place[i] + o] = ss[i][o + 1]
          BY <2>2, <3>2, <5>1 DEF U
        <5>3. Len(h[k]) = Len(h[n]) + Len(ss[k]) /\ Len(h[n]) \in Nat /\ Len(ss[k]) \in Nat
          BY <1>1, <1>3, <1>8, <3>1, <5>1
        <5>4. place[i] + o \in 1 .. Len(h[n]) + Len(ss[k]) /\ place[i] + o <= Len(h[n])
          <6> DEFINE x == place[i] + o
                     y == Len(h[n])
                     z == Len(ss[k])
          <6>1. x \in 1 .. y /\ y \in Nat /\ z \in Nat
            BY <5>2, <5>3
          <6> HIDE DEF x, y, z
          <6>2. x \in 1 .. y + z /\ x <= y
            BY <6>1
          <6> QED BY <6>2 DEF x, y, z
        <5>5. h[k][place[i] + o] = h[n][place[i] + o]
          BY <1>8, <5>1, <5>4
        <5> QED BY <5>2, <5>3, <5>4, <5>5
      <4>5. CASE n # 0 /\ i = k
        <5>1. n \in 1 .. L /\ k \in 2 .. L /\ k - 1 = n
          BY <1>1, <3>1, <4>5
        <5>2. Len(h[k]) = Len(h[n]) + Len(ss[k]) /\ Len(h[n]) \in Nat
          BY <1>1, <1>3, <1>8, <3>1, <5>1
        <5>3. place[i] = Len(h[n]) + 1
          BY <1>7, <4>5, <5>1
        <5>4. place[i] + o \in 1 .. Len(h[n]) + Len(ss[k]) /\ ~ (place[i] + o <= Len(h[n]))
              /\ (place[i] + o) - Len(h[n]) = o + 1
          <6> DEFINE x == place[i]
                     y == Len(h[n])
                     z == Len(ss[k])
          <6>1. x = y + 1 /\ y \in Nat /\ z \in Nat /\ o \in Nat /\ o < z
            BY <3>2, <4>1, <4>5, <5>2, <5>3
          <6> HIDE DEF x, y, z
          <6>2. x + o \in 1 .. y + z /\ ~ (x + o <= y) /\ (x + o) - y = o + 1
            BY <6>1
          <6> QED BY <6>2 DEF x, y, z
        <5>5. h[k][place[i] + o] = ss[k][(place[i] + o) - Len(h[n])]
          BY <1>8, <5>1, <5>4
        <5> QED BY <4>5, <5>2, <5>4, <5>5
      <4> QED BY <4>3, <4>4, <4>5
    <3> HIDE DEF k
    <3>3. k \in U
      BY <3>1, <3>2 DEF U
    <3> QED BY <3>3 DEF k
  <2> QED BY <1>1, <2>1, <2>2, IntervalInduction
<1>13. ASSUME NEW i \in 1 .. L, NEW o \in Nat, o < Len(ss[i])
       PROVE  s[place[i] + o] = ss[i][o + 1]
  <2>1. L \in Nat /\ L \in 1 .. L /\ L \in 0 .. L
    BY <1>1
  <2>2. L \in U
    BY <1>12, <2>1
  <2>3. h[L][place[i] + o] = ss[i][o + 1]
    BY <1>13, <2>1, <2>2 DEF U
  <2> QED BY <1>3, <2>3
<1>14. LaidInto(place, ss, s)
  BY <1>5, <1>6, <1>9, <1>11, <1>13 DEF LaidInto, L
<1> QED BY <1>14 DEF s

=============================================================================
