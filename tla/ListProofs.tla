------------------------------ MODULE ListProofs ------------------------------
(***************************************************************************)
(* What the operations on lists do, for lists of any length of anything,   *)
(* and what proofs by recursion over a list need.                          *)
(***************************************************************************)
EXTENDS Lists, NaturalsInduction, WellFoundedInduction, TLAPS

(* Induction, from the well-foundedness of <.                              *)

Below == {pair \in Nat \X Nat : pair[1] < pair[2]}

\* The order of the naturals, as a relation, has no endless descent.
LEMMA BelowWellFounded == IsWellFoundedOn(Below, Nat)
BY NatLessThanWellFounded DEF OpToRel, Below

\* Every set of naturals has a least one.
LEMMA Least ==
  ASSUME NEW T, T \subseteq Nat, T # {}
  PROVE  \E m \in T : \A k \in T : m <= k
<1>1. PICK m \in T : \A k \in T : <<k, m>> \notin Below
  BY BelowWellFounded, WFMin
<1>2. ASSUME NEW k \in T PROVE m <= k
  <2>1. m \in Nat /\ k \in Nat /\ ~(k < m)
    BY <1>1 DEF Below
  <2> QED BY <2>1
<1> QED BY <1>2

\* What holds of 0, and of the next where it holds, holds up to n.
LEMMA Induct ==
  ASSUME NEW n \in Nat, NEW T, 0 \in T, \A k \in T : k \in 0..(n-1) => k + 1 \in T
  PROVE  0..n \subseteq T
<1> DEFINE Rest == (0..n) \ T
<1> SUFFICES ASSUME Rest # {} PROVE FALSE
  OBVIOUS
<1>1. PICK m \in Rest : \A k \in Rest : m <= k
  <2>1. Rest \subseteq Nat
    OBVIOUS
  <2> HIDE DEF Rest
  <2> QED BY <2>1, Least
<1>2. m \in 1..n /\ m - 1 \in 0..n
  OBVIOUS
<1>3. m - 1 \notin Rest
  BY <1>1, <1>2
<1>4. m - 1 \in T /\ m - 1 \in 0..(n-1) /\ (m - 1) + 1 = m
  BY <1>2, <1>3
<1>5. (m - 1) + 1 \in T
  BY <1>4
<1> QED BY <1>4, <1>5

\* A recursive function on 0..n exists.
LEMMA Recursion ==
  ASSUME NEW S, NEW base \in S, NEW n \in Nat, NEW step \in [1..n -> [S -> S]]
  PROVE  \E f \in [0..n -> S] :
           f[0] = base /\ \A k \in 1..n : f[k] = step[k][f[k-1]]
<1> DEFINE Begun(m) ==
             \E f \in [0..m -> S] : f[0] = base /\ \A k \in 1..m : f[k] = step[k][f[k-1]]
           T == {m \in 0..n : Begun(m)}
<1>1. 0 \in T
  <2>1. [k \in 0..0 |-> base] \in [0..0 -> S]
    OBVIOUS
  <2>2. Begun(0)
    <3> WITNESS [k \in 0..0 |-> base] \in [0..0 -> S]
    <3> QED OBVIOUS
  <2> QED BY <2>2
<1>2. ASSUME NEW m \in T, m \in 0..(n-1) PROVE m + 1 \in T
  <2>1. PICK f \in [0..m -> S] : f[0] = base /\ \A k \in 1..m : f[k] = step[k][f[k-1]]
    OBVIOUS
  <2> DEFINE g == [k \in 0..(m+1) |-> IF k = m + 1 THEN step[m+1][f[m]] ELSE f[k]]
  <2>2. f[m] \in S /\ m + 1 \in 1..n
    BY <1>2
  <2>3. step[m+1] \in [S -> S]
    BY <2>2
  <2>4. step[m+1][f[m]] \in S
    BY <2>2, <2>3
  <2>5. g \in [0..(m+1) -> S]
    BY <2>4, <1>2
  <2>6. g[0] = base
    BY <1>2, <2>1
  <2>7. ASSUME NEW k \in 1..(m+1) PROVE g[k] = step[k][g[k-1]]
    <3>1. CASE k = m + 1
      <4>1. k - 1 = m /\ k - 1 \in 0..(m+1) /\ m # m + 1
        BY <3>1, <1>2
      <4> QED BY <3>1, <4>1
    <3>2. CASE k # m + 1
      <4>1. k \in 1..m /\ k \in 0..(m+1) /\ k - 1 \in 0..(m+1) /\ k - 1 # m + 1
        BY <3>2, <1>2
      <4> QED BY <3>2, <4>1, <2>1
    <3> QED BY <3>1, <3>2
  <2>8. Begun(m+1)
    BY <2>5, <2>6, <2>7
  <2> QED BY <2>2, <2>8
<1>3. 0..n \subseteq T
  BY <1>1, <1>2, Induct
<1> QED BY <1>3

-------------------------------------------------------------------------------
(* Operations on lists.                                                    *)

\* Without(s, out) keeps the order of what it keeps, each once.
LEMMA WithoutFacts ==
  ASSUME NEW S, NEW s \in Seq(S), NEW out
  PROVE  LET t == Without(s, out) IN
         /\ t \in Seq(S)
         /\ Range(t) = Range(s) \ out
         /\ \E h \in [1..Len(t) -> 1..Len(s)] :
              /\ \A k \in 1..Len(t) : t[k] = s[h[k]]
              /\ \A j, k \in 1..Len(t) : j < k => h[j] < h[k]
<1> DEFINE Step(q, k) == IF s[k] \in out THEN q ELSE Append(q, s[k])
           Keep(f, k) == IF k = 0 THEN <<>>
                         ELSE IF s[k] \in out THEN f[k-1] ELSE Append(f[k-1], s[k])
           Q == Seq(S)
<1>1. PICK n \in Nat : n = Len(s)
  OBVIOUS
<1>2. PICK kept : kept = (CHOOSE f : f = [k \in 0..n |-> Keep(f, k)])
  OBVIOUS
<1>3. Without(s, out) = kept[n]
  BY <1>1, <1>2, Zenon DEF Without
<1>4. \E f : f = [k \in 0..n |-> Keep(f, k)]
  <2> DEFINE step == [k \in 1..n |-> [q \in Q |-> Step(q, k)]]
             base == <<>>
  <2>1. base \in Q /\ \A k \in 1..n, q \in Q : Step(q, k) \in Q
    <3>1. \A k \in 1..n : s[k] \in S
      BY <1>1
    <3> QED BY <3>1
  <2>2. ASSUME NEW f, NEW k \in 1..n PROVE Step(f[k-1], k) = Keep(f, k)
    OBVIOUS
  <2>3. ASSUME NEW f PROVE Keep(f, 0) = base
    OBVIOUS
  <2> HIDE DEF base, Keep, Q, Step
  <2>4. PICK f \in [0..n -> Q] : f[0] = base /\ \A k \in 1..n : f[k] = Step(f[k-1], k)
    <3>1. step \in [1..n -> [Q -> Q]]
      BY <2>1
    <3>2. ASSUME NEW q \in Q, NEW k \in 1..n PROVE step[k][q] = Step(q, k)
      OBVIOUS
    <3>3. ASSUME NEW k \in 1..n PROVE k - 1 \in 0..n
      OBVIOUS
    <3>4. base \in Q
      BY <2>1
    <3> HIDE DEF step
    <3>5. PICK f \in [0..n -> Q] : f[0] = base /\ \A k \in 1..n : f[k] = step[k][f[k-1]]
      BY ONLY <3>1, <3>4, n \in Nat, Recursion
    <3>6. \A k \in 1..n : f[k-1] \in Q
      BY ONLY <3>3, <3>5
    <3>7. \A k \in 1..n : f[k] = Step(f[k-1], k)
      BY ONLY <3>2, <3>5, <3>6
    <3> QED BY ONLY <3>5, <3>7
  <2>5. ASSUME NEW k \in 0..n PROVE f[k] = Keep(f, k)
    <3>1. CASE k = 0
      BY <2>3, <2>4, <3>1
    <3>2. CASE k # 0
      <4>1. k \in 1..n /\ k - 1 \in 0..n
        BY <3>2
      <4>2. f[k] = Step(f[k-1], k)
        BY <2>4, <4>1
      <4> QED BY <2>2, <4>1, <4>2
    <3> QED BY <3>1, <3>2
  <2>6. f = [k \in 0..n |-> Keep(f, k)]
    BY <2>5
  <2> QED BY <2>6
<1>5. kept = [k \in 0..n |-> Keep(kept, k)]
  <2> HIDE DEF Keep
  <2> QED BY <1>2, <1>4
<1>6. ASSUME NEW k \in 0..n PROVE kept[k] = Keep(kept, k)
  <2> HIDE DEF Keep
  <2> QED BY <1>5
<1>7. \A k \in 1..n : kept[k] = IF s[k] \in out THEN kept[k-1] ELSE Append(kept[k-1], s[k])
  BY <1>6
<1> DEFINE Upto(k, t) ==
             /\ t \in Seq(S)
             /\ \A x : x \in Range(t) <=> \E j \in 1..k : s[j] = x /\ x \notin out
             /\ \E h \in [1..Len(t) -> 1..k] :
                  /\ \A j \in 1..Len(t) : t[j] = s[h[j]]
                  /\ \A i, j \in 1..Len(t) : i < j => h[i] < h[j]
<1>8. Upto(0, <<>>)
  <2>1. Range(<<>>) = {}
    BY DEF Range
  <2>2. <<>> \in Seq(S) /\ Len(<<>>) = 0
    OBVIOUS
  <2>3. \A j : j \notin 1..0
    OBVIOUS
  <2>4. \E h \in [1..Len(<<>>) -> 1..0] :
          /\ \A j \in 1..Len(<<>>) : <<>>[j] = s[h[j]]
          /\ \A i, j \in 1..Len(<<>>) : i < j => h[i] < h[j]
    <3> DEFINE g == [j \in 1..0 |-> 0]
    <3>1. g \in [1..0 -> 1..0]
      BY <2>3, Zenon
    <3> HIDE DEF g
    <3> QED BY <2>2, <2>3, <3>1
  <2> QED BY <2>1, <2>2, <2>3, <2>4
<1>9. ASSUME NEW k \in Nat, NEW t, k + 1 \in 1..n, Upto(k, t)
      PROVE  Upto(k + 1, IF s[k+1] \in out THEN t ELSE Append(t, s[k+1]))
  <2>1. PICK h \in [1..Len(t) -> 1..k] :
          /\ \A j \in 1..Len(t) : t[j] = s[h[j]]
          /\ \A i, j \in 1..Len(t) : i < j => h[i] < h[j]
    BY <1>9
  <2>2. t \in Seq(S) /\ \A x : x \in Range(t) <=> \E j \in 1..k : s[j] = x /\ x \notin out
    BY <1>9
  <2>3. \A j \in 1..(k+1) : j \in 1..k \/ j = k + 1
    OBVIOUS
  <2>4. CASE s[k+1] \in out
    <3>1. h \in [1..Len(t) -> 1..(k+1)]
      BY <2>1
    <3>2. \A x : x \in Range(t) <=> \E j \in 1..(k+1) : s[j] = x /\ x \notin out
      BY <2>2, <2>3, <2>4
    <3> QED BY <2>1, <2>2, <2>4, <3>1, <3>2
  <2>5. CASE s[k+1] \notin out
    <3> DEFINE u == Append(t, s[k+1])
               g == [j \in 1..Len(u) |-> IF j = Len(u) THEN k + 1 ELSE h[j]]
    <3>1. s[k+1] \in S
      BY <1>1, <1>9
    <3>2. u \in Seq(S) /\ Len(u) = Len(t) + 1 /\ u[Len(u)] = s[k+1] /\ \A j \in 1..Len(t) : u[j] = t[j]
      BY <2>2, <3>1
    <3>3. DOMAIN u = 1..Len(u) /\ DOMAIN t = 1..Len(t) /\ Len(t) \in Nat
      BY <2>2, <3>2
    <3> HIDE DEF u
    <3>4. \A j \in 1..Len(u) : j \in 1..Len(t) \/ j = Len(u)
      BY <3>2, <3>3
    <3>5. \A j \in 1..Len(t) : j \in 1..Len(u) /\ j # Len(u)
      BY <3>2, <3>3
    <3>6. Len(u) \in 1..Len(u)
      BY <3>2, <3>3
    <3>7. \A x : x \in Range(u) <=> x \in Range(t) \/ x = s[k+1]
      BY <3>2, <3>3, <3>4, <3>5, <3>6 DEF Range
    <3>8. \A x : x \in Range(u) <=> \E j \in 1..(k+1) : s[j] = x /\ x \notin out
      BY <2>2, <2>3, <2>5, <3>7
    <3>9. g \in [1..Len(u) -> 1..(k+1)]
      BY <2>1, <3>4
    <3>10. \A j \in 1..Len(u) : u[j] = s[g[j]]
      BY <2>1, <3>2, <3>4, <3>5
    <3>11. \A i, j \in 1..Len(u) : i < j => g[i] < g[j]
      <4>1. \A j \in 1..Len(t) : g[j] = h[j] /\ g[j] \in 1..k
        BY <2>1, <3>5
      <4>2. g[Len(u)] = k + 1 /\ k + 1 \notin 1..k
        BY <3>6
      <4> HIDE DEF g
      <4> QED BY <2>1, <3>4, <4>1, <4>2
    <3> HIDE DEF g
    <3>12. Upto(k + 1, u)
      BY <3>2, <3>8, <3>9, <3>10, <3>11
    <3> QED BY <2>5, <3>12 DEF u
  <2> QED BY <2>4, <2>5
<1>10. Upto(n, kept[n])
  <2> DEFINE T == {k \in 0..n : Upto(k, kept[k])}
  <2> HIDE DEF Upto
  <2>1. 0 \in T
    <3>1. kept[0] = <<>>
      BY <1>6
    <3> QED BY <1>8, <3>1
  <2>2. ASSUME NEW k \in T, k \in 0..(n-1) PROVE k + 1 \in T
    <3>1. k \in Nat /\ k + 1 \in 1..n /\ (k + 1) - 1 = k
      BY <2>2
    <3>2. kept[k+1] = IF s[k+1] \in out THEN kept[k] ELSE Append(kept[k], s[k+1])
      BY <1>7, <3>1
    <3>3. Upto(k + 1, kept[k+1])
      BY <1>9, <3>1, <3>2
    <3> QED BY <3>1, <3>3
  <2>3. 0..n \subseteq T
    <3> HIDE DEF T
    <3> QED BY <2>1, <2>2, Induct
  <2> QED BY <2>3
<1>11. \A x : x \in Range(s) <=> \E j \in 1..n : s[j] = x
  BY <1>1 DEF Range
<1> QED BY <1>1, <1>3, <1>10, <1>11

\* Nothing twice.
Once(s) == \A j, k \in DOMAIN s : s[j] = s[k] => j = k

\* What was once in a list is once in what is left of it, in the same order.
LEMMA WithoutOnce ==
  ASSUME NEW S, NEW s \in Seq(S), NEW out, Once(s)
  PROVE  /\ Once(Without(s, out))
         /\ \A x, y \in Range(Without(s, out)) : Before(Without(s, out), x, y) <=> Before(s, x, y)
<1> DEFINE t == Without(s, out)
<1>1. PICK h \in [1..Len(t) -> 1..Len(s)] :
        /\ \A k \in 1..Len(t) : t[k] = s[h[k]]
        /\ \A j, k \in 1..Len(t) : j < k => h[j] < h[k]
  BY WithoutFacts
<1>2. t \in Seq(S)
  BY WithoutFacts
<1> HIDE DEF t
<1>3. DOMAIN t = 1..Len(t) /\ DOMAIN s = 1..Len(s) /\ Len(t) \in Nat /\ Len(s) \in Nat
  BY <1>2
<1>4. \A j \in 1..Len(t) : h[j] \in 1..Len(s)
  BY <1>1
<1>5. Once(t)
  BY <1>1, <1>3, <1>4 DEF Once
<1>6. ASSUME NEW x \in Range(t), NEW y \in Range(t) PROVE Before(t, x, y) <=> Before(s, x, y)
  <2>1. ASSUME Before(t, x, y) PROVE Before(s, x, y)
    <3>1. PICK j \in 1..Len(t), k \in 1..Len(t) : j <= k /\ t[j] = x /\ t[k] = y
      BY <1>3, <2>1 DEF Before
    <3>2. h[j] <= h[k]
      BY <1>1, <1>3, <1>4, <3>1
    <3> QED BY <1>1, <1>3, <1>4, <3>1, <3>2 DEF Before
  <2>2. ASSUME Before(s, x, y) PROVE Before(t, x, y)
    <3>1. PICK a \in 1..Len(t), b \in 1..Len(t) : t[a] = x /\ t[b] = y
      BY <1>3 DEF Range
    <3>2. PICK j \in 1..Len(s), k \in 1..Len(s) : j <= k /\ s[j] = x /\ s[k] = y
      BY <1>3, <2>2 DEF Before
    <3>3. s[h[a]] = s[j] /\ s[h[b]] = s[k]
      BY <1>1, <3>1, <3>2
    <3>4. h[a] = j /\ h[b] = k
      BY <1>3, <1>4, <3>1, <3>2, <3>3 DEF Once
    <3>5. a <= b
      BY <1>1, <1>3, <1>4, <3>1, <3>2, <3>4
    <3> QED BY <1>3, <3>1, <3>5 DEF Before
  <2> QED BY <2>1, <2>2
<1> QED BY <1>5, <1>6 DEF t

\* The order of a list's elements.
LEMMA BeforeFacts ==
  ASSUME NEW S, NEW s \in Seq(S)
  PROVE  /\ \A x, y : Before(s, x, y) => x \in Range(s) /\ y \in Range(s)
         /\ \A x, y \in Range(s) : Before(s, x, y) \/ Before(s, y, x)
         /\ Once(s) => \A x, y : Before(s, x, y) /\ Before(s, y, x) => x = y
         /\ Once(s) => \A x, y, z : Before(s, x, y) /\ Before(s, y, z) => Before(s, x, z)
<1>1. DOMAIN s = 1..Len(s) /\ Len(s) \in Nat
  OBVIOUS
<1>2. \A x, y : Before(s, x, y) => x \in Range(s) /\ y \in Range(s)
  BY DEF Before, Range
<1>3. ASSUME NEW x \in Range(s), NEW y \in Range(s) PROVE Before(s, x, y) \/ Before(s, y, x)
  <2>1. PICK j \in 1..Len(s), k \in 1..Len(s) : s[j] = x /\ s[k] = y
    BY <1>1 DEF Range
  <2>2. j <= k \/ k <= j
    BY <2>1
  <2> QED BY <1>1, <2>1, <2>2 DEF Before
<1>4. ASSUME Once(s), NEW x, NEW y, Before(s, x, y), Before(s, y, x) PROVE x = y
  <2>1. PICK j \in 1..Len(s), k \in 1..Len(s) : j <= k /\ s[j] = x /\ s[k] = y
    BY <1>1, <1>4 DEF Before
  <2>2. PICK a \in 1..Len(s), b \in 1..Len(s) : a <= b /\ s[a] = y /\ s[b] = x
    BY <1>1, <1>4 DEF Before
  <2>3. a = k /\ b = j
    BY <1>1, <1>4, <2>1, <2>2 DEF Once
  <2>4. j = k
    BY <2>1, <2>2, <2>3
  <2> QED BY <2>1, <2>4
<1>5. ASSUME Once(s), NEW x, NEW y, NEW z, Before(s, x, y), Before(s, y, z) PROVE Before(s, x, z)
  <2>1. PICK j \in 1..Len(s), k \in 1..Len(s) : j <= k /\ s[j] = x /\ s[k] = y
    BY <1>1, <1>5 DEF Before
  <2>2. PICK a \in 1..Len(s), b \in 1..Len(s) : a <= b /\ s[a] = y /\ s[b] = z
    BY <1>1, <1>5 DEF Before
  <2>3. a = k
    BY <1>1, <1>5, <2>1, <2>2 DEF Once
  <2>4. j <= b
    BY <2>1, <2>2, <2>3
  <2> QED BY <1>1, <2>1, <2>2, <2>4 DEF Before
<1> QED BY <1>2, <1>3, <1>4, <1>5

\* There is a first one.
LEMMA ForemostFacts ==
  ASSUME NEW S, NEW s \in Seq(S), NEW T, Range(s) \cap T # {}
  PROVE  /\ Foremost(s, T) \in Range(s) \cap T
         /\ \A y \in Range(s) \cap T : Before(s, Foremost(s, T), y)
<1> DEFINE K == {k \in DOMAIN s : s[k] \in T}
<1>1. DOMAIN s = 1..Len(s) /\ Len(s) \in Nat
  OBVIOUS
<1>2. K \subseteq Nat /\ K # {}
  BY <1>1 DEF Range
<1>3. PICK m \in K : \A k \in K : m <= k
  <2> HIDE DEF K
  <2> QED BY <1>2, Least
<1>4. s[m] \in Range(s) \cap T /\ \A y \in Range(s) \cap T : Before(s, s[m], y)
  BY <1>3 DEF Range, Before
<1> QED BY <1>4 DEF Foremost

\* What is left of the list from c on, when it is cut, begins where a walk
\* that stands at c is sent.
LEMMA CutFacts ==
  ASSUME NEW S, NEW s \in Seq(S), NEW out, NEW c, Once(s)
  PROVE  /\ c \notin Range(s) => From(s, c) = {}
         /\ c \in Range(s) => c \in From(s, c)
         /\ c \notin out => From(Without(s, out), c) = From(s, c) \ out
         /\ From(s, c) \ out # {} =>
              LET d == Foremost(s, From(s, c) \ out) IN
              /\ d \in From(s, c) \ out
              /\ From(Without(s, out), d) = From(s, c) \ out
         /\ From(s, c) \ {c} # {} =>
              LET d == Foremost(s, From(s, c) \ {c}) IN
              /\ d \in From(s, c) \ {c}
              /\ From(s, d) = From(s, c) \ {c}
<1> DEFINE t == Without(s, out)
<1>1. /\ \A x, y : Before(s, x, y) => x \in Range(s) /\ y \in Range(s)
      /\ \A x, y \in Range(s) : Before(s, x, y) \/ Before(s, y, x)
      /\ \A x, y : Before(s, x, y) /\ Before(s, y, x) => x = y
      /\ \A x, y, z : Before(s, x, y) /\ Before(s, y, z) => Before(s, x, z)
  BY BeforeFacts
<1>2. t \in Seq(S) /\ Range(t) = Range(s) \ out
  BY WithoutFacts
<1>3. \A x, y \in Range(t) : Before(t, x, y) <=> Before(s, x, y)
  BY WithoutOnce
<1> HIDE DEF t
<1>4. \A x, y : Before(t, x, y) => x \in Range(t) /\ y \in Range(t)
  BY <1>2, BeforeFacts
<1>5. \A x, y : Before(t, x, y) <=> x \in Range(t) /\ y \in Range(t) /\ Before(s, x, y)
  BY <1>3, <1>4
<1>6. (c \notin Range(s) => From(s, c) = {}) /\ (c \in Range(s) => c \in From(s, c))
  BY <1>1 DEF From
<1>7. ASSUME c \notin out PROVE From(t, c) = From(s, c) \ out
  BY <1>1, <1>2, <1>5, <1>7 DEF From
<1>8. ASSUME NEW R, From(s, c) \ R # {}
      PROVE  LET d == Foremost(s, From(s, c) \ R) IN
             /\ d \in From(s, c) \ R
             /\ \A y \in Range(s) \ R : Before(s, d, y) <=> y \in From(s, c)
  <2> DEFINE T == From(s, c) \ R
             d == Foremost(s, T)
  <2>1. Range(s) \cap T = T
    BY DEF From
  <2>2. d \in T /\ \A y \in T : Before(s, d, y)
    <3> HIDE DEF T
    <3> QED BY <1>8, <2>1, ForemostFacts DEF T
  <2>3. Before(s, c, d)
    BY <2>2 DEF From
  <2>4. \A y \in Range(s) \ R : Before(s, d, y) => y \in From(s, c)
    BY <1>1, <2>3 DEF From
  <2> QED BY <2>2, <2>4
<1>9. ASSUME From(s, c) \ out # {}
      PROVE  LET d == Foremost(s, From(s, c) \ out) IN
             d \in From(s, c) \ out /\ From(t, d) = From(s, c) \ out
  <2>1. PICK d : d = Foremost(s, From(s, c) \ out)
    OBVIOUS
  <2>2. d \in From(s, c) \ out /\ \A y \in Range(s) \ out : Before(s, d, y) <=> y \in From(s, c)
    BY <1>8, <1>9, <2>1
  <2>3. \A y \in From(s, c) : y \in Range(s)
    BY DEF From
  <2>4. From(t, d) = From(s, c) \ out
    BY <1>2, <1>5, <2>2, <2>3 DEF From
  <2> QED BY <2>1, <2>2, <2>4
<1>10. ASSUME From(s, c) \ {c} # {}
       PROVE  LET d == Foremost(s, From(s, c) \ {c}) IN
              d \in From(s, c) \ {c} /\ From(s, d) = From(s, c) \ {c}
  <2>1. PICK d : d = Foremost(s, From(s, c) \ {c})
    OBVIOUS
  <2>2. d \in From(s, c) \ {c} /\ \A y \in Range(s) \ {c} : Before(s, d, y) <=> y \in From(s, c)
    BY <1>8, <1>10, <2>1
  <2>3. \A y \in From(s, c) : y \in Range(s) /\ Before(s, c, y)
    BY DEF From
  <2>4. ~Before(s, d, c)
    BY <1>1, <2>2, <2>3
  <2>5. From(s, d) = From(s, c) \ {c}
    BY <2>2, <2>3, <2>4 DEF From
  <2> QED BY <2>1, <2>2, <2>5
<1> QED BY <1>6, <1>7, <1>9, <1>10 DEF t

\* One list behind another.
LEMMA ConcatFacts ==
  ASSUME NEW S, NEW p \in Seq(S), NEW s \in Seq(S)
  PROVE  /\ p \o s \in Seq(S) /\ Range(p \o s) = Range(p) \union Range(s)
         /\ Once(p) /\ Once(s) /\ Range(p) \cap Range(s) = {} =>
              Once(p \o s) /\ \A c \in Range(s) : From(p \o s, c) = From(s, c)
<1> DEFINE t == p \o s
           n == Len(p)
<1>1. /\ t \in Seq(S) /\ Len(t) = n + Len(s) /\ n \in Nat /\ Len(s) \in Nat
      /\ DOMAIN t = 1..Len(t) /\ DOMAIN p = 1..n /\ DOMAIN s = 1..Len(s)
      /\ \A k \in 1..n : t[k] = p[k]
      /\ \A k \in 1..Len(s) : t[n + k] = s[k]
  OBVIOUS
<1> HIDE DEF t, n
<1>2. ASSUME NEW k \in 1..Len(t)
      PROVE  \/ k \in 1..n /\ t[k] = p[k]
             \/ k - n \in 1..Len(s) /\ t[k] = s[k - n]
  <2>1. CASE k <= n
    BY <1>1, <2>1
  <2>2. CASE k > n
    <3>1. k - n \in 1..Len(s) /\ n + (k - n) = k
      BY <1>1, <2>2
    <3> QED BY <1>1, <3>1
  <2> QED BY <1>1, <2>1, <2>2
<1>3. /\ \A k \in 1..n : k \in 1..Len(t) /\ t[k] = p[k]
      /\ \A k \in 1..Len(s) : n + k \in 1..Len(t) /\ t[n + k] = s[k]
  BY <1>1
<1>4. Range(t) = Range(p) \union Range(s)
  <2>1. ASSUME NEW x \in Range(t) PROVE x \in Range(p) \union Range(s)
    <3>1. PICK k \in 1..Len(t) : t[k] = x
      BY <1>1 DEF Range
    <3> QED BY <1>1, <1>2, <3>1 DEF Range
  <2>2. Range(p) \subseteq Range(t)
    BY <1>1, <1>3 DEF Range
  <2>3. ASSUME NEW k \in 1..Len(s) PROVE s[k] \in Range(t)
    BY <1>1, <1>3 DEF Range
  <2>4. Range(s) \subseteq Range(t)
    BY <1>1, <2>3 DEF Range
  <2> QED BY <2>1, <2>2, <2>4
<1>5. ASSUME Once(p), Once(s), Range(p) \cap Range(s) = {}
      PROVE  Once(t) /\ \A c \in Range(s) : From(t, c) = From(s, c)
  <2>1. \A j \in 1..n, k \in 1..Len(s) : p[j] # s[k]
    BY <1>1, <1>5 DEF Range
  <2>2. ASSUME NEW j \in 1..Len(t), NEW k \in 1..Len(t), t[j] = t[k] PROVE j = k
    <3>1. CASE j \in 1..n /\ t[j] = p[j] /\ k \in 1..n /\ t[k] = p[k]
      BY <1>1, <1>5, <2>2, <3>1 DEF Once
    <3>2. CASE j - n \in 1..Len(s) /\ t[j] = s[j - n] /\ k - n \in 1..Len(s) /\ t[k] = s[k - n]
      <4>1. j - n = k - n
        BY <1>1, <1>5, <2>2, <3>2 DEF Once
      <4> QED BY <1>1, <4>1
    <3> QED BY <1>2, <2>1, <2>2, <3>1, <3>2
  <2>3. Once(t)
    BY <1>1, <2>2 DEF Once
  <2>4. ASSUME NEW c \in Range(s), NEW y PROVE Before(t, c, y) <=> Before(s, c, y)
    <3>1. ASSUME Before(t, c, y) PROVE Before(s, c, y)
      <4>1. PICK j \in 1..Len(t), k \in 1..Len(t) : j <= k /\ t[j] = c /\ t[k] = y
        BY <1>1, <3>1 DEF Before
      <4>2. PICK i \in 1..Len(s) : s[i] = c
        BY <1>1 DEF Range
      <4>3. j = n + i
        <5>1. n + i \in 1..Len(t) /\ t[n + i] = t[j]
          BY <1>3, <4>1, <4>2
        <5> QED BY <2>2, <4>1, <5>1
      <4>4. k - n \in 1..Len(s) /\ i <= k - n /\ n + (k - n) = k
        BY <1>1, <4>1, <4>2, <4>3
      <4>5. s[k - n] = y
        BY <1>1, <4>1, <4>4
      <4> QED BY <1>1, <4>2, <4>4, <4>5 DEF Before
    <3>2. ASSUME Before(s, c, y) PROVE Before(t, c, y)
      <4>1. PICK j \in 1..Len(s), k \in 1..Len(s) : j <= k /\ s[j] = c /\ s[k] = y
        BY <1>1, <3>2 DEF Before
      <4>2. n + j <= n + k
        BY <1>1, <4>1
      <4> QED BY <1>1, <1>3, <4>1, <4>2 DEF Before
    <3> QED BY <3>1, <3>2
  <2>5. \A c \in Range(s) : \A y : Before(s, c, y) => y \in Range(s) /\ y \in Range(t)
    BY <1>4, BeforeFacts
  <2>6. \A c \in Range(s) : From(t, c) = From(s, c)
    BY <1>4, <2>4, <2>5 DEF From
  <2> QED BY <2>3, <2>6
<1> QED BY <1>1, <1>4, <1>5 DEF t

\* A list of one, and a list to whose head, or end, one is put.
LEMMA OneFacts ==
  ASSUME NEW S, NEW c \in S
  PROVE  <<c>> \in Seq(S) /\ Range(<<c>>) = {c} /\ Once(<<c>>)
<1>1. <<c>> \in Seq(S) /\ DOMAIN <<c>> = {1} /\ <<c>>[1] = c
  OBVIOUS
<1>2. Range(<<c>>) = {c}
  BY <1>1 DEF Range
<1> QED BY <1>1, <1>2 DEF Once

LEMMA PutFacts ==
  ASSUME NEW S, NEW s \in Seq(S), NEW c \in S
  PROVE  LET t == <<c>> \o s IN
         /\ t \in Seq(S) /\ Range(t) = Range(s) \union {c}
         /\ Once(s) /\ c \notin Range(s) =>
              Once(t) /\ \A d \in Range(s) : From(t, d) = From(s, d)
<1>1. PICK p : p = <<c>>
  OBVIOUS
<1>2. p \in Seq(S) /\ Range(p) = {c} /\ Once(p)
  BY <1>1, OneFacts
<1>3. PICK t : t = p \o s
  OBVIOUS
<1>4. /\ t \in Seq(S) /\ Range(t) = Range(p) \union Range(s)
      /\ Once(s) /\ Range(p) \cap Range(s) = {} =>
           Once(t) /\ \A d \in Range(s) : From(t, d) = From(s, d)
  BY <1>2, <1>3, ConcatFacts
<1> QED BY <1>1, <1>2, <1>3, <1>4

LEMMA AppendFacts ==
  ASSUME NEW S, NEW s \in Seq(S), NEW c \in S
  PROVE  /\ Append(s, c) \in Seq(S) /\ Range(Append(s, c)) = Range(s) \union {c}
         /\ Once(s) /\ c \notin Range(s) => Once(Append(s, c))
<1> DEFINE t == Append(s, c)
<1>1. /\ Len(t) = Len(s) + 1 /\ Len(s) \in Nat /\ t[Len(t)] = c /\ t \in Seq(S)
      /\ DOMAIN t = 1..Len(t) /\ DOMAIN s = 1..Len(s)
      /\ \A k \in 1..Len(s) : t[k] = s[k]
  OBVIOUS
<1> HIDE DEF t
<1>2. \A k \in 1..Len(t) : k \in 1..Len(s) \/ k = Len(t)
  BY <1>1
<1>3. Len(t) \in 1..Len(t) /\ \A k \in 1..Len(s) : k \in 1..Len(t)
  BY <1>1
<1>4. Range(t) = Range(s) \union {c}
  BY <1>1, <1>2, <1>3 DEF Range
<1>5. ASSUME Once(s), c \notin Range(s) PROVE Once(t)
  BY <1>1, <1>2, <1>5 DEF Once, Range
<1> QED BY <1>1, <1>4, <1>5 DEF t

\* A list backward is of the same elements.
LEMMA BackwardFacts ==
  ASSUME NEW S, NEW s \in Seq(S)
  PROVE  /\ Backward(s) \in Seq(S) /\ Range(Backward(s)) = Range(s)
         /\ Once(s) => Once(Backward(s))
<1> DEFINE t == Backward(s)
           n == Len(s)
<1>1. n \in Nat /\ DOMAIN s = 1..n
  OBVIOUS
<1>2. \A k \in 1..n : n + 1 - k \in 1..n /\ n + 1 - (n + 1 - k) = k
  BY <1>1
<1>3. t = [k \in 1..n |-> s[n + 1 - k]]
  BY DEF Backward
<1>4. t \in Seq(S)
  <2>1. \A k \in 1..n : s[n + 1 - k] \in S
    BY <1>1, <1>2
  <2> QED BY <1>1, <1>3, <2>1
<1>5. DOMAIN t = 1..n /\ \A k \in 1..n : t[k] = s[n + 1 - k]
  BY <1>3
<1> HIDE DEF t, n
<1>6. Range(t) = Range(s)
  BY <1>1, <1>2, <1>5 DEF Range
<1>7. ASSUME Once(s) PROVE Once(t)
  <2> SUFFICES ASSUME NEW j \in 1..n, NEW k \in 1..n, s[n + 1 - j] = s[n + 1 - k] PROVE j = k
    BY <1>5 DEF Once
  <2>1. n + 1 - j = n + 1 - k
    BY <1>1, <1>2, <1>7 DEF Once
  <2> QED BY <1>1, <2>1
<1> QED BY <1>4, <1>6, <1>7 DEF t

\* Lists joined are a list of what they are lists of.
LEMMA JoinedFacts ==
  ASSUME NEW S, NEW ss, ss \in Seq(Seq(S))
  PROVE  Joined(ss) \in Seq(S)
<1> DEFINE Upto(f, k) == IF k = 0 THEN <<>> ELSE f[k-1] \o ss[k]
           Q == Seq(S)
           none == <<>>
<1>1. PICK n \in Nat : n = Len(ss)
  OBVIOUS
<1>2. PICK upto : upto = (CHOOSE f : f = [k \in 0..n |-> Upto(f, k)])
  OBVIOUS
<1>3. Joined(ss) = upto[n]
  BY <1>1, <1>2, Zenon DEF Joined
<1>4. none \in Q /\ \A k \in 1..n, q \in Q : q \o ss[k] \in Q
  <2>1. \A k \in 1..n : ss[k] \in Q
    BY <1>1
  <2> QED BY <2>1
<1>5. ASSUME NEW f, NEW k \in 1..n PROVE Upto(f, k) = f[k-1] \o ss[k]
  <2>1. k # 0
    OBVIOUS
  <2> QED BY <2>1, Zenon
<1>6. ASSUME NEW f PROVE Upto(f, 0) = none
  OBVIOUS
<1>7. ASSUME NEW k \in 0..n, k # 0 PROVE k \in 1..n /\ k - 1 \in 0..n
  BY <1>7
<1> HIDE DEF Upto, Q, none
<1>8. PICK f \in [0..n -> Q] : f[0] = none /\ \A k \in 1..n : f[k] = f[k-1] \o ss[k]
  <2> DEFINE step == [k \in 1..n |-> [q \in Q |-> q \o ss[k]]]
  <2>1. step \in [1..n -> [Q -> Q]]
    BY <1>4
  <2>2. ASSUME NEW q \in Q, NEW k \in 1..n PROVE step[k][q] = q \o ss[k]
    OBVIOUS
  <2>3. ASSUME NEW k \in 1..n PROVE k - 1 \in 0..n
    OBVIOUS
  <2>4. none \in Q
    BY <1>4
  <2> HIDE DEF step
  <2>5. PICK f \in [0..n -> Q] : f[0] = none /\ \A k \in 1..n : f[k] = step[k][f[k-1]]
    BY ONLY <2>1, <2>4, n \in Nat, Recursion
  <2>6. \A k \in 1..n : f[k-1] \in Q
    BY ONLY <2>3, <2>5
  <2>7. \A k \in 1..n : f[k] = f[k-1] \o ss[k]
    BY ONLY <2>2, <2>5, <2>6
  <2> QED BY ONLY <2>5, <2>7
<1>9. f = [k \in 0..n |-> Upto(f, k)]
  <2>1. \A k \in 0..n : f[k] = Upto(f, k)
    BY <1>5, <1>6, <1>7, <1>8
  <2> QED BY <1>8, <2>1
<1>10. upto = [k \in 0..n |-> Upto(upto, k)]
  BY <1>2, <1>9
<1>11. /\ upto[0] = none
       /\ \A k \in 1..n : upto[k] = upto[k-1] \o ss[k]
  <2>1. \A k \in 0..n : upto[k] = Upto(upto, k)
    BY <1>10
  <2>2. 0 \in 0..n /\ \A k \in 1..n : k \in 0..n
    OBVIOUS
  <2> QED BY <1>5, <1>6, <2>1, <2>2
<1> DEFINE T == {k \in 0..n : upto[k] \in Q}
<1>12. 0 \in T
  BY <1>4, <1>11
<1>13. ASSUME NEW k \in T, k \in 0..(n-1) PROVE k + 1 \in T
  <2>1. k + 1 \in 1..n /\ k + 1 \in 0..n /\ (k + 1) - 1 = k
    BY <1>13
  <2>2. upto[k+1] = upto[k] \o ss[k+1]
    BY <1>11, <2>1
  <2> QED BY <1>4, <2>1, <2>2
<1>14. 0..n \subseteq T
  <2> HIDE DEF T
  <2> QED BY <1>12, <1>13, Induct
<1>15. upto[n] \in Q
  BY <1>14
<1> QED BY <1>3, <1>15 DEF Q
=============================================================================
