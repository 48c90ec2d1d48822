----------------------------- MODULE SumsProofs -----------------------------
(***************************************************************************)
(* Lemmas about remainders, and about sums and other recursions on         *)
(* numbers, by induction.                                                  *)
(*                                                                         *)
(* The induction theorems of the library take the property as an operator, *)
(* which no prover here can instantiate; Induction takes it as a set, that *)
(* of the numbers that have it.  A recursive function is the value of a    *)
(* CHOOSE: it equals its body once a function that does is exhibited.      *)
(***************************************************************************)
EXTENDS Sums, WellFoundedInduction, TLAPS

Below == {p \in Nat \X Nat : p[1] < p[2]}

LEMMA BelowPair == \A m, n \in Nat : <<m, n>> \in Below <=> m < n
BY DEF Below

LEMMA BelowWellFounded == IsWellFoundedOn(Below, Nat)
BY NatLessThanWellFounded DEF OpToRel, Below

LEMMA Induction ==
    ASSUME NEW S, 0 \in S, \A n \in Nat : n \in S => n + 1 \in S
    PROVE  Nat \subseteq S
<1> DEFINE T == Nat \ S
<1> SUFFICES ASSUME T # {} PROVE FALSE
  OBVIOUS
<1>1. T \subseteq Nat
  OBVIOUS
<1> HIDE DEF T
<1>2. PICK m \in T : \A n \in T : ~(<<n, m>> \in Below)
  BY <1>1, BelowWellFounded, WFMin
<1>3. m \in Nat /\ m # 0
  BY <1>1 DEF T
<1>4. m - 1 \in Nat /\ m - 1 < m /\ (m - 1) + 1 = m
  BY <1>3
<1>5. m - 1 \notin T
  BY <1>2, <1>3, <1>4, BelowPair
<1>6. m \in S
  BY <1>3, <1>4, <1>5 DEF T
<1> QED
  BY <1>2, <1>6 DEF T

(* The same up to a bound. *)
LEMMA BoundedInduction ==
    ASSUME NEW k \in Nat, NEW S, 0 \in S,
           \A n \in 0 .. k - 1 : n \in S => n + 1 \in S
    PROVE  0 .. k \subseteq S
<1> DEFINE T == {n \in Nat : n <= k => n \in S}
<1>1. 0 \in T
  OBVIOUS
<1>2. ASSUME NEW n \in Nat, n \in T PROVE n + 1 \in T
  BY <1>2
<1>3. Nat \subseteq T
  <2> HIDE DEF T
  <2> QED
    BY <1>1, <1>2, Induction
<1> QED
  BY <1>3

(* A remainder, and that of the next number. *)
LEMMA NextRemainder ==
    ASSUME NEW n \in Nat, NEW k \in Nat, 0 < k
    PROVE  /\ n % k \in 0 .. k - 1
           /\ (n + 1) % k = IF (n % k) + 1 = k THEN 0 ELSE (n % k) + 1
<1> DEFINE q == n \div k r == n % k p == (n + 1) \div k t == (n + 1) % k
<1>1. /\ q \in Int /\ r \in 0 .. k - 1 /\ n = q * k + r
      /\ p \in Int /\ t \in 0 .. k - 1 /\ n + 1 = p * k + t
  BY SMTT(30)
<1> HIDE DEF q, r, p, t
<1>2. p * k - q * k = (p - q) * k
  BY <1>1
<1>3. (p - q) * k = r + 1 - t
  BY <1>1, <1>2
<1>4. p - q \in {0, 1}
  <2>1. ASSUME p - q >= 2 PROVE FALSE
    <3>1. (p - q) * k >= 2 * k
      BY <1>1, <2>1
    <3> QED
      BY <1>1, <1>3, <3>1
  <2>2. ASSUME p - q <= -1 PROVE FALSE
    <3>1. (p - q) * k <= -k
      BY <1>1, <2>2
    <3> QED
      BY <1>1, <1>3, <3>1
  <2> QED
    BY <1>1, <2>1, <2>2
<1>5. t = IF r + 1 = k THEN 0 ELSE r + 1
  <2>1. CASE p - q = 0
    BY <1>1, <1>3, <2>1
  <2>2. CASE p - q = 1
    BY <1>1, <1>3, <2>2
  <2> QED
    BY <1>4, <2>1, <2>2
<1> QED
  BY <1>1, <1>5 DEF r, t

-----------------------------------------------------------------------------
(* The functions that recursions define. *)

(* A function h applied again and again to a, of the set A. *)
Iterating(s, A, h, a, k) ==
    /\ s \in [0 .. k -> A]
    /\ s[0] = a
    /\ \A n \in 1 .. k : s[n] = h[s[n - 1]]

LEMMA Iterates ==
    ASSUME NEW A, NEW h, \A i \in A : h[i] \in A, NEW a \in A, NEW k \in Nat
    PROVE  \E s : Iterating(s, A, h, a, k)
<1> USE DEF Iterating
<1> DEFINE S == {n \in Nat : \E s : Iterating(s, A, h, a, n)}
<1>1. 0 \in S
  <2> DEFINE s == [n \in 0 .. 0 |-> a]
  <2>1. Iterating(s, A, h, a, 0)
    OBVIOUS
  <2> QED
    BY <2>1
<1>2. ASSUME NEW n \in Nat, n \in S PROVE n + 1 \in S
  <2>1. PICK s : Iterating(s, A, h, a, n)
    BY <1>2
  <2> DEFINE r == [i \in 0 .. n + 1 |-> IF i = n + 1 THEN h[s[n]] ELSE s[i]]
  <2>2. r \in [0 .. n + 1 -> A] /\ r[0] = a
    BY <2>1
  <2>3. ASSUME NEW i \in 1 .. n + 1 PROVE r[i] = h[r[i - 1]]
    <3>1. CASE i = n + 1
      BY <3>1
    <3>2. CASE i # n + 1
      BY <2>1, <3>2
    <3> QED
      BY <3>1, <3>2
  <2> HIDE DEF r
  <2>4. Iterating(r, A, h, a, n + 1)
    BY <2>2, <2>3
  <2> QED
    BY <2>4
<1>3. k \in S
  <2> HIDE DEF S
  <2> QED
    BY <1>1, <1>2, Induction
<1> QED
  BY <1>3

(* The partial sums of f. *)
Adds(sum, f, k) ==
    /\ sum = [n \in 0 .. k |-> sum[n]]
    /\ sum[0] = 0
    /\ \A n \in 1 .. k : sum[n] = sum[n - 1] + f[n]

LEMMA PartialSums == ASSUME NEW f, NEW k \in Nat PROVE \E sum : Adds(sum, f, k)
<1> DEFINE S == {n \in Nat : \E sum : Adds(sum, f, n)}
<1>1. 0 \in S
  <2> DEFINE sum == [n \in 0 .. 0 |-> 0]
  <2>1. Adds(sum, f, 0)
    BY DEF Adds
  <2> QED
    BY <2>1
<1>2. ASSUME NEW n \in Nat, n \in S PROVE n + 1 \in S
  <2>1. PICK sum : Adds(sum, f, n)
    BY <1>2
  <2> DEFINE more == [i \in 0 .. n + 1 |->
                        IF i = n + 1 THEN sum[n] + f[n + 1] ELSE sum[i]]
  <2>2. more = [i \in 0 .. n + 1 |-> more[i]]
    OBVIOUS
  <2>3. more[0] = 0
    BY <2>1 DEF Adds
  <2>4. ASSUME NEW i \in 1 .. n + 1 PROVE more[i] = more[i - 1] + f[i]
    <3>1. CASE i = n + 1
      BY <3>1
    <3>2. CASE i # n + 1
      <4>1. i \in 1 .. n /\ i - 1 \in 0 .. n /\ i \in 0 .. n
        BY <3>2
      <4>2. sum[i] = sum[i - 1] + f[i]
        BY <2>1, <4>1 DEF Adds
      <4>3. more[i] = sum[i] /\ more[i - 1] = sum[i - 1]
        BY <4>1
      <4> HIDE DEF more
      <4> QED
        BY <4>2, <4>3
    <3> QED
      BY <3>1, <3>2
  <2> HIDE DEF more
  <2>5. Adds(more, f, n + 1)
    BY <2>2, <2>3, <2>4 DEF Adds
  <2> QED
    BY <2>5
<1>3. k \in S
  <2> HIDE DEF S
  <2> QED
    BY <1>1, <1>2, Induction
<1> QED
  BY <1>3

LEMMA SumIsAdded ==
    ASSUME NEW f, NEW k \in Nat
    PROVE  \E sum : Adds(sum, f, k) /\ SumTo(f, k) = sum[k]
<1> DEFINE Solves(g) ==
        g = [n \in 0 .. k |-> IF n = 0 THEN 0 ELSE g[n - 1] + f[n]]
           sum == CHOOSE g : Solves(g)
<1>1. PICK g : Adds(g, f, k)
  BY PartialSums
<1>2. Solves(g)
  <2> DEFINE body == [n \in 0 .. k |-> IF n = 0 THEN 0 ELSE g[n - 1] + f[n]]
  <2>1. ASSUME NEW n \in 0 .. k PROVE g[n] = body[n]
    <3>1. CASE n = 0
      BY <1>1, <3>1 DEF Adds
    <3>2. CASE n # 0
      <4>1. n \in 1 .. k
        BY <3>2
      <4> QED
        BY <1>1, <3>2, <4>1 DEF Adds
    <3> QED
      BY <3>1, <3>2
  <2>2. g = [n \in 0 .. k |-> g[n]] /\ body = [n \in 0 .. k |-> body[n]]
    BY <1>1 DEF Adds
  <2> HIDE DEF body
  <2>3. g = body
    BY <2>1, <2>2
  <2> QED
    BY <2>3 DEF body
<1>3. Solves(sum)
  BY <1>2
<1>4. SumTo(f, k) = sum[k]
  BY DEF SumTo
<1> HIDE DEF sum
<1>5. Adds(sum, f, k)
  BY <1>3 DEF Adds
<1> QED
  BY <1>4, <1>5

(* A sum is that of its last term and of the others. *)
LEMMA SumStep ==
    ASSUME NEW f
    PROVE  /\ SumTo(f, 0) = 0
           /\ \A k \in Nat : SumTo(f, k + 1) = SumTo(f, k) + f[k + 1]
<1>1. SumTo(f, 0) = 0
  BY SumIsAdded DEF Adds
<1>2. ASSUME NEW k \in Nat PROVE SumTo(f, k + 1) = SumTo(f, k) + f[k + 1]
  <2>1. PICK s : Adds(s, f, k) /\ SumTo(f, k) = s[k]
    BY SumIsAdded
  <2>2. PICK t : Adds(t, f, k + 1) /\ SumTo(f, k + 1) = t[k + 1]
    BY SumIsAdded
  <2> DEFINE S == {n \in Nat : s[n] = t[n]}
  <2>3. 0 \in S
    BY <2>1, <2>2 DEF Adds
  <2>4. ASSUME NEW n \in 0 .. k - 1, n \in S PROVE n + 1 \in S
    <3>1. n + 1 \in 1 .. k /\ n + 1 \in 1 .. k + 1 /\ (n + 1) - 1 = n
      OBVIOUS
    <3>2. s[n + 1] = s[n] + f[n + 1] /\ t[n + 1] = t[n] + f[n + 1]
      BY <2>1, <2>2, <3>1 DEF Adds
    <3> QED
      BY <2>4, <3>2
  <2>5. k \in S
    <3> HIDE DEF S
    <3>1. 0 .. k \subseteq S
      BY <2>3, <2>4, BoundedInduction
    <3> QED
      BY <3>1
  <2>6. t[k + 1] = t[k] + f[k + 1]
    <3>1. k + 1 \in 1 .. k + 1 /\ (k + 1) - 1 = k
      OBVIOUS
    <3> QED
      BY <2>2, <3>1 DEF Adds
  <2> QED
    BY <2>1, <2>2, <2>5, <2>6
<1> QED
  BY <1>1, <1>2

-----------------------------------------------------------------------------
(* Sums of integers. *)

LEMMA SumType ==
    ASSUME NEW k \in Nat, NEW f, \A n \in 1 .. k : f[n] \in Int
    PROVE  \A n \in 0 .. k : SumTo(f, n) \in Int
<1> DEFINE S == {n \in Nat : SumTo(f, n) \in Int}
<1>1. 0 \in S
  BY SumStep
<1>2. ASSUME NEW n \in 0 .. k - 1, n \in S PROVE n + 1 \in S
  <2>1. n + 1 \in 1 .. k /\ n \in Nat
    OBVIOUS
  <2> QED
    BY <1>2, <2>1, SumStep
<1>3. 0 .. k \subseteq S
  <2> HIDE DEF S
  <2> QED
    BY <1>1, <1>2, BoundedInduction
<1> QED
  BY <1>3

LEMMA SumSame ==
    ASSUME NEW k \in Nat, NEW f, NEW g, \A n \in 1 .. k : f[n] = g[n]
    PROVE  SumTo(f, k) = SumTo(g, k)
<1> DEFINE S == {n \in Nat : SumTo(f, n) = SumTo(g, n)}
<1>1. 0 \in S
  BY SumStep
<1>2. ASSUME NEW n \in 0 .. k - 1, n \in S PROVE n + 1 \in S
  <2>1. n + 1 \in 1 .. k /\ n \in Nat
    OBVIOUS
  <2>2. f[n + 1] = g[n + 1]
    BY <2>1
  <2>3. /\ SumTo(f, n + 1) = SumTo(f, n) + f[n + 1]
        /\ SumTo(g, n + 1) = SumTo(g, n) + g[n + 1]
    BY <2>1, SumStep
  <2> QED
    BY <1>2, <2>1, <2>2, <2>3
<1>3. 0 .. k \subseteq S
  <2> HIDE DEF S
  <2> QED
    BY <1>1, <1>2, BoundedInduction
<1> QED
  BY <1>3

LEMMA SumScale ==
    ASSUME NEW k \in Nat, NEW a \in Int, NEW f, NEW h,
           \A n \in 1 .. k : f[n] \in Int /\ h[n] = a * f[n]
    PROVE  SumTo(h, k) = a * SumTo(f, k)
<1> DEFINE S == {n \in Nat : SumTo(h, n) = a * SumTo(f, n)}
<1>1. 0 \in S
  BY SumStep
<1>2. ASSUME NEW n \in 0 .. k - 1, n \in S PROVE n + 1 \in S
  <2>1. n + 1 \in 1 .. k /\ n \in Nat /\ n \in 0 .. k
    OBVIOUS
  <2>2. f[n + 1] \in Int /\ h[n + 1] = a * f[n + 1] /\ SumTo(f, n) \in Int
    BY <2>1, SumType
  <2>3. /\ SumTo(f, n + 1) = SumTo(f, n) + f[n + 1]
        /\ SumTo(h, n + 1) = SumTo(h, n) + h[n + 1]
    BY <2>1, SumStep
  <2>4. a * (SumTo(f, n) + f[n + 1]) = a * SumTo(f, n) + a * f[n + 1]
    BY <2>2
  <2> QED
    BY <1>2, <2>1, <2>2, <2>3, <2>4
<1>3. 0 .. k \subseteq S
  <2> HIDE DEF S
  <2> QED
    BY <1>1, <1>2, BoundedInduction
<1> QED
  BY <1>3

LEMMA SumPlus ==
    ASSUME NEW k \in Nat, NEW f, NEW g, NEW h,
           \A n \in 1 .. k : f[n] \in Int /\ g[n] \in Int /\ h[n] = f[n] + g[n]
    PROVE  SumTo(h, k) = SumTo(f, k) + SumTo(g, k)
<1> DEFINE S == {n \in Nat : SumTo(h, n) = SumTo(f, n) + SumTo(g, n)}
<1>1. 0 \in S
  BY SumStep
<1>2. ASSUME NEW n \in 0 .. k - 1, n \in S PROVE n + 1 \in S
  <2>1. n + 1 \in 1 .. k /\ n \in Nat /\ n \in 0 .. k
    OBVIOUS
  <2>2. /\ f[n + 1] \in Int /\ g[n + 1] \in Int /\ h[n + 1] = f[n + 1] + g[n + 1]
        /\ SumTo(f, n) \in Int /\ SumTo(g, n) \in Int
    BY <2>1, SumType
  <2>3. /\ SumTo(f, n + 1) = SumTo(f, n) + f[n + 1]
        /\ SumTo(g, n + 1) = SumTo(g, n) + g[n + 1]
        /\ SumTo(h, n + 1) = SumTo(h, n) + h[n + 1]
    BY <2>1, SumStep
  <2> QED
    BY <1>2, <2>1, <2>2, <2>3
<1>3. 0 .. k \subseteq S
  <2> HIDE DEF S
  <2> QED
    BY <1>1, <1>2, BoundedInduction
<1> QED
  BY <1>3

(* The first term apart, and the other way round. *)
LEMMA SumFirst ==
    ASSUME NEW k \in Nat, NEW f, NEW g, \A n \in 1 .. k + 1 : f[n] \in Int,
           \A n \in 1 .. k : g[n] = f[n + 1]
    PROVE  SumTo(f, k + 1) = f[1] + SumTo(g, k)
<1> DEFINE S == {n \in Nat : SumTo(f, n + 1) = f[1] + SumTo(g, n)}
<1>1. f[1] \in Int
  OBVIOUS
<1>2. 0 \in S
  <2>1. SumTo(f, 0 + 1) = SumTo(f, 0) + f[0 + 1] /\ SumTo(f, 0) = 0 /\ SumTo(g, 0) = 0
    BY SumStep
  <2> QED
    BY <1>1, <2>1
<1>3. ASSUME NEW n \in 0 .. k - 1, n \in S PROVE n + 1 \in S
  <2>1. n + 1 \in 1 .. k /\ n \in Nat /\ n \in 0 .. k /\ n + 1 \in Nat
        /\ (n + 1) + 1 \in 1 .. k + 1
    OBVIOUS
  <2>2. g[n + 1] = f[(n + 1) + 1] /\ f[(n + 1) + 1] \in Int
    BY <2>1
  <2>3. SumTo(g, n) \in Int
    <3>1. \A i \in 1 .. k : g[i] \in Int
      OBVIOUS
    <3> QED
      BY <2>1, <3>1, SumType
  <2>4. /\ SumTo(f, (n + 1) + 1) = SumTo(f, n + 1) + f[(n + 1) + 1]
        /\ SumTo(g, n + 1) = SumTo(g, n) + g[n + 1]
    BY <2>1, SumStep
  <2> QED
    BY <1>1, <1>3, <2>1, <2>2, <2>3, <2>4
<1>4. 0 .. k \subseteq S
  <2> HIDE DEF S
  <2> QED
    BY <1>2, <1>3, BoundedInduction
<1> QED
  BY <1>4

LEMMA SumReverse ==
    ASSUME NEW k \in Nat, NEW f, \A n \in 1 .. k : f[n] \in Int
    PROVE  SumTo([n \in 1 .. k |-> f[k + 1 - n]], k) = SumTo(f, k)
<1> DEFINE back(j) == [n \in 1 .. j |-> f[j + 1 - n]]
           S == {j \in Nat : SumTo(back(j), j) = SumTo(f, j)}
<1>1. 0 \in S
  BY SumStep
<1>2. ASSUME NEW j \in 0 .. k - 1, j \in S PROVE j + 1 \in S
  <2>1. j \in Nat /\ j + 1 \in 1 .. k
    OBVIOUS
  <2>2. \A n \in 1 .. j + 1 : back(j + 1)[n] \in Int
    OBVIOUS
  <2>3. \A n \in 1 .. j : back(j)[n] = back(j + 1)[n + 1]
    OBVIOUS
  <2>4. back(j + 1)[1] = f[j + 1]
    OBVIOUS
  <2>5. SumTo(back(j), j) = SumTo(f, j)
    BY <1>2
  <2> HIDE DEF back
  <2>6. SumTo(back(j + 1), j + 1) = f[j + 1] + SumTo(f, j)
    BY <2>1, <2>2, <2>3, <2>4, <2>5, SumFirst
  <2>7. SumTo(f, j + 1) = SumTo(f, j) + f[j + 1]
    BY <2>1, SumStep
  <2>8. SumTo(f, j) \in Int /\ f[j + 1] \in Int
    BY <2>1, SumType
  <2> QED
    BY <2>1, <2>6, <2>7, <2>8
<1>3. 0 .. k \subseteq S
  <2> HIDE DEF S
  <2> QED
    BY <1>1, <1>2, BoundedInduction
<1> QED
  BY <1>3

(* The sums of the first numbers and of their squares. *)
LEMMA SumOfNumbers ==
    ASSUME NEW k \in Nat, NEW f, NEW g,
           \A n \in 1 .. k : f[n] = n /\ g[n] = n * n
    PROVE  /\ 2 * SumTo(f, k) = k * (k + 1)
           /\ 6 * SumTo(g, k) = k * (k + 1) * (2 * k + 1)
<1> DEFINE S == {n \in Nat : /\ 2 * SumTo(f, n) = n * (n + 1)
                             /\ 6 * SumTo(g, n) = n * (n + 1) * (2 * n + 1)}
<1>1. 0 \in S
  BY SumStep
<1>2. ASSUME NEW n \in 0 .. k - 1, n \in S PROVE n + 1 \in S
  <2>1. n + 1 \in 1 .. k /\ n \in Nat /\ n \in 0 .. k
    OBVIOUS
  <2>2. f[n + 1] = n + 1 /\ g[n + 1] = (n + 1) * (n + 1)
    BY <2>1
  <2>3. SumTo(f, n) \in Int /\ SumTo(g, n) \in Int
    BY <2>1, SumType
  <2>4. /\ SumTo(f, n + 1) = SumTo(f, n) + f[n + 1]
        /\ SumTo(g, n + 1) = SumTo(g, n) + g[n + 1]
    BY <2>1, SumStep
  <2>5. 2 * SumTo(f, n) = n * (n + 1) /\ 6 * SumTo(g, n) = n * (n + 1) * (2 * n + 1)
    BY <1>2
  <2>6. 2 * SumTo(f, n + 1) = (n + 1) * ((n + 1) + 1)
    BY <2>1, <2>2, <2>3, <2>4, <2>5
  <2>7. 6 * SumTo(g, n + 1) = n * (n + 1) * (2 * n + 1) + 6 * ((n + 1) * (n + 1))
    BY <2>1, <2>2, <2>3, <2>4, <2>5
  <2>8. n * (n + 1) * (2 * n + 1) + 6 * ((n + 1) * (n + 1))
           = (n + 1) * ((n + 1) + 1) * (2 * (n + 1) + 1)
    BY <2>1
  <2> QED
    BY <2>1, <2>6, <2>7, <2>8
<1>3. 0 .. k \subseteq S
  <2> HIDE DEF S
  <2> QED
    BY <1>1, <1>2, BoundedInduction
<1> QED
  BY <1>3

LEMMA SumConstant ==
    ASSUME NEW k \in Nat, NEW a \in Int, NEW f, \A n \in 1 .. k : f[n] = a
    PROVE  SumTo(f, k) = a * k
<1> DEFINE S == {n \in Nat : SumTo(f, n) = a * n}
<1>1. 0 \in S
  BY SumStep
<1>2. ASSUME NEW n \in 0 .. k - 1, n \in S PROVE n + 1 \in S
  <2>1. n + 1 \in 1 .. k /\ n \in Nat
    OBVIOUS
  <2>2. SumTo(f, n + 1) = SumTo(f, n) + f[n + 1] /\ f[n + 1] = a
    BY <2>1, SumStep
  <2>3. a * (n + 1) = a * n + a
    BY <2>1
  <2> QED
    BY <1>2, <2>1, <2>2, <2>3
<1>3. 0 .. k \subseteq S
  <2> HIDE DEF S
  <2> QED
    BY <1>1, <1>2, BoundedInduction
<1> QED
  BY <1>3

LEMMA SumLinear ==
    ASSUME NEW k \in Nat, NEW a \in Int, NEW b \in Int, NEW f, NEW g, NEW h,
           \A n \in 1 .. k :
               f[n] \in Int /\ g[n] \in Int /\ h[n] = a * f[n] + b * g[n]
    PROVE  SumTo(h, k) = a * SumTo(f, k) + b * SumTo(g, k)
<1> DEFINE p == [n \in 1 .. k |-> a * f[n]]
           q == [n \in 1 .. k |-> b * g[n]]
<1>1. ASSUME NEW n \in 1 .. k
      PROVE  /\ p[n] = a * f[n] /\ q[n] = b * g[n]
             /\ p[n] \in Int /\ q[n] \in Int /\ h[n] = p[n] + q[n]
  <2>1. a * f[n] \in Int /\ b * g[n] \in Int
    OBVIOUS
  <2>2. p[n] = a * f[n] /\ q[n] = b * g[n]
    OBVIOUS
  <2> QED
    BY <2>1, <2>2
<1> HIDE DEF p, q
<1>2. SumTo(h, k) = SumTo(p, k) + SumTo(q, k)
  BY <1>1, SumPlus
<1>3. SumTo(p, k) = a * SumTo(f, k)
  BY <1>1, SumScale
<1>4. SumTo(q, k) = b * SumTo(g, k)
  BY <1>1, SumScale
<1> QED
  BY <1>2, <1>3, <1>4

(* The same, as the provers apply it. *)
Combines(k, a, b, f, g, h) ==
    /\ k \in Nat /\ a \in Int /\ b \in Int
    /\ \A n \in 1 .. k : f[n] \in Int /\ g[n] \in Int /\ h[n] = a * f[n] + b * g[n]

LEMMA SumCombines ==
    ASSUME NEW k, NEW a, NEW b, NEW f, NEW g, NEW h, Combines(k, a, b, f, g, h)
    PROVE  SumTo(h, k) = a * SumTo(f, k) + b * SumTo(g, k)
BY SumLinear DEF Combines

LEMMA SumBetween ==
    ASSUME NEW k \in Nat, NEW a \in Int, NEW b \in Int, NEW f,
           \A n \in 1 .. k : f[n] \in Int /\ a <= f[n] /\ f[n] <= b
    PROVE  SumTo(f, k) \in Int /\ a * k <= SumTo(f, k) /\ SumTo(f, k) <= b * k
<1> DEFINE T(n) == SumTo(f, n)
           S == {n \in Nat : n <= k => a * n <= T(n) /\ T(n) <= b * n}
<1>1. \A n \in 0 .. k : T(n) \in Int
  BY SumType
<1>2. T(0) = 0
  BY SumStep
<1>3. ASSUME NEW n \in 0 .. k - 1 PROVE T(n + 1) = T(n) + f[n + 1]
  BY SumStep
<1> HIDE DEF T
<1>4. 0 \in S
  BY <1>2
<1>5. ASSUME NEW n \in Nat, n \in S PROVE n + 1 \in S
  <2> SUFFICES ASSUME n + 1 <= k
               PROVE  a * (n + 1) <= T(n + 1) /\ T(n + 1) <= b * (n + 1)
    OBVIOUS
  <2> DEFINE x == f[n + 1] t == T(n)
  <2>1. /\ x \in Int /\ t \in Int /\ a <= x /\ x <= b
        /\ a * n <= t /\ t <= b * n /\ T(n + 1) = t + x
    BY <1>1, <1>3, <1>5
  <2> HIDE DEF x, t
  <2>2. a * (n + 1) = a * n + a /\ b * (n + 1) = b * n + b
        /\ a * n \in Int /\ b * n \in Int
    OBVIOUS
  <2> QED
    BY <2>1, <2>2
<1>6. Nat \subseteq S
  <2> HIDE DEF S
  <2> QED
    BY <1>4, <1>5, Induction
<1>7. T(k) \in Int /\ a * k <= T(k) /\ T(k) <= b * k
  BY <1>1, <1>6
<1> QED
  BY <1>7 DEF T

(* A variance is never negative: k * (x1^2 + ... + xk^2) >= (x1 + ... + xk)^2. *)
LEMMA SquaresAbove ==
    ASSUME NEW k \in Nat, NEW w, \A i \in 1 .. k : w[i] \in Int,
           NEW g, \A i \in 1 .. k : g[i] = w[i] * w[i]
    PROVE  k * SumTo(g, k) - SumTo(w, k) * SumTo(w, k) \in Nat
<1> DEFINE T(n) == SumTo(w, n)
           Q(n) == SumTo(g, n)
           D(n) == n * Q(n) - T(n) * T(n)
           S == {n \in Nat : n <= k => D(n) >= 0}
<1>1. \A i \in 1 .. k : g[i] \in Int
  OBVIOUS
<1>2. \A n \in 0 .. k : T(n) \in Int /\ Q(n) \in Int
  BY <1>1, SumType
<1>3. T(0) = 0 /\ Q(0) = 0
  BY SumStep
<1>4. ASSUME NEW n \in 0 .. k - 1
      PROVE  T(n + 1) = T(n) + w[n + 1] /\ Q(n + 1) = Q(n) + w[n + 1] * w[n + 1]
  <2>1. n \in Nat /\ n + 1 \in 1 .. k
    OBVIOUS
  <2> QED
    BY <2>1, SumStep
<1> HIDE DEF T, Q
<1>5. 0 \in S
  BY <1>3
<1>6. ASSUME NEW n \in Nat, n \in S PROVE n + 1 \in S
  <2> SUFFICES ASSUME n + 1 <= k PROVE D(n + 1) >= 0
    OBVIOUS
  <2> DEFINE x == w[n + 1] t == T(n) q == Q(n)
             e == q + n * (x * x) - 2 * (t * x)
  <2>1. x \in Int /\ t \in Int /\ q \in Int /\ T(n + 1) = t + x /\ Q(n + 1) = q + x * x
    BY <1>2, <1>4
  <2>2. n * q - t * t >= 0
    BY <1>6
  <2>3. D(n + 1) = (n + 1) * (q + x * x) - (t + x) * (t + x)
    BY <2>1
  <2> HIDE DEF x, t, q, D
  <2>4. (n + 1) * (q + x * x) - (t + x) * (t + x) = (n * q - t * t) + e
    BY <2>1
  <2>5. n * e = (n * q - t * t) + (t - n * x) * (t - n * x)
    BY <2>1
  <2>6. (t - n * x) * (t - n * x) >= 0
    <3> DEFINE y == t - n * x
    <3>1. y \in Int
      BY <2>1
    <3> HIDE DEF y
    <3>2. y * y >= 0
      BY <3>1
    <3> QED
      BY <3>2 DEF y
  <2>7. e \in Int /\ n * q - t * t \in Int /\ (t - n * x) * (t - n * x) \in Int
    BY <2>1
  <2> HIDE DEF e
  <2>8. n * e >= 0
    BY <2>2, <2>5, <2>6, <2>7
  <2>9. CASE n = 0
    <3>1. D(n + 1) = (q + x * x) - (t + x) * (t + x)
      BY <2>1, <2>3, <2>9
    <3>2. t = 0 /\ q = 0
      BY <1>3, <2>9 DEF t, q
    <3>3. D(n + 1) = x * x - x * x /\ x * x \in Int
      BY <2>1, <3>1, <3>2
    <3> QED
      BY <3>3
  <2>10. CASE n > 0
    <3>1. ASSUME e < 0 PROVE FALSE
      <4>1. n * e < 0
        BY <2>7, <2>10, <3>1
      <4> QED
        BY <2>7, <2>8, <4>1
    <3> QED
      BY <2>2, <2>3, <2>4, <2>7, <3>1
  <2> QED
    BY <2>9, <2>10
<1>7. Nat \subseteq S
  <2> HIDE DEF S
  <2> QED
    BY <1>5, <1>6, Induction
<1>8. D(k) >= 0 /\ T(k) \in Int /\ Q(k) \in Int
  BY <1>2, <1>7
<1> QED
  BY <1>8 DEF T, Q

(* Nor is it more than a quarter of the square of how far two of them are
   apart. *)
LEMMA SquaresBelow ==
    ASSUME NEW k \in Nat, NEW w, NEW lo \in Int, NEW d \in Nat,
           \A i \in 1 .. k : w[i] \in Int /\ lo <= w[i] /\ w[i] <= lo + d,
           NEW g, \A i \in 1 .. k : g[i] = w[i] * w[i]
    PROVE  4 * (k * SumTo(g, k) - SumTo(w, k) * SumTo(w, k)) <= (k * d) * (k * d)
<1> DEFINE T(n) == SumTo(w, n)
           Q(n) == SumTo(g, n)
           b == 2 * lo + d
           c == lo * (lo + d)
           S == {n \in Nat : Q(n) + n * c <= b * T(n)}
<1>1. \A i \in 1 .. k : g[i] \in Int
  OBVIOUS
<1>2. \A n \in 0 .. k : T(n) \in Int /\ Q(n) \in Int
  BY <1>1, SumType
<1>3. T(0) = 0 /\ Q(0) = 0
  BY SumStep
<1>4. ASSUME NEW n \in 0 .. k - 1
      PROVE  T(n + 1) = T(n) + w[n + 1] /\ Q(n + 1) = Q(n) + w[n + 1] * w[n + 1]
  <2>1. n \in Nat /\ n + 1 \in 1 .. k
    OBVIOUS
  <2> QED
    BY <2>1, SumStep
<1>5. b \in Int /\ c \in Int
  OBVIOUS
<1>6. ASSUME NEW x \in Int, lo <= x, x <= lo + d PROVE x * x + c <= b * x
  <2>1. (x - lo) * ((lo + d) - x) >= 0
    BY <1>6
  <2>2. (x - lo) * ((lo + d) - x) = b * x - (x * x + c)
    OBVIOUS
  <2>3. b * x \in Int /\ x * x + c \in Int
    OBVIOUS
  <2> QED
    BY <2>1, <2>2, <2>3
<1> HIDE DEF T, Q, b, c
<1>7. 0 \in S
  BY <1>3, <1>5
<1>8. ASSUME NEW n \in 0 .. k - 1, n \in S PROVE n + 1 \in S
  <2> DEFINE x == w[n + 1] t == T(n) q == Q(n)
  <2>1. /\ x \in Int /\ t \in Int /\ q \in Int /\ n \in Nat
        /\ T(n + 1) = t + x /\ Q(n + 1) = q + x * x
    BY <1>2, <1>4
  <2>2. x * x + c <= b * x
    <3>1. lo <= x /\ x <= lo + d
      OBVIOUS
    <3> QED
      BY <1>6, <2>1, <3>1
  <2>3. q + n * c <= b * t
    BY <1>8
  <2> HIDE DEF x, t, q
  <2>4. (n + 1) * c = n * c + c /\ b * (t + x) = b * t + b * x
    BY <1>5, <2>1
  <2>5. n * c \in Int /\ b * t \in Int /\ b * x \in Int /\ x * x \in Int
    BY <1>5, <2>1
  <2>6. (q + x * x) + (n + 1) * c <= b * (t + x)
    BY <1>5, <2>1, <2>2, <2>3, <2>4, <2>5
  <2> QED
    BY <2>1, <2>6
<1>9. k \in S
  <2>1. 0 .. k \subseteq S
    <3> HIDE DEF S
    <3> QED
      BY <1>7, <1>8, BoundedInduction
  <2> QED
    BY <2>1
<1> DEFINE t == T(k) q == Q(k) x == t - k * lo y == k * (lo + d) - t
<1>10. t \in Int /\ q \in Int /\ q + k * c <= b * t
  BY <1>2, <1>9
<1> HIDE DEF t, q, S
<1>11. k * (q + k * c) <= k * (b * t)
  <2>1. q + k * c \in Int /\ b * t \in Int
    BY <1>5, <1>10
  <2> QED
    BY <1>10, <2>1
<1>12. x * y = k * (b * t) - k * (k * c) - t * t
  BY <1>10 DEF b, c
<1>13. k * (q + k * c) = k * q + k * (k * c)
  BY <1>5, <1>10
<1>14. /\ k * q \in Int /\ k * (k * c) \in Int /\ k * (b * t) \in Int /\ t * t \in Int
       /\ x \in Int /\ y \in Int /\ x + y = k * d
  BY <1>5, <1>10
<1>15. k * q - t * t <= x * y
  BY <1>11, <1>12, <1>13, <1>14
<1> HIDE DEF x, y
<1>16. 4 * (x * y) <= (x + y) * (x + y)
  <2>1. (x - y) * (x - y) >= 0
    <3> DEFINE z == x - y
    <3>1. z \in Int
      BY <1>14
    <3> HIDE DEF z
    <3>2. z * z >= 0
      BY <3>1
    <3> QED
      BY <3>2 DEF z
  <2>2. (x + y) * (x + y) - 4 * (x * y) = (x - y) * (x - y)
    BY <1>14
  <2>3. (x + y) * (x + y) \in Int /\ x * y \in Int
    BY <1>14
  <2> QED
    BY <2>1, <2>2, <2>3
<1>17. x * y \in Int /\ (x + y) * (x + y) = (k * d) * (k * d) /\ (k * d) * (k * d) \in Int
  BY <1>14
<1>18. 4 * (k * q - t * t) <= (k * d) * (k * d)
  BY <1>14, <1>15, <1>16, <1>17
<1> QED
  BY <1>18 DEF q, t, Q, T

-----------------------------------------------------------------------------
(* The sum of g over the cells of a set, numbered from 0. *)
Masked(S, g, L) == [i \in 1 .. L |-> IF i - 1 \in S THEN g[i - 1] ELSE 0]

LEMMA SumOfOne ==
    ASSUME NEW k \in Nat, NEW a \in Int, NEW c \in 1 .. k, NEW f,
           \A n \in 1 .. k : f[n] = IF n = c THEN a ELSE 0
    PROVE  SumTo(f, k) = a
<1> DEFINE S == {n \in Nat : SumTo(f, n) = IF n < c THEN 0 ELSE a}
<1>1. 0 \in S
  BY SumStep
<1>2. ASSUME NEW n \in 0 .. k - 1, n \in S PROVE n + 1 \in S
  <2>1. n + 1 \in 1 .. k /\ n \in Nat
    OBVIOUS
  <2>2. SumTo(f, n + 1) = SumTo(f, n) + f[n + 1]
    BY <2>1, SumStep
  <2>3. f[n + 1] = IF n + 1 = c THEN a ELSE 0
    BY <2>1
  <2> QED
    BY <1>2, <2>1, <2>2, <2>3
<1>3. 0 .. k \subseteq S
  <2> HIDE DEF S
  <2> QED
    BY <1>1, <1>2, BoundedInduction
<1> QED
  BY <1>3

LEMMA SumWithCell ==
    ASSUME NEW L \in Nat, NEW g, \A i \in 0 .. L - 1 : g[i] \in Int,
           NEW S, NEW c \in 0 .. L - 1, c \notin S
    PROVE  /\ SumTo(Masked(S, g, L), L) \in Int
           /\ SumTo(Masked(S \cup {c}, g, L), L) = SumTo(Masked(S, g, L), L) + g[c]
<1> DEFINE f == Masked(S, g, L)
           h == Masked(S \cup {c}, g, L)
           p == [i \in 1 .. L |-> IF i = c + 1 THEN g[c] ELSE 0]
<1>1. ASSUME NEW i \in 1 .. L
      PROVE  f[i] \in Int /\ p[i] \in Int /\ h[i] = f[i] + p[i]
  <2>1. i - 1 \in 0 .. L - 1 /\ (i - 1 = c <=> i = c + 1)
    OBVIOUS
  <2>2. g[i - 1] \in Int /\ g[c] \in Int
    BY <2>1
  <2>3. /\ f[i] = IF i - 1 \in S THEN g[i - 1] ELSE 0
        /\ h[i] = IF i - 1 \in S \cup {c} THEN g[i - 1] ELSE 0
        /\ p[i] = IF i = c + 1 THEN g[c] ELSE 0
    BY DEF Masked
  <2> HIDE DEF f, h, p
  <2> QED
    BY <2>1, <2>2, <2>3
<1>2. /\ c + 1 \in 1 .. L /\ g[c] \in Int
      /\ \A i \in 1 .. L : p[i] = IF i = c + 1 THEN g[c] ELSE 0
  OBVIOUS
<1> HIDE DEF f, h, p
<1>3. SumTo(h, L) = SumTo(f, L) + SumTo(p, L)
  BY <1>1, SumPlus
<1>4. SumTo(p, L) = g[c]
  BY <1>2, SumOfOne
<1>5. SumTo(f, L) \in Int
  <2>1. L \in 0 .. L
    OBVIOUS
  <2> QED
    BY <1>1, <2>1, SumType
<1> QED
  BY <1>3, <1>4, <1>5 DEF f, h

(* A loop has gone over the cells R[j] after j turns, each once, and the j-th
   term it adds is f[j]. *)
Visits(L, g, m, cell, R, f) ==
    /\ L \in Nat /\ m \in Nat
    /\ \A i \in 0 .. L - 1 : g[i] \in Int
    /\ R[0] = {}
    /\ \A j \in 1 .. m : /\ cell[j] \in 0 .. L - 1 /\ cell[j] \notin R[j - 1]
                         /\ R[j] = R[j - 1] \cup {cell[j]}
                         /\ f[j] = g[cell[j]]

LEMMA SumInAnyOrder ==
    ASSUME NEW L, NEW g, NEW m, NEW cell, NEW R, NEW f, Visits(L, g, m, cell, R, f)
    PROVE  SumTo(Masked(R[m], g, L), L) = SumTo(f, m)
<1> USE DEF Visits
<1> DEFINE S == {n \in Nat : SumTo(Masked(R[n], g, L), L) = SumTo(f, n)}
<1>1. 0 \in S
  <2>1. \A i \in 1 .. L : Masked(R[0], g, L)[i] = 0
    BY DEF Masked
  <2>2. SumTo(Masked(R[0], g, L), L) = 0
    <3> DEFINE a == 0
               h == Masked(R[0], g, L)
    <3>1. a \in Int /\ \A i \in 1 .. L : h[i] = a
      BY <2>1
    <3> HIDE DEF a, h
    <3>2. SumTo(h, L) = a * L
      BY <3>1, SumConstant
    <3>3. SumTo(h, L) = 0
      BY <3>2 DEF a
    <3> QED
      BY <3>3 DEF h
  <2>3. SumTo(f, 0) = 0
    BY SumStep
  <2> QED
    BY <2>2, <2>3
<1>2. ASSUME NEW n \in 0 .. m - 1, n \in S PROVE n + 1 \in S
  <2>1. n + 1 \in 1 .. m /\ n \in Nat /\ (n + 1) - 1 = n
    OBVIOUS
  <2>2. /\ cell[n + 1] \in 0 .. L - 1 /\ cell[n + 1] \notin R[n]
        /\ R[n + 1] = R[n] \cup {cell[n + 1]}
    BY <2>1
  <2>3. f[n + 1] = g[cell[n + 1]]
    BY <2>1
  <2>4. SumTo(Masked(R[n + 1], g, L), L) = SumTo(Masked(R[n], g, L), L) + g[cell[n + 1]]
    BY <2>2, SumWithCell
  <2>5. SumTo(f, n + 1) = SumTo(f, n) + f[n + 1]
    BY <2>1, SumStep
  <2> QED
    BY <1>2, <2>1, <2>3, <2>4, <2>5
<1>3. 0 .. m \subseteq S
  <2> HIDE DEF S
  <2> QED
    BY <1>1, <1>2, BoundedInduction
<1> QED
  BY <1>3
=============================================================================
