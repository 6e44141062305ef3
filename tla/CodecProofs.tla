---------------------------- MODULE CodecProofs ----------------------------
(***************************************************************************)
(* Theorems about the variable-length integers and the buffers they are    *)
(* written to, for every number of bits of a group and of the two words -- *)
(* 7, 32 and 64 in the code -- and so for every value, every string of     *)
(* bytes and every sequence of writes, seeks and resizes.                  *)
(***************************************************************************)
EXTENDS Codec, FiniteSetTheorems, WellFoundedInduction, TLAPS

-----------------------------------------------------------------------------
(***************************************************************************)
(* Induction and loops.                                                    *)
(***************************************************************************)

\* Every set of naturals has a least member.
LEMMA LeastNat ==
    ASSUME NEW S \in SUBSET Nat, S # {}
    PROVE  \E m \in S : \A n \in S : m <= n
<1>. DEFINE R == {ss \in Nat \X Nat : ss[1] < ss[2]}
<1>1. IsWellFoundedOn(R, Nat)
  BY NatLessThanWellFounded DEF OpToRel
<1>. HIDE DEF R
<1>2. PICK m \in S : \A n \in S : ~ (<<n, m>> \in R)
  BY <1>1, WFMin
<1>3. ASSUME NEW n \in S PROVE m <= n
  <2>1. m \in Nat /\ n \in Nat
    OBVIOUS
  <2>2. ~ (<<n, m>> \in R)
    BY <1>2
  <2>3. <<n, m>> \in Nat \X Nat /\ <<n, m>>[1] = n /\ <<n, m>>[2] = m
    BY <2>1
  <2>4. ~ (n < m)
    BY <2>2, <2>3 DEF R
  <2>. QED  BY <2>1, <2>4
<1>. QED  BY <1>3

\* Induction up to a bound, over a set of numbers.
LEMMA UpTo ==
    ASSUME NEW n \in Nat, NEW T, 0 \in T, \A k \in 1 .. n : k - 1 \in T => k \in T
    PROVE  0 .. n \subseteq T /\ n \in T
<1>. DEFINE R == {ss \in Nat \X Nat : ss[1] < ss[2]}
            S == {k \in 0 .. n : k \notin T}
<1>1. IsWellFoundedOn(R, Nat)
  BY NatLessThanWellFounded DEF OpToRel
<1>. SUFFICES ASSUME S # {} PROVE FALSE
  <2>1. n \in 0 .. n
    OBVIOUS
  <2>. QED  BY <2>1
<1>2. S \in SUBSET Nat
  OBVIOUS
<1>. HIDE DEF R, S
<1>3. PICK m \in S : \A k \in S : ~ (<<k, m>> \in R)
  BY <1>1, <1>2, WFMin
<1>4. m \in 1 .. n /\ m \notin T /\ m - 1 \in 0 .. n
  BY DEF S
<1>5. m - 1 \in T
  <2>1. <<m - 1, m>> \in R
    BY <1>4 DEF R
  <2>2. m - 1 \notin S
    BY <1>3, <2>1
  <2>. QED  BY <1>4, <2>2 DEF S
<1>. QED  BY <1>4, <1>5

\* There is the sequence x, s[1][x], s[2][s[1][x]] and so on.
Iterated(S, x, s, n) ==
    \E g \in [0 .. n -> S] : g[0] = x /\ \A k \in 1 .. n : g[k] = s[k][g[k - 1]]

\* A loop whose turns stay in a set of states runs.
LEMMA Iterates ==
    ASSUME NEW S, NEW x \in S, NEW n \in Nat, NEW s \in [1 .. n -> [S -> S]]
    PROVE  Iterated(S, x, s, n)
<1>. DEFINE Runs(k) == \E g \in [0 .. k -> S] :
                          g[0] = x /\ \A j \in 1 .. k : g[j] = s[j][g[j - 1]]
           T == {k \in 0 .. n : Runs(k)}
<1>1. 0 \in T
  <2>. DEFINE g == [j \in 0 .. 0 |-> x]
  <2>1. g \in [0 .. 0 -> S] /\ g[0] = x /\ \A j \in 1 .. 0 : g[j] = s[j][g[j - 1]]
    OBVIOUS
  <2>. HIDE DEF g
  <2>2. Runs(0)
    BY <2>1
  <2>. QED  BY <2>2
<1>2. ASSUME NEW k \in 1 .. n, k - 1 \in T PROVE k \in T
  <2>1. PICK g \in [0 .. k - 1 -> S] : g[0] = x /\ \A j \in 1 .. k - 1 : g[j] = s[j][g[j - 1]]
    BY <1>2
  <2>. DEFINE h == [j \in 0 .. k |-> IF j = k THEN s[k][g[k - 1]] ELSE g[j]]
  <2>2. h \in [0 .. k -> S] /\ h[0] = x
    BY <2>1
  <2>3. \A j \in 1 .. k : h[j] = s[j][h[j - 1]]
    BY <2>1
  <2>. HIDE DEF h
  <2>4. Runs(k)
    BY <2>2, <2>3
  <2>5. k \in 0 .. n
    OBVIOUS
  <2>. HIDE DEF Runs
  <2>. QED  BY <2>4, <2>5
<1>. HIDE DEF T
<1>3. n \in T
  BY <1>1, <1>2, UpTo
<1>4. Runs(n)
  <2>. HIDE DEF Runs
  <2>. QED  BY <1>3 DEF T
<1>. QED  BY <1>4 DEF Iterated

\* A sequence's elements are of its set.
LEMMA ElementIs ==
    ASSUME NEW S, NEW s \in Seq(S), NEW j \in 1 .. Len(s) PROVE s[j] \in S
OBVIOUS

-----------------------------------------------------------------------------
(***************************************************************************)
(* Quotients, remainders and powers of two.                                *)
(***************************************************************************)

\* Division with a remainder.
LEMMA DivMod ==
    ASSUME NEW a \in Nat, NEW b \in Nat \ {0}
    PROVE  a \div b \in Nat /\ a % b \in Nat /\ a % b < b /\ a = b * (a \div b) + (a % b)
<1>1. b \in Int /\ b > 0
  OBVIOUS
<1>2. a \div b \in Nat /\ a % b \in Nat /\ a % b < b
  BY <1>1
<1>3. a = b * (a \div b) + (a % b)
  BY <1>1
<1>. QED  BY <1>2, <1>3

\* There is one quotient and one remainder.
LEMMA DivModIs ==
    ASSUME NEW b \in Nat, NEW q \in Nat, NEW r \in Nat, r < b
    PROVE  (b * q + r) \div b = q /\ (b * q + r) % b = r
OBVIOUS

\* Dividing twice.
LEMMA DivDiv ==
    ASSUME NEW a \in Nat, NEW b \in Nat \ {0}, NEW c \in Nat \ {0}
    PROVE  b * c \in Nat \ {0} /\ (a \div b) \div c = a \div (b * c)
OBVIOUS

\* A quotient is below c if the number is below c times as much.
LEMMA DivLess ==
    ASSUME NEW a \in Nat, NEW b \in Nat \ {0}, NEW c \in Nat
    PROVE  a \div b < c <=> a < c * b
OBVIOUS

\* The remainder by a product has one more digit than the remainder by a factor.
LEMMA ModStep ==
    ASSUME NEW a \in Nat, NEW b \in Nat \ {0}, NEW c \in Nat \ {0}
    PROVE  a % (b * c) = (a % b) + ((a \div b) % c) * b
<1>. DEFINE q == a \div b
            r == a % b
            p == q \div c
            s == q % c
<1>1. q \in Nat /\ r \in Nat /\ r < b /\ a = b * q + r
  BY DivMod
<1>. HIDE DEF q, r
<1>2. p \in Nat /\ s \in Nat /\ s < c /\ q = c * p + s
  BY <1>1, DivMod
<1>. HIDE DEF p, s
<1>3. a = (b * c) * p + (s * b + r)
  BY <1>1, <1>2
<1>4. b * c \in Nat /\ s * b + r \in Nat /\ s * b + r < b * c
  BY <1>1, <1>2
<1>5. a % (b * c) = s * b + r
  BY <1>2, <1>3, <1>4, DivModIs
<1>. QED  BY <1>1, <1>2, <1>5 DEF q, r, s

\* The powers of two, as the function that its definition describes: there is
\* such a function up to every n, and any two agree.
LEMMA Pow2Is ==
    /\ Pow2 \in [Nat -> Nat \ {0}]
    /\ Pow2[0] = 1
    /\ \A n \in Nat : Pow2[n + 1] = 2 * Pow2[n]
<1>. DEFINE Doubles(g, n) == /\ g \in [0 .. n -> Nat \ {0}]
                             /\ g[0] = 1
                             /\ \A k \in 1 .. n : g[k] = 2 * g[k - 1]
            D(n) == CHOOSE g : Doubles(g, n)
            f == [n \in Nat |-> D(n)[n]]
<1>1. ASSUME NEW n \in Nat PROVE Doubles(D(n), n)
  <2>. DEFINE s == [k \in 1 .. n |-> [a \in Nat \ {0} |-> 2 * a]]
  <2>1. s \in [1 .. n -> [Nat \ {0} -> Nat \ {0}]] /\ 1 \in Nat \ {0}
    OBVIOUS
  <2>2. \A k \in 1 .. n : \A a \in Nat \ {0} : s[k][a] = 2 * a
    OBVIOUS
  <2>. HIDE DEF s
  <2>3. Iterated(Nat \ {0}, 1, s, n)
    BY <2>1, Iterates
  <2>4. PICK g \in [0 .. n -> Nat \ {0}] : g[0] = 1 /\ \A k \in 1 .. n : g[k] = s[k][g[k - 1]]
    BY <2>3 DEF Iterated
  <2>5. ASSUME NEW k \in 1 .. n PROVE g[k] = 2 * g[k - 1]
    <3>1. g[k - 1] \in Nat \ {0} /\ g[k] = s[k][g[k - 1]]
      BY <2>4
    <3>. QED  BY <2>2, <3>1
  <2>. QED  BY <2>4, <2>5
<1>2. ASSUME NEW n \in Nat, NEW g, NEW h, Doubles(g, n), Doubles(h, n + 1) PROVE g[n] = h[n]
  <2>. DEFINE T == {k \in 0 .. n : g[k] = h[k]}
  <2>1. 0 \in T
    BY <1>2
  <2>2. \A k \in 1 .. n : k - 1 \in T => k \in T
    BY <1>2
  <2>. HIDE DEF T
  <2>3. n \in T
    BY <2>1, <2>2, UpTo
  <2>. QED  BY <2>3 DEF T
<1>. HIDE DEF D
<1>3. f[0] = 1
  BY <1>1
<1>4. ASSUME NEW n \in Nat PROVE f[n] \in Nat \ {0} /\ f[n + 1] = 2 * f[n]
  <2>1. Doubles(D(n), n) /\ Doubles(D(n + 1), n + 1)
    <3>1. n + 1 \in Nat
      OBVIOUS
    <3>. HIDE DEF Doubles
    <3>. QED  BY <1>1, <3>1
  <2>2. D(n)[n] = D(n + 1)[n]
    BY <1>2, <2>1
  <2>. QED  BY <2>1, <2>2
<1>. HIDE DEF f
<1>5. f = [n \in Nat |-> IF n = 0 THEN 1 ELSE 2 * f[n - 1]]
  <2>1. \A n \in Nat : n # 0 => n - 1 \in Nat /\ f[n] = 2 * f[n - 1]
    <3>. SUFFICES ASSUME NEW n \in Nat, n # 0 PROVE n - 1 \in Nat /\ f[n] = 2 * f[n - 1]
      OBVIOUS
    <3>1. n - 1 \in Nat /\ (n - 1) + 1 = n
      OBVIOUS
    <3>2. f[(n - 1) + 1] = 2 * f[n - 1]
      BY <1>4, <3>1
    <3>. QED  BY <3>1, <3>2
  <2>2. f = [n \in Nat |-> f[n]]
    BY DEF f
  <2>. QED  BY <1>3, <2>1, <2>2
<1>6. Pow2 = [n \in Nat |-> IF n = 0 THEN 1 ELSE 2 * Pow2[n - 1]]
  BY <1>5 DEF Pow2
<1>7. Pow2[0] = 1
  BY <1>6
<1>8. \A n \in Nat : Pow2[n + 1] = 2 * Pow2[n]
  BY <1>6
<1>9. ASSUME NEW n \in Nat PROVE Pow2[n] \in Nat \ {0}
  <2>. DEFINE T == {k \in Nat : Pow2[k] \in Nat \ {0}}
  <2>1. 0 \in T
    BY <1>7
  <2>2. ASSUME NEW k \in 1 .. n, k - 1 \in T PROVE k \in T
    BY <1>8, <2>2, (k - 1) + 1 = k
  <2>. HIDE DEF T
  <2>3. n \in T
    BY <2>1, <2>2, UpTo
  <2>. QED  BY <2>3 DEF T
<1>. QED  BY <1>6, <1>7, <1>8, <1>9

\* The power of a sum.
LEMMA Pow2Sum ==
    ASSUME NEW m \in Nat, NEW n \in Nat
    PROVE  Pow2[m + n] = Pow2[m] * Pow2[n]
<1>. DEFINE T == {k \in Nat : Pow2[m + k] = Pow2[m] * Pow2[k]}
<1>1. 0 \in T
  BY Pow2Is
<1>2. ASSUME NEW k \in 1 .. n, k - 1 \in T PROVE k \in T
  <2>1. /\ k - 1 \in Nat /\ m + (k - 1) \in Nat
        /\ (k - 1) + 1 = k /\ (m + (k - 1)) + 1 = m + k
    OBVIOUS
  <2>2. Pow2[m + k] = 2 * Pow2[m + (k - 1)] /\ Pow2[k] = 2 * Pow2[k - 1]
    BY <2>1, Pow2Is
  <2>3. Pow2[m] \in Nat /\ Pow2[k - 1] \in Nat
    BY <2>1, Pow2Is
  <2>4. Pow2[m + (k - 1)] = Pow2[m] * Pow2[k - 1]
    BY <1>2
  <2>5. Pow2[m + k] = Pow2[m] * Pow2[k]
    BY <2>2, <2>3, <2>4
  <2>. QED  BY <2>5
<1>. HIDE DEF T
<1>3. n \in T
  BY <1>1, <1>2, UpTo
<1>. QED  BY <1>3 DEF T

\* A power is positive, and of a larger exponent not smaller.
LEMMA Pow2Mono ==
    ASSUME NEW m \in Nat, NEW n \in Nat, m <= n
    PROVE  Pow2[m] \in Nat \ {0} /\ Pow2[n] \in Nat \ {0} /\ Pow2[m] <= Pow2[n]
<1>1. n - m \in Nat /\ m + (n - m) = n
  OBVIOUS
<1>2. /\ Pow2[m] \in Nat \ {0} /\ Pow2[n] \in Nat \ {0} /\ Pow2[n - m] \in Nat \ {0}
  BY <1>1, Pow2Is
<1>3. Pow2[n] = Pow2[m] * Pow2[n - m]
  BY <1>1, Pow2Sum
<1>. QED  BY <1>2, <1>3

\* The digits of v, of w bits each, lowest first.
Digit(v, w, i) == (v \div Pow2[w * (i - 1)]) % Pow2[w]

\* What a digit contributes.
Share(d, w, k) == d[k] * Pow2[w * (k - 1)]

\* g[k] is the number that the first k of the digits stand for.
Sums(g, n, d, w) ==
    /\ g \in [0 .. n -> Nat] /\ g[0] = 0
    /\ \A k \in 1 .. n : g[k] = g[k - 1] + Share(d, w, k)

\* One digit more.
LEMMA SumsStep ==
    ASSUME NEW g, NEW n \in Nat, NEW d, NEW w, Sums(g, n, d, w), NEW k \in 1 .. n
    PROVE  g[k - 1] \in Nat /\ g[k] \in Nat /\ g[k] = g[k - 1] + Share(d, w, k)
BY DEF Sums

\* The places of the digits.
LEMMA PlaceIs ==
    ASSUME NEW w \in Nat, NEW k \in Nat \ {0}
    PROVE  /\ w * (k - 1) \in Nat /\ w * k \in Nat
           /\ Pow2[w * (k - 1)] \in Nat \ {0} /\ Pow2[w] \in Nat \ {0}
           /\ Pow2[w * k] = Pow2[w * (k - 1)] * Pow2[w]
<1>1. w * (k - 1) \in Nat /\ w * k \in Nat /\ w * (k - 1) + w = w * k
  OBVIOUS
<1>2. Pow2[w * (k - 1)] \in Nat \ {0} /\ Pow2[w] \in Nat \ {0}
  BY <1>1, Pow2Is
<1>3. Pow2[w * (k - 1) + w] = Pow2[w * (k - 1)] * Pow2[w]
  BY <1>1, Pow2Sum
<1>. QED  BY <1>1, <1>2, <1>3

\* A share is a number.
LEMMA ShareIs ==
    ASSUME NEW n \in Nat, NEW d \in [1 .. n -> Nat], NEW w \in Nat, NEW k \in 1 .. n
    PROVE  Share(d, w, k) \in Nat
<1>1. d[k] \in Nat /\ k \in Nat \ {0}
  OBVIOUS
<1>2. Pow2[w * (k - 1)] \in Nat
  BY <1>1, PlaceIs
<1>. QED  BY <1>1, <1>2 DEF Share

\* The first k digits of v stand for the low w * k bits of v.
LEMMA DigitSums ==
    ASSUME NEW v \in Nat, NEW w \in Nat, NEW n \in Nat, NEW d, NEW g,
           \A i \in 1 .. n : d[i] = Digit(v, w, i), Sums(g, n, d, w)
    PROVE  \A k \in 0 .. n : g[k] = v % Pow2[w * k]
<1>. DEFINE T == {k \in 0 .. n : g[k] = v % Pow2[w * k]}
<1>1. 0 \in T
  <2>1. w * 0 = 0 /\ v % 1 = 0 /\ g[0] = 0
    BY DEF Sums
  <2>. QED  BY <2>1, Pow2Is
<1>2. ASSUME NEW k \in 1 .. n, k - 1 \in T PROVE k \in T
  <2>. DEFINE b == Pow2[w * (k - 1)]
              c == Pow2[w]
  <2>1. k \in Nat \ {0} /\ k - 1 \in 0 .. n
    OBVIOUS
  <2>2. b \in Nat \ {0} /\ c \in Nat \ {0} /\ Pow2[w * k] = b * c
    BY <2>1, PlaceIs
  <2>3. g[k] = g[k - 1] + ((v \div b) % c) * b
    BY DEF Sums, Share, Digit
  <2>4. g[k - 1] = v % b
    BY <1>2
  <2>. HIDE DEF b, c
  <2>5. v % (b * c) = (v % b) + ((v \div b) % c) * b
    BY <2>2, ModStep
  <2>6. g[k] = v % Pow2[w * k]
    BY <2>2, <2>3, <2>4, <2>5
  <2>. QED  BY <2>6
<1>. HIDE DEF T
<1>3. 0 .. n \subseteq T
  BY <1>1, <1>2, UpTo
<1>. QED  BY <1>3 DEF T

\* The first digits of any sequence of numbers do stand for a number.
LEMMA SumsExist ==
    ASSUME NEW n \in Nat, NEW d \in [1 .. n -> Nat], NEW w \in Nat
    PROVE  \E g : Sums(g, n, d, w)
<1>. DEFINE s == [k \in 1 .. n |-> [a \in Nat |-> a + Share(d, w, k)]]
<1>1. \A k \in 1 .. n : Share(d, w, k) \in Nat
  BY ShareIs
<1>2. s \in [1 .. n -> [Nat -> Nat]]
  BY <1>1
<1>3. \A k \in 1 .. n : \A a \in Nat : s[k][a] = a + Share(d, w, k)
  OBVIOUS
<1>. HIDE DEF s
<1>4. Iterated(Nat, 0, s, n)
  BY <1>2, Iterates
<1>5. PICK g \in [0 .. n -> Nat] : g[0] = 0 /\ \A k \in 1 .. n : g[k] = s[k][g[k - 1]]
  BY <1>4 DEF Iterated
<1>6. ASSUME NEW k \in 1 .. n PROVE g[k] = g[k - 1] + Share(d, w, k)
  <2>1. k - 1 \in 0 .. n
    OBVIOUS
  <2>2. g[k - 1] \in Nat /\ g[k] = s[k][g[k - 1]]
    BY <1>5, <2>1
  <2>. QED  BY <1>3, <2>2
<1>. QED  BY <1>5, <1>6 DEF Sums

-----------------------------------------------------------------------------
(***************************************************************************)
(* InBase adds the digits' shares in no particular order.  The sum over a  *)
(* set of places is that of the digits with the others set to zero; these  *)
(* sums solve the equation by which the sum over a set is defined, and a   *)
(* set with as few elements as possible for which the sum were something   *)
(* else cannot exist.                                                      *)
(***************************************************************************)
\* The turns of the sum over a set of places.
PlaceTurns(d, w, S, h) ==
    h = [s \in SUBSET S |->
            IF s = {} THEN 0
            ELSE Share(d, w, CHOOSE x \in s : TRUE) + h[s \ {CHOOSE x \in s : TRUE}]]

\* InBase is the last of those turns.
LEMMA InBaseIs ==
    ASSUME NEW d, NEW w
    PROVE  InBase(d, w) = (CHOOSE h : PlaceTurns(d, w, DOMAIN d, h))[DOMAIN d]
BY DEF InBase, MapThenSumSet, MapThenFoldSet, PlaceTurns, Share

\* The digits at the places of s, and zeros.
Only(d, n, s) == [i \in 1 .. n |-> IF i \in s THEN d[i] ELSE 0]

\* Two numbers with the difference of one share.
ShareLess(g, h, n, d, w, x) == g[n] = Share(d, w, x) + h[n]

\* Setting one digit to zero takes its share from the sum.
LEMMA SumsWithout ==
    ASSUME NEW n \in Nat, NEW d \in [1 .. n -> Nat], NEW w \in Nat, NEW x \in 1 .. n,
           NEW g, NEW h, Sums(g, n, d, w), Sums(h, n, [d EXCEPT ![x] = 0], w)
    PROVE  ShareLess(g, h, n, d, w, x)
<1>. DEFINE c == Share(d, w, x)
            e == [d EXCEPT ![x] = 0]
            T == {k \in 0 .. n : g[k] = h[k] + (IF k < x THEN 0 ELSE c)}
<1>1. c \in Nat
  BY ShareIs
<1>2. 0 \in T
  BY <1>1 DEF Sums
<1>3. ASSUME NEW k \in 1 .. n, k - 1 \in T PROVE k \in T
  <2>1. Share(e, w, k) = IF k = x THEN 0 ELSE Share(d, w, k)
    <3>1. Pow2[w * (k - 1)] \in Nat
      BY PlaceIs
    <3>2. e[k] = IF k = x THEN 0 ELSE d[k]
      OBVIOUS
    <3>. QED  BY <3>1, <3>2 DEF Share
  <2>2. Share(d, w, k) \in Nat /\ (k = x => Share(d, w, k) = c)
    BY ShareIs
  <2>. HIDE DEF T, c, e
  <2>3. g[k] = g[k - 1] + Share(d, w, k) /\ g[k - 1] \in Nat
    BY SumsStep
  <2>4. h[k] = h[k - 1] + Share(e, w, k) /\ h[k - 1] \in Nat
    BY SumsStep DEF e
  <2>5. g[k - 1] = h[k - 1] + (IF k - 1 < x THEN 0 ELSE c)
    BY <1>3 DEF T
  <2>6. g[k] = h[k] + (IF k < x THEN 0 ELSE c)
    <3>1. CASE k < x
      <4>1. k - 1 < x /\ k # x
        BY <3>1
      <4>2. Share(e, w, k) = Share(d, w, k) /\ g[k - 1] = h[k - 1]
        BY <4>1, <2>1, <2>4, <2>5
      <4>3. g[k] = h[k] /\ h[k] \in Nat
        BY <2>2, <2>3, <2>4, <4>2
      <4>. QED  BY <3>1, <4>3
    <3>2. CASE k = x
      <4>1. k - 1 < x /\ ~(k < x)
        BY <3>2
      <4>2. Share(e, w, k) = 0 /\ Share(d, w, k) = c /\ g[k - 1] = h[k - 1]
        BY <3>2, <4>1, <2>1, <2>2, <2>4, <2>5
      <4>3. g[k] = h[k] + c
        BY <1>1, <2>3, <2>4, <4>2
      <4>. QED  BY <4>1, <4>3
    <3>3. CASE k > x
      <4>1. ~(k - 1 < x) /\ ~(k < x) /\ k # x
        BY <3>3
      <4>2. Share(e, w, k) = Share(d, w, k) /\ g[k - 1] = h[k - 1] + c
        BY <4>1, <2>1, <2>5
      <4>3. g[k] = h[k] + c
        BY <1>1, <2>2, <2>3, <2>4, <4>2
      <4>. QED  BY <4>1, <4>3
    <3>. QED  BY <3>1, <3>2, <3>3
  <2>. QED  BY <2>6 DEF T
<1>. HIDE DEF T
<1>4. n \in T
  BY <1>2, <1>3, UpTo
<1>5. g[n] = h[n] + c
  <2>. HIDE DEF c
  <2>. QED  BY <1>1, <1>4 DEF T
<1>6. h[n] \in Nat
  BY DEF Sums
<1>. QED  BY <1>1, <1>5, <1>6 DEF ShareLess

\* The number that InBase computes is the sum of the digits from the first to
\* the last.
LEMMA InBaseSums ==
    ASSUME NEW n \in Nat, NEW d \in [1 .. n -> Nat], NEW w \in Nat, NEW g, Sums(g, n, d, w)
    PROVE  InBase(d, w) = g[n]
<1>. DEFINE S == 1 .. n
            G(s) == CHOOSE h : Sums(h, n, Only(d, n, s), w)
            W == [s \in SUBSET S |-> G(s)[n]]
            X(s) == CHOOSE x \in s : TRUE
<1>1. ASSUME NEW s \in SUBSET S
      PROVE  Sums(G(s), n, Only(d, n, s), w) /\ W[s] = G(s)[n] /\ W[s] \in Nat
  <2>1. Only(d, n, s) \in [1 .. n -> Nat]
    BY DEF Only
  <2>2. Sums(G(s), n, Only(d, n, s), w)
    BY <2>1, SumsExist
  <2>3. W[s] = G(s)[n]
    OBVIOUS
  <2>. HIDE DEF W, G
  <2>. QED  BY <2>2, <2>3 DEF Sums
<1>2. W[{}] = 0
  <2>. DEFINE h == G({})
              T == {k \in 0 .. n : h[k] = 0}
  <2>1. Sums(h, n, Only(d, n, {}), w)
    BY <1>1
  <2>. HIDE DEF h
  <2>2. 0 \in T
    BY <2>1 DEF Sums
  <2>3. ASSUME NEW k \in 1 .. n, k - 1 \in T PROVE k \in T
    <3>1. Only(d, n, {})[k] = 0 /\ Pow2[w * (k - 1)] \in Nat
      BY PlaceIs DEF Only
    <3>2. h[k] = h[k - 1] + 0 * Pow2[w * (k - 1)]
      BY <2>1, <3>1 DEF Sums, Share
    <3>. QED  BY <2>3, <3>1, <3>2
  <2>. HIDE DEF T
  <2>4. n \in T
    BY <2>2, <2>3, UpTo
  <2>. QED  BY <2>4 DEF T, h
<1>3. ASSUME NEW s \in SUBSET S, NEW x \in s PROVE W[s] = Share(d, w, x) + W[s \ {x}]
  <2>1. s \ {x} \in SUBSET S
    OBVIOUS
  <2>2. /\ Sums(G(s), n, Only(d, n, s), w) /\ W[s] = G(s)[n]
        /\ Sums(G(s \ {x}), n, Only(d, n, s \ {x}), w) /\ W[s \ {x}] = G(s \ {x})[n]
    BY <1>1, <2>1
  <2>. DEFINE p == Only(d, n, s)
              a == G(s)
              b == G(s \ {x})
  <2>3. p \in [1 .. n -> Nat] /\ x \in 1 .. n /\ p[x] = d[x]
    BY DEF Only
  <2>4. Only(d, n, s \ {x}) = [p EXCEPT ![x] = 0]
    BY DEF Only
  <2>5. Sums(a, n, p, w) /\ Sums(b, n, [p EXCEPT ![x] = 0], w)
    BY <2>2, <2>4
  <2>. HIDE DEF W, G, a, b, p
  <2>6. ShareLess(a, b, n, p, w, x)
    BY <2>3, <2>5, SumsWithout
  <2>7. Share(p, w, x) = Share(d, w, x)
    BY <2>3 DEF Share
  <2>. QED  BY <2>2, <2>6, <2>7 DEF a, b, ShareLess
<1>4. PlaceTurns(d, w, S, W)
  <2>1. ASSUME NEW s \in SUBSET S, s # {} PROVE W[s] = Share(d, w, X(s)) + W[s \ {X(s)}]
    <3>1. X(s) \in s
      BY <2>1
    <3>. HIDE DEF W, X
    <3>. QED  BY <1>3, <3>1
  <2>2. W = [s \in SUBSET S |-> W[s]]
    <3>. HIDE DEF G, S
    <3>. QED  OBVIOUS
  <2>. HIDE DEF W
  <2>3. W = [s \in SUBSET S |-> IF s = {} THEN 0 ELSE Share(d, w, X(s)) + W[s \ {X(s)}]]
    <3>. HIDE DEF X
    <3>. QED  BY <1>2, <2>1, <2>2
  <2>. QED  BY <2>3 DEF PlaceTurns
<1>. DEFINE H == CHOOSE h : PlaceTurns(d, w, S, h)
<1>5. PlaceTurns(d, w, S, H)
  <2>. HIDE DEF W
  <2>. QED  BY <1>4
<1>. HIDE DEF H
<1>6. /\ H[{}] = 0
      /\ \A s \in SUBSET S : s # {} => H[s] = Share(d, w, X(s)) + H[s \ {X(s)}]
  BY <1>5 DEF PlaceTurns
<1>. HIDE DEF W, X
<1>7. ASSUME NEW s \in SUBSET S PROVE IsFiniteSet(s) /\ Cardinality(s) \in Nat
  <2>1. IsFiniteSet(S)
    BY 1 \in Int, n \in Int, FS_Interval
  <2>. QED  BY <2>1, FS_Subset, FS_CardinalityType
<1>8. ASSUME NEW s \in SUBSET S, H[s] # W[s] PROVE FALSE
  <2>. DEFINE B == {k \in Nat : \E z \in SUBSET S : Cardinality(z) = k /\ H[z] # W[z]}
  <2>1. B \in SUBSET Nat /\ B # {}
    BY <1>7, <1>8
  <2>. HIDE DEF B
  <2>2. PICK m \in B : \A k \in B : m <= k
    BY <2>1, LeastNat
  <2>3. PICK z \in SUBSET S : Cardinality(z) = m /\ H[z] # W[z]
    BY DEF B
  <2>4. z # {}
    BY <1>2, <1>6, <2>3
  <2>5. X(z) \in z /\ z \ {X(z)} \in SUBSET S
    BY <2>4 DEF X
  <2>6. H[z] = Share(d, w, X(z)) + H[z \ {X(z)}] /\ W[z] = Share(d, w, X(z)) + W[z \ {X(z)}]
    BY <1>3, <1>6, <2>4, <2>5
  <2>7. H[z \ {X(z)}] # W[z \ {X(z)}]
    BY <2>3, <2>6
  <2>8. Cardinality(z \ {X(z)}) = m - 1 /\ m \in Nat /\ Cardinality(z \ {X(z)}) \in Nat
    BY <1>7, <2>3, <2>5, FS_RemoveElement DEF B
  <2>9. Cardinality(z \ {X(z)}) \in B
    BY <2>5, <2>7, <2>8 DEF B
  <2>. QED  BY <2>2, <2>8, <2>9
<1>9. InBase(d, w) = W[S]
  <2>1. DOMAIN d = S /\ S \in SUBSET S
    OBVIOUS
  <2>2. InBase(d, w) = H[S]
    BY <2>1, InBaseIs DEF H
  <2>. QED  BY <1>8, <2>1, <2>2
<1>10. W[S] = g[n]
  <2>1. Only(d, n, S) = d
    BY DEF Only
  <2>2. Sums(G(S), n, d, w) /\ W[S] = G(S)[n]
    BY <1>1, <2>1
  <2>. DEFINE h == G(S)
              T == {k \in 0 .. n : g[k] = h[k]}
  <2>. HIDE DEF G, h
  <2>3. Sums(h, n, d, w)
    BY <2>2 DEF h
  <2>4. 0 \in T
    BY <2>3 DEF Sums
  <2>5. \A k \in 1 .. n : k - 1 \in T => k \in T
    BY <2>3 DEF Sums
  <2>. HIDE DEF T
  <2>6. n \in T
    BY <2>4, <2>5, UpTo
  <2>. QED  BY <2>2, <2>6 DEF T, h
<1>. QED  BY <1>9, <1>10

\* A digit is a number of w bits.
LEMMA DigitIs ==
    ASSUME NEW v \in Nat, NEW w \in Nat, NEW i \in Nat \ {0}
    PROVE  Digit(v, w, i) \in Nat /\ Digit(v, w, i) < Pow2[w]
<1>. DEFINE b == Pow2[w * (i - 1)]
            c == Pow2[w]
<1>1. b \in Nat \ {0} /\ c \in Nat \ {0}
  BY PlaceIs
<1>. HIDE DEF b, c
<1>2. v \div b \in Nat
  BY <1>1, DivMod
<1>3. (v \div b) % c \in Nat /\ (v \div b) % c < c
  BY <1>1, <1>2, DivMod
<1>. QED  BY <1>3 DEF b, c, Digit

\* The digits of a number stand for it, if there are enough of them.
LEMMA DigitsStandFor ==
    ASSUME NEW v \in Nat, NEW w \in Nat, NEW n \in Nat, NEW d, NEW g,
           \A i \in 1 .. n : d[i] = Digit(v, w, i), Sums(g, n, d, w), v < Pow2[w * n]
    PROVE  g[n] = v
<1>1. n \in 0 .. n
  OBVIOUS
<1>2. g[n] = v % Pow2[w * n]
  BY <1>1, DigitSums
<1>3. Pow2[w * n] \in Nat
  BY w * n \in Nat, Pow2Is
<1>4. v % Pow2[w * n] = v
  BY <1>3
<1>. QED  BY <1>2, <1>4

-----------------------------------------------------------------------------
(***************************************************************************)
(* The encoding.  A value has as many bytes as it has groups, and its bytes*)
(* are its digits in base 2^GroupBits with the continuation bit on all but *)
(* the last.                                                               *)
(***************************************************************************)
\* The continuation bit, and the bytes.
LEMMA ContIs ==
    /\ GroupBits \in Nat \ {0} /\ Bits32 \in Nat \ {0} /\ Bits64 \in Nat \ {0}
    /\ Bits32 < Bits64
    /\ Cont \in Nat /\ Cont >= 2 /\ Cont = Pow2[GroupBits]
<1>1. /\ GroupBits \in Nat \ {0} /\ Bits32 \in Nat \ {0} /\ Bits64 \in Nat \ {0}
      /\ Bits32 < Bits64
  BY WidthAssumption
<1>2. Pow2[1] = 2
  <2>1. Pow2[0 + 1] = 2 * Pow2[0] /\ Pow2[0] = 1 /\ 0 + 1 = 1
    BY Pow2Is
  <2>. QED  BY <2>1
<1>3. Pow2[GroupBits] \in Nat /\ Pow2[1] <= Pow2[GroupBits]
  BY <1>1, Pow2Mono
<1>. QED  BY <1>1, <1>2, <1>3 DEF Cont

\* A byte's payload.
LEMMA ByteIs ==
    ASSUME NEW b
    PROVE  /\ b \in Byte => b \in Nat /\ Payload(b) \in Nat /\ Payload(b) < Cont
           /\ b \in Nat /\ b < Cont => b \in Byte /\ Payload(b) = b /\ ~More(b)
           /\ b \in Nat /\ b < Cont =>
                 Cont + b \in Byte /\ Payload(Cont + b) = b /\ More(Cont + b)
<1>1. Cont \in Nat /\ Cont >= 2
  BY ContIs
<1>2. ASSUME b \in Byte PROVE b \in Nat /\ Payload(b) \in Nat /\ Payload(b) < Cont
  BY <1>1, <1>2 DEF Byte, Payload
<1>3. ASSUME b \in Nat, b < Cont PROVE b \in Byte /\ Payload(b) = b /\ ~More(b)
  BY <1>1, <1>3 DEF Byte, Payload, More
<1>4. ASSUME b \in Nat, b < Cont
      PROVE  Cont + b \in Byte /\ Payload(Cont + b) = b /\ More(Cont + b)
  BY <1>1, <1>4 DEF Byte, Payload, More
<1>. QED  BY <1>2, <1>3, <1>4

\* The number of groups.
Fits(v, n) == v < Pow2[GroupBits * n]
Length(v) == CHOOSE n \in Nat \ {0} : Fits(v, n) /\ \A m \in Nat \ {0} : Fits(v, m) => n <= m

\* It is the least number of groups that v fits.
LEMMA LengthIs ==
    ASSUME NEW v \in Unsigned(Bits64)
    PROVE  /\ v \in Nat /\ v < Pow2[Bits64]
           /\ Length(v) \in Nat \ {0} /\ Fits(v, Length(v))
           /\ \A m \in Nat \ {0} : Fits(v, m) => Length(v) <= m
<1>1. /\ GroupBits \in Nat \ {0} /\ Bits64 \in Nat \ {0}
      /\ GroupBits * Bits64 \in Nat /\ Bits64 <= GroupBits * Bits64
  BY ContIs
<1>2. /\ Pow2[Bits64] \in Nat /\ Pow2[GroupBits * Bits64] \in Nat
      /\ Pow2[Bits64] <= Pow2[GroupBits * Bits64]
  BY <1>1, Pow2Mono
<1>3. v \in Nat /\ v < Pow2[Bits64]
  BY <1>2 DEF Unsigned
<1>4. Fits(v, Bits64)
  BY <1>2, <1>3 DEF Fits
<1>. DEFINE S == {m \in Nat \ {0} : Fits(v, m)}
<1>5. \E n \in S : \A m \in S : n <= m
  <2>1. S \in SUBSET Nat /\ S # {}
    BY <1>1, <1>4
  <2>. HIDE DEF S
  <2>. QED  BY <2>1, LeastNat
<1>6. \E n \in Nat \ {0} : Fits(v, n) /\ \A m \in Nat \ {0} : Fits(v, m) => n <= m
  BY <1>5
<1>. HIDE DEF S
<1>. QED  BY <1>3, <1>6 DEF Length

\* What fits some groups fits more of them.
LEMMA FitsMore ==
    ASSUME NEW v \in Nat, NEW m \in Nat, NEW n \in Nat, m <= n, Fits(v, m)
    PROVE  Fits(v, n)
<1>1. GroupBits * m \in Nat /\ GroupBits * n \in Nat /\ GroupBits * m <= GroupBits * n
  BY ContIs
<1>2. /\ Pow2[GroupBits * m] \in Nat /\ Pow2[GroupBits * n] \in Nat
      /\ Pow2[GroupBits * m] <= Pow2[GroupBits * n]
  BY <1>1, Pow2Mono
<1>. QED  BY <1>2 DEF Fits

\* What is left after a group fits one group less.
LEMMA FitsStep ==
    ASSUME NEW v \in Nat, NEW n \in Nat
    PROVE  v \div Cont \in Nat /\ (Fits(v \div Cont, n) <=> Fits(v, n + 1))
<1>. DEFINE p == Pow2[GroupBits * n]
<1>1. Cont \in Nat \ {0} /\ GroupBits \in Nat
  BY ContIs
<1>2. n + 1 \in Nat \ {0} /\ GroupBits * ((n + 1) - 1) = GroupBits * n
  BY <1>1
<1>3. p \in Nat /\ Pow2[GroupBits * (n + 1)] = p * Cont
  BY <1>1, <1>2, PlaceIs, ContIs
<1>. HIDE DEF p
<1>4. v \div Cont < p <=> v < p * Cont
  BY <1>1, <1>3, DivLess
<1>5. v \div Cont \in Nat
  BY <1>1, DivMod
<1>. QED  BY <1>3, <1>4, <1>5 DEF Fits, p

\* A value below Cont is one group.
LEMMA FitsOne ==
    ASSUME NEW v \in Nat PROVE Fits(v, 1) <=> v < Cont
<1>1. GroupBits * 1 = GroupBits
  BY ContIs
<1>. QED  BY <1>1, ContIs DEF Fits

\* The loop of encodeImpl shortens the value by one group a turn.
LEMMA LengthStep ==
    ASSUME NEW v \in Unsigned(Bits64)
    PROVE  /\ v < Cont => Length(v) = 1
           /\ v >= Cont => v \div Cont \in Unsigned(Bits64) /\ Length(v) = Length(v \div Cont) + 1
<1>1. /\ v \in Nat /\ v < Pow2[Bits64] /\ Length(v) \in Nat \ {0} /\ Fits(v, Length(v))
      /\ \A m \in Nat \ {0} : Fits(v, m) => Length(v) <= m
  BY LengthIs
<1>2. Cont \in Nat /\ Cont >= 2 /\ Pow2[Bits64] \in Nat
  BY ContIs, Pow2Is
<1>3. ASSUME v < Cont PROVE Length(v) = 1
  BY <1>1, <1>3, FitsOne
<1>4. ASSUME v >= Cont
      PROVE  v \div Cont \in Unsigned(Bits64) /\ Length(v) = Length(v \div Cont) + 1
  <2>. DEFINE q == v \div Cont
              n == Length(q)
              m == Length(v)
  <2>1. q \in Nat /\ q <= v
    BY <1>1, <1>2
  <2>2. q \in Unsigned(Bits64)
    BY <1>1, <1>2, <2>1 DEF Unsigned
  <2>3. n \in Nat \ {0} /\ Fits(q, n) /\ \A k \in Nat \ {0} : Fits(q, k) => n <= k
    BY <2>2, LengthIs
  <2>4. m \in Nat \ {0} /\ m # 1
    BY <1>1, <1>2, <1>4, FitsOne
  <2>5. m - 1 \in Nat \ {0} /\ (m - 1) + 1 = m
    BY <2>4
  <2>6. Fits(q, m - 1)
    BY <1>1, <2>5, FitsStep
  <2>7. Fits(v, n + 1)
    BY <1>1, <2>3, FitsStep
  <2>8. n <= m - 1
    BY <2>3, <2>5, <2>6
  <2>9. m <= n + 1
    BY <1>1, <2>3, <2>7
  <2>. QED  BY <2>2, <2>3, <2>4, <2>8, <2>9
<1>. QED  BY <1>3, <1>4

\* The bytes of a value, without the loop.
Cut(v) ==
    [i \in 1 .. Length(v) |->
        IF i = Length(v) THEN Digit(v, GroupBits, i) ELSE Cont + Digit(v, GroupBits, i)]

\* They are bytes, and the last is the one without the continuation bit.
LEMMA CutIs ==
    ASSUME NEW v \in Unsigned(Bits64)
    PROVE  /\ Cut(v) \in Seq(Byte) /\ Len(Cut(v)) = Length(v)
           /\ \A i \in 1 .. Length(v) : /\ Payload(Cut(v)[i]) = Digit(v, GroupBits, i)
                                        /\ More(Cut(v)[i]) <=> i # Length(v)
<1>1. v \in Nat /\ Length(v) \in Nat \ {0} /\ GroupBits \in Nat
  BY LengthIs, ContIs
<1>2. ASSUME NEW i \in 1 .. Length(v)
      PROVE  /\ Cut(v)[i] \in Byte /\ Payload(Cut(v)[i]) = Digit(v, GroupBits, i)
             /\ More(Cut(v)[i]) <=> i # Length(v)
  <2>. DEFINE d == Digit(v, GroupBits, i)
  <2>1. d \in Nat /\ d < Cont
    <3>1. i \in Nat \ {0}
      BY <1>1
    <3>. QED  BY <1>1, <3>1, DigitIs, ContIs
  <2>2. Cut(v)[i] = IF i = Length(v) THEN d ELSE Cont + d
    BY DEF Cut
  <2>. HIDE DEF d
  <2>3. /\ d \in Byte /\ Payload(d) = d /\ ~More(d)
        /\ Cont + d \in Byte /\ Payload(Cont + d) = d /\ More(Cont + d)
    BY <2>1, ByteIs
  <2>. QED  BY <2>2, <2>3 DEF d
<1>3. Cut(v) \in [1 .. Length(v) -> Byte]
  BY <1>2 DEF Cut
<1>4. Cut(v) \in Seq(Byte) /\ Len(Cut(v)) = Length(v)
  <2>. HIDE DEF Cut
  <2>. QED  BY <1>1, <1>3
<1>. QED  BY <1>2, <1>4

\* The digits behind the first are those of the quotient.
LEMMA DigitStep ==
    ASSUME NEW v \in Nat, NEW i \in Nat \ {0}
    PROVE  /\ Digit(v, GroupBits, i + 1) = Digit(v \div Cont, GroupBits, i)
           /\ Digit(v, GroupBits, 1) = v % Cont
<1>. DEFINE b == Pow2[GroupBits * (i - 1)]
<1>1. GroupBits \in Nat /\ Cont \in Nat \ {0} /\ Cont = Pow2[GroupBits]
  BY ContIs
<1>2. b \in Nat \ {0} /\ Pow2[GroupBits * i] = b * Cont
  BY <1>1, PlaceIs
<1>3. (i + 1) - 1 = i /\ GroupBits * (1 - 1) = 0
  BY <1>1
<1>4. Digit(v, GroupBits, i + 1) = (v \div Pow2[GroupBits * i]) % Cont
  BY <1>1, <1>3 DEF Digit
<1>5. Digit(v \div Cont, GroupBits, i) = ((v \div Cont) \div b) % Cont
  BY <1>1 DEF Digit
<1>. HIDE DEF b
<1>6. (v \div Cont) \div b = v \div (Cont * b) /\ Cont * b = b * Cont
  BY <1>1, <1>2, DivDiv
<1>7. Digit(v, GroupBits, 1) = (v \div Pow2[0]) % Cont
  BY <1>1, <1>3 DEF Digit
<1>8. v \div Pow2[0] = v
  BY Pow2Is
<1>. QED  BY <1>2, <1>4, <1>5, <1>6, <1>7, <1>8

\* A turn of encodeImpl's loop: the low group, then the bytes of the rest.
LEMMA CutStep ==
    ASSUME NEW v \in Unsigned(Bits64)
    PROVE  Cut(v) = IF v < Cont THEN <<v>> ELSE <<Cont + (v % Cont)>> \o Cut(v \div Cont)
<1>1. v \in Nat /\ Length(v) \in Nat \ {0} /\ Cont \in Nat /\ Cont >= 2
  BY LengthIs, ContIs
<1>2. Digit(v, GroupBits, 1) = v % Cont
  BY DigitStep, <1>1
<1>3. CASE v < Cont
  <2>1. Length(v) = 1 /\ v % Cont = v
    BY <1>1, <1>3, LengthStep
  <2>2. Cut(v) = [i \in 1 .. 1 |-> v]
    BY <1>2, <2>1 DEF Cut
  <2>. QED  BY <1>3, <2>2
<1>4. CASE ~(v < Cont)
  <2>. DEFINE q == v \div Cont
              a == <<Cont + (v % Cont)>> \o Cut(q)
  <2>1. q \in Unsigned(Bits64) /\ Length(v) = Length(q) + 1
    BY <1>1, <1>4, LengthStep
  <2>2. Length(q) \in Nat \ {0}
    BY <2>1, LengthIs
  <2>3. Cut(q) \in Seq(Byte) /\ Len(Cut(q)) = Length(q)
    BY <2>1, CutIs
  <2>4. v % Cont \in Nat
    BY <1>1
  <2>5. a \in Seq(Nat \cup Byte) /\ Len(a) = Length(v) /\ a[1] = Cont + (v % Cont)
    <3>. HIDE DEF q
    <3>. QED  BY <1>1, <2>1, <2>2, <2>3, <2>4
  <2>6. ASSUME NEW i \in 1 .. Length(v) PROVE a[i] = Cut(v)[i]
    <3>1. CASE i = 1
      BY <1>2, <2>1, <2>2, <2>5, <3>1 DEF Cut
    <3>2. CASE i # 1
      <4>. DEFINE j == i - 1
      <4>1. j \in Nat \ {0} /\ j \in 1 .. Length(q) /\ j + 1 = i
        BY <2>1, <2>2, <3>2
      <4>2. a[i] = Cut(q)[j]
        <5>. HIDE DEF q
        <5>. QED  BY <2>3, <2>4, <1>1, <4>1
      <4>3. Digit(v, GroupBits, i) = Digit(q, GroupBits, j)
        BY <1>1, <4>1, DigitStep
      <4>4. Cut(q)[j] = IF j = Length(q) THEN Digit(q, GroupBits, j)
                        ELSE Cont + Digit(q, GroupBits, j)
        BY <4>1 DEF Cut
      <4>5. i = Length(v) <=> j = Length(q)
        BY <2>1, <2>2, <4>1
      <4>. HIDE DEF q, j
      <4>. QED  BY <4>2, <4>3, <4>4, <4>5 DEF Cut
    <3>. QED  BY <3>1, <3>2
  <2>7. a = [i \in 1 .. Length(v) |-> a[i]]
    <3>. HIDE DEF a
    <3>. QED  BY <1>1, <2>5
  <2>8. Cut(v) = [i \in 1 .. Length(v) |-> Cut(v)[i]]
    BY DEF Cut
  <2>9. a = Cut(v)
    <3>. HIDE DEF a
    <3>. QED  BY <2>6, <2>7, <2>8
  <2>. QED  BY <1>4, <2>9
<1>. QED  BY <1>3, <1>4

\* Any two functions that treat a value as the loop does, by its quotient, are
\* the same function.
LEMMA SameTurns ==
    ASSUME NEW g, NEW h,
           \A v \in Unsigned(Bits64) : v < Cont => g[v] = h[v],
           \A v \in Unsigned(Bits64) :
               v >= Cont /\ g[v \div Cont] = h[v \div Cont] => g[v] = h[v]
    PROVE  \A v \in Unsigned(Bits64) : g[v] = h[v]
<1>. DEFINE B == {v \in Unsigned(Bits64) : g[v] # h[v]}
<1>. SUFFICES ASSUME B # {} PROVE FALSE
  OBVIOUS
<1>1. B \in SUBSET Nat
  BY LengthIs
<1>. HIDE DEF B
<1>2. PICK m \in B : \A k \in B : m <= k
  BY <1>1, LeastNat
<1>3. m \in Unsigned(Bits64) /\ g[m] # h[m] /\ m \in Nat /\ Cont \in Nat /\ Cont >= 2
  BY <1>1, ContIs DEF B
<1>4. m >= Cont
  BY <1>3
<1>5. m \div Cont \in Unsigned(Bits64) /\ m \div Cont \in Nat /\ m \div Cont < m
  BY <1>3, <1>4, LengthStep
<1>6. m \div Cont \notin B
  BY <1>2, <1>3, <1>5
<1>7. g[m \div Cont] = h[m \div Cont]
  BY <1>5, <1>6 DEF B
<1>. QED  BY <1>3, <1>4, <1>7

\* What encodeImpl's loop writes.
LEMMA GroupsIs ==
    ASSUME NEW v \in Unsigned(Bits64) PROVE Groups[v] = Cut(v)
<1>. DEFINE U == Unsigned(Bits64)
            Turns(g) == g = [u \in U |-> IF u < Cont THEN <<u>>
                                        ELSE <<Cont + (u % Cont)>> \o g[u \div Cont]]
            W == [u \in U |-> Cut(u)]
            H == CHOOSE g : Turns(g)
<1>1. \A u \in U : u \in Nat /\ Cont \in Nat /\ (~(u < Cont) => u >= Cont /\ u \div Cont \in U)
  BY LengthIs, LengthStep, ContIs
<1>2. \A u \in U : W[u] = IF u < Cont THEN <<u>> ELSE <<Cont + (u % Cont)>> \o W[u \div Cont]
  <2>. SUFFICES ASSUME NEW u \in U
                PROVE  W[u] = IF u < Cont THEN <<u>> ELSE <<Cont + (u % Cont)>> \o W[u \div Cont]
    OBVIOUS
  <2>1. Cut(u) = IF u < Cont THEN <<u>> ELSE <<Cont + (u % Cont)>> \o Cut(u \div Cont)
    BY CutStep
  <2>2. W[u] = Cut(u) /\ (~(u < Cont) => W[u \div Cont] = Cut(u \div Cont))
    BY <1>1
  <2>. HIDE DEF W
  <2>. QED  BY <2>1, <2>2
<1>3. W = [u \in U |-> W[u]]
  OBVIOUS
<1>. HIDE DEF W
<1>4. Turns(W)
  BY <1>2, <1>3
<1>5. Turns(H)
  BY <1>4
<1>6. Groups = H
  BY DEF Groups
<1>. HIDE DEF H
<1>7. \A u \in U : H[u] = IF u < Cont THEN <<u>> ELSE <<Cont + (u % Cont)>> \o H[u \div Cont]
  BY <1>5
<1>. HIDE DEF Turns
<1>8. \A u \in U : u < Cont => H[u] = W[u]
  BY <1>2, <1>7
<1>9. \A u \in U : u >= Cont /\ H[u \div Cont] = W[u \div Cont] => H[u] = W[u]
  <2>1. \A u \in U : u >= Cont => ~(u < Cont)
    BY <1>1
  <2>. QED  BY <1>2, <1>7, <2>1
<1>10. H[v] = W[v]
  BY <1>8, <1>9, SameTurns
<1>. QED  BY <1>6, <1>10 DEF W

\* encodedSizeImpl counts the groups.
LEMMA SizeIs ==
    ASSUME NEW v \in Unsigned(Bits64) PROVE EncodedSizeImpl[v] = Length(v)
<1>. DEFINE U == Unsigned(Bits64)
            Turns(g) == g = [u \in U |-> IF u >= Cont THEN 1 + g[u \div Cont] ELSE 1]
            W == [u \in U |-> Length(u)]
            H == CHOOSE g : Turns(g)
<1>1. \A u \in U : /\ u \in Nat /\ Cont \in Nat /\ Length(u) \in Nat
                   /\ u >= Cont => u \div Cont \in U /\ Length(u \div Cont) \in Nat
  BY LengthIs, LengthStep, ContIs
<1>2. \A u \in U : W[u] = IF u >= Cont THEN 1 + W[u \div Cont] ELSE 1
  <2>. SUFFICES ASSUME NEW u \in U PROVE W[u] = IF u >= Cont THEN 1 + W[u \div Cont] ELSE 1
    OBVIOUS
  <2>1. /\ u \in Nat /\ Cont \in Nat
        /\ u < Cont => Length(u) = 1
        /\ u >= Cont => Length(u) = Length(u \div Cont) + 1
    BY <1>1, LengthStep
  <2>2. W[u] = Length(u) /\ (u >= Cont => W[u \div Cont] = Length(u \div Cont))
    BY <1>1
  <2>. HIDE DEF W
  <2>. QED  BY <1>1, <2>1, <2>2
<1>3. W = [u \in U |-> W[u]]
  OBVIOUS
<1>. HIDE DEF W
<1>4. Turns(W)
  BY <1>2, <1>3
<1>5. Turns(H)
  BY <1>4
<1>6. EncodedSizeImpl = H
  BY DEF EncodedSizeImpl
<1>. HIDE DEF H
<1>7. \A u \in U : H[u] = IF u >= Cont THEN 1 + H[u \div Cont] ELSE 1
  BY <1>5
<1>. HIDE DEF Turns
<1>8. \A u \in U : u < Cont => H[u] = W[u]
  <2>1. \A u \in U : u < Cont => ~(u >= Cont)
    BY <1>1
  <2>. QED  BY <1>2, <1>7, <2>1
<1>9. \A u \in U : u >= Cont /\ H[u \div Cont] = W[u \div Cont] => H[u] = W[u]
  BY <1>2, <1>7
<1>10. H[v] = W[v]
  BY <1>8, <1>9, SameTurns
<1>. QED  BY <1>6, <1>10 DEF W

\* kMaxBytes groups hold the bits, and are at least one.
LEMMA MaxBytesIs ==
    ASSUME NEW bits \in Nat \ {0}
    PROVE  MaxBytes(bits) \in Nat \ {0} /\ bits <= GroupBits * MaxBytes(bits)
<1>. DEFINE a == bits + GroupBits - 1
            q == a \div GroupBits
<1>1. GroupBits \in Nat \ {0} /\ a \in Nat
  BY ContIs
<1>2. /\ q \in Nat /\ a % GroupBits \in Nat /\ a % GroupBits < GroupBits
      /\ a = GroupBits * q + (a % GroupBits)
  <2>. HIDE DEF a
  <2>. QED  BY <1>1, DivMod
<1>3. GroupBits * q \in Nat /\ bits <= GroupBits * q
  <2>1. GroupBits * q \in Nat
    BY <1>1, <1>2
  <2>. HIDE DEF q
  <2>. QED  BY <1>1, <1>2, <2>1
<1>4. q # 0
  <2>1. ASSUME q = 0 PROVE FALSE
    <3>1. GroupBits * q = 0
      BY <1>1, <2>1
    <3>. HIDE DEF q
    <3>. QED  BY <1>3, <3>1
  <2>. QED  BY <2>1
<1>. QED  BY <1>2, <1>3, <1>4 DEF MaxBytes

\* The unsigned types.
LEMMA UnsignedIs ==
    ASSUME NEW bits \in {Bits32, Bits64}, NEW v \in Unsigned(bits)
    PROVE  /\ v \in Unsigned(Bits64) /\ v \in Nat /\ v < Pow2[bits] /\ Pow2[bits] \in Nat
           /\ bits \in Nat \ {0} /\ Length(v) \in Nat \ {0} /\ Length(v) <= MaxBytes(bits)
<1>1. bits \in Nat \ {0} /\ Bits64 \in Nat /\ bits <= Bits64
  BY ContIs
<1>2. Pow2[bits] \in Nat /\ Pow2[Bits64] \in Nat /\ Pow2[bits] <= Pow2[Bits64]
  BY <1>1, Pow2Mono
<1>3. v \in Nat /\ v < Pow2[bits]
  BY <1>2 DEF Unsigned
<1>4. v \in Unsigned(Bits64)
  BY <1>2, <1>3 DEF Unsigned
<1>5. MaxBytes(bits) \in Nat \ {0} /\ bits <= GroupBits * MaxBytes(bits)
  BY <1>1, MaxBytesIs
<1>6. GroupBits * MaxBytes(bits) \in Nat
  BY <1>5, ContIs
<1>7. /\ Pow2[GroupBits * MaxBytes(bits)] \in Nat
      /\ Pow2[bits] <= Pow2[GroupBits * MaxBytes(bits)]
  BY <1>1, <1>5, <1>6, Pow2Mono
<1>8. Fits(v, MaxBytes(bits))
  BY <1>2, <1>3, <1>7 DEF Fits
<1>9. Length(v) \in Nat \ {0} /\ Length(v) <= MaxBytes(bits)
  BY <1>4, <1>5, <1>8, LengthIs
<1>. QED  BY <1>1, <1>2, <1>3, <1>4, <1>9

\* encodeU32 and encodeU64 succeed and write the bytes of the value.
LEMMA EncodeUIs ==
    ASSUME NEW bits \in {Bits32, Bits64}, NEW v \in Unsigned(bits)
    PROVE  EncodeU(v, bits) = [ok |-> TRUE, bytes |-> Cut(v)]
<1>1. v \in Unsigned(Bits64) /\ Length(v) \in Nat /\ Length(v) <= MaxBytes(bits)
  BY UnsignedIs
<1>2. Groups[v] = Cut(v) /\ Len(Groups[v]) = Length(v)
  BY <1>1, GroupsIs, CutIs
<1>3. MaxBytes(bits) \in Nat
  BY MaxBytesIs, UnsignedIs
<1>4. ~(Len(Groups[v]) > MaxBytes(bits))
  BY <1>1, <1>2, <1>3
<1>. QED  BY <1>2, <1>4 DEF EncodeU, EncodeImpl

-----------------------------------------------------------------------------
(***************************************************************************)
(* The decoding.  Up to the first byte without the continuation bit the    *)
(* loop adds up the bytes' payloads; at that byte it is done, and what     *)
(* comes behind it is not looked at.                                       *)
(***************************************************************************)
\* The states of decodeImpl's loop.
LoopState == [stands : {"loop", "done", "overflow", "end of input"}, used : Nat, value : Nat]
LoopStart == [stands |-> "loop", used |-> 0, value |-> 0]

\* The run of the loop.
Runs(t, in, max) ==
    /\ t \in [0 .. max -> LoopState] /\ t[0] = LoopStart
    /\ \A i \in 1 .. max : t[i] = DecodeTurn(in, i, t[i - 1])
Outcome(end) == [ok |-> end.stands = "done", value |-> end.value, used |-> end.used]

\* The outcome is one of two.
LEMMA OutcomeIs ==
    ASSUME NEW end
    PROVE  Outcome(end) = IF end.stands = "done"
                          THEN [ok |-> TRUE, value |-> end.value, used |-> end.used]
                          ELSE [ok |-> FALSE, value |-> end.value, used |-> end.used]
<1>1. CASE end.stands = "done"
  <2>1. (end.stands = "done") = TRUE
    BY <1>1
  <2>. QED  BY <1>1, <2>1 DEF Outcome
<1>2. CASE end.stands # "done"
  <2>1. (end.stands = "done") = FALSE
    BY <1>2
  <2>. QED  BY <1>2, <2>1 DEF Outcome
<1>. QED  BY <1>1, <1>2

\* What a byte adds to the value.
LEMMA ShiftedIs ==
    ASSUME NEW b \in Byte, NEW n \in Nat
    PROVE  /\ Shifted(b, n) \in Nat
           /\ Payload(b) * Pow2[n] < Pow2[Bits64] => Shifted(b, n) = Payload(b) * Pow2[n]
<1>1. Payload(b) \in Nat /\ Pow2[n] \in Nat /\ Pow2[Bits64] \in Nat \ {0}
  BY ByteIs, Pow2Is, ContIs
<1>2. Payload(b) * Pow2[n] \in Nat
  BY <1>1
<1>. DEFINE a == Payload(b) * Pow2[n]
<1>3. a % Pow2[Bits64] \in Nat /\ (a < Pow2[Bits64] => a % Pow2[Bits64] = a)
  <2>. HIDE DEF a
  <2>. QED  BY <1>1, <1>2 DEF a
<1>. QED  BY <1>3 DEF Shifted

\* A turn of the loop stays in the loop's states.
LEMMA TurnIs ==
    ASSUME NEW in \in Seq(Byte), NEW i \in Nat \ {0}, NEW t \in LoopState
    PROVE  DecodeTurn(in, i, t) \in LoopState
<1>1. CASE t.stands # "loop"
  BY <1>1 DEF DecodeTurn
<1>2. CASE t.stands = "loop" /\ i > Len(in)
  BY <1>2 DEF DecodeTurn, LoopState
<1>3. CASE t.stands = "loop" /\ ~(i > Len(in))
  <2>1. in[i] \in Byte
    BY <1>3
  <2>2. GroupBits * (i - 1) \in Nat
    BY ContIs
  <2>3. Shifted(in[i], GroupBits * (i - 1)) \in Nat
    BY <2>1, <2>2, ShiftedIs
  <2>4. t.value + Shifted(in[i], GroupBits * (i - 1)) \in Nat
    <3>1. t.value \in Nat
      BY DEF LoopState
    <3>. QED  BY <2>3, <3>1
  <2>. QED  BY <1>3, <2>4 DEF DecodeTurn, LoopState
<1>. QED  BY <1>1, <1>2, <1>3

\* decodeImpl runs the loop and reports how it ended.
LEMMA DecodeRuns ==
    ASSUME NEW in \in Seq(Byte), NEW max \in Nat
    PROVE  \E t : Runs(t, in, max) /\ DecodeImpl(in, max) = Outcome(t[max])
<1>. DEFINE Turns(g) == g = [i \in 0 .. max |-> IF i = 0 THEN LoopStart
                                              ELSE DecodeTurn(in, i, g[i - 1])]
            H == CHOOSE g : Turns(g)
            s == [i \in 1 .. max |-> [t \in LoopState |-> DecodeTurn(in, i, t)]]
<1>1. LoopStart \in LoopState
  BY DEF LoopStart, LoopState
<1>2. \A i \in 1 .. max : \A t \in LoopState : DecodeTurn(in, i, t) \in LoopState
  BY TurnIs
<1>3. s \in [1 .. max -> [LoopState -> LoopState]]
  BY <1>2
<1>4. \A i \in 1 .. max : \A t \in LoopState : s[i][t] = DecodeTurn(in, i, t)
  OBVIOUS
<1>. HIDE DEF s
<1>5. PICK g \in [0 .. max -> LoopState] :
          g[0] = LoopStart /\ \A i \in 1 .. max : g[i] = s[i][g[i - 1]]
  <2>1. Iterated(LoopState, LoopStart, s, max)
    BY <1>1, <1>3, Iterates
  <2>. QED  BY <2>1 DEF Iterated
<1>6. \A i \in 1 .. max : g[i - 1] \in LoopState
  BY <1>5
<1>7. \A i \in 1 .. max : g[i] = DecodeTurn(in, i, g[i - 1])
  BY <1>4, <1>5, <1>6
<1>8. Turns(g)
  <2>1. g = [i \in 0 .. max |-> g[i]]
    BY <1>5
  <2>2. \A i \in 0 .. max : g[i] = IF i = 0 THEN LoopStart ELSE DecodeTurn(in, i, g[i - 1])
    <3>1. \A i \in 0 .. max : i # 0 => i \in 1 .. max
      OBVIOUS
    <3>. QED  BY <1>5, <1>7, <3>1
  <2>. QED  BY <2>1, <2>2
<1>9. Turns(H)
  BY <1>8
<1>10. DecodeImpl(in, max) = Outcome(H[max])
  BY DEF DecodeImpl, Outcome, LoopStart
<1>. HIDE DEF H
<1>11. H[0] = LoopStart /\ \A i \in 1 .. max : H[i] = DecodeTurn(in, i, H[i - 1])
  BY <1>9
<1>12. DOMAIN H = 0 .. max /\ H = [i \in DOMAIN H |-> H[i]]
  BY <1>9
<1>. HIDE DEF Turns
<1>. DEFINE T == {i \in 0 .. max : H[i] \in LoopState}
<1>13. 0 \in T
  BY <1>1, <1>11
<1>14. ASSUME NEW i \in 1 .. max, i - 1 \in T PROVE i \in T
  BY <1>2, <1>11, <1>14
<1>. HIDE DEF T
<1>15. 0 .. max \subseteq T
  BY <1>13, <1>14, UpTo
<1>16. H \in [0 .. max -> LoopState]
  BY <1>12, <1>15 DEF T
<1>17. Runs(H, in, max)
  BY <1>11, <1>16 DEF Runs
<1>. QED  BY <1>10, <1>17

\* What decodeImpl returns is a number, and so is what it consumed.
LEMMA DecodeImplIs ==
    ASSUME NEW in \in Seq(Byte), NEW max \in Nat
    PROVE  DecodeImpl(in, max) \in [ok : BOOLEAN, value : Nat, used : Nat]
<1>1. PICK t : Runs(t, in, max) /\ DecodeImpl(in, max) = Outcome(t[max])
  BY DecodeRuns
<1>2. t[max] \in LoopState
  BY <1>1 DEF Runs
<1>3. t[max].value \in Nat /\ t[max].used \in Nat
  BY <1>2 DEF LoopState
<1>4. Outcome(t[max]) \in [ok : BOOLEAN, value : Nat, used : Nat]
  <2>. DEFINE o(b) == [ok |-> b, value |-> t[max].value, used |-> t[max].used]
  <2>1. \A b \in BOOLEAN : o(b) \in [ok : BOOLEAN, value : Nat, used : Nat]
    BY <1>3
  <2>2. Outcome(t[max]) = o(TRUE) \/ Outcome(t[max]) = o(FALSE)
    BY OutcomeIs
  <2>. HIDE DEF o
  <2>. QED  BY <2>1, <2>2
<1>. QED  BY <1>1, <1>4

\* The first byte without the continuation bit is byte e, and no payload before
\* it is pushed out of the 64 bits.
EndsAt(in, e) ==
    /\ e \in DOMAIN in /\ ~More(in[e])
    /\ \A i \in 1 .. e - 1 : More(in[i]) /\ GroupBits * i < Bits64

\* g[i] is what the first i bytes add up to.
Collects(g, in, e) ==
    /\ g \in [0 .. e -> Nat] /\ g[0] = 0
    /\ \A i \in 1 .. e : g[i] = g[i - 1] + Shifted(in[i], GroupBits * (i - 1))

\* Byte i as one turn of the loop sees it.
LEMMA OneTurn ==
    ASSUME NEW in, NEW i, NEW v, NEW u, ~(i > Len(in))
    PROVE  /\ ~More(in[i]) =>
                 DecodeTurn(in, i, [stands |-> "loop", used |-> u, value |-> v])
                   = [stands |-> "done", used |-> i,
                      value |-> v + Shifted(in[i], GroupBits * (i - 1))]
           /\ More(in[i]) /\ ~(GroupBits * i >= Bits64) =>
                 DecodeTurn(in, i, [stands |-> "loop", used |-> u, value |-> v])
                   = [stands |-> "loop", used |-> i,
                      value |-> v + Shifted(in[i], GroupBits * (i - 1))]
BY DEF DecodeTurn

\* decodeImpl accepts what ends in time.
LEMMA DecodeDone ==
    ASSUME NEW in \in Seq(Byte), NEW max \in Nat, NEW e \in 1 .. max, EndsAt(in, e),
           NEW g, Collects(g, in, e)
    PROVE  DecodeImpl(in, max) = [ok |-> TRUE, value |-> g[e], used |-> e]
<1>1. PICK t : Runs(t, in, max) /\ DecodeImpl(in, max) = Outcome(t[max])
  BY DecodeRuns
<1>2. e \in 1 .. Len(in) /\ ~More(in[e])
  BY DEF EndsAt
<1>. DEFINE Loop(i) == [stands |-> "loop", used |-> i, value |-> g[i]]
            Done == [stands |-> "done", used |-> e, value |-> g[e]]
            T == {i \in 0 .. max : t[i] = IF i < e THEN Loop(i) ELSE Done}
<1>3. 0 \in T
  BY <1>1 DEF Runs, LoopStart, Collects
<1>4. ASSUME NEW i \in 1 .. max, i - 1 \in T PROVE i \in T
  <2>1. /\ t[i] = DecodeTurn(in, i, t[i - 1])
        /\ t[i - 1] = IF i - 1 < e THEN Loop(i - 1) ELSE Done
    BY <1>1, <1>4 DEF Runs
  <2>2. CASE i > e
    <3>1. t[i - 1] = Done
      BY <2>1, <2>2
    <3>2. Done.stands # "loop"
      OBVIOUS
    <3>3. t[i] = Done
      <4>. HIDE DEF Done
      <4>. QED  BY <2>1, <3>1, <3>2 DEF DecodeTurn
    <3>. QED  BY <2>2, <3>3
  <2>3. CASE ~(i > e)
    <3>1. i \in 1 .. e /\ ~(i > Len(in)) /\ t[i - 1] = Loop(i - 1)
      BY <1>2, <2>1, <2>3
    <3>2. g[i] = g[i - 1] + Shifted(in[i], GroupBits * (i - 1))
      BY <3>1 DEF Collects
    <3>3. CASE i = e
      <4>1. DecodeTurn(in, i, Loop(i - 1))
              = [stands |-> "done", used |-> i,
                 value |-> g[i - 1] + Shifted(in[i], GroupBits * (i - 1))]
        <5>1. ~More(in[i]) /\ ~(i > Len(in))
          BY <1>2, <3>1, <3>3
        <5>. QED  BY <5>1, OneTurn
      <4>2. t[i] = Done
        BY <2>1, <3>1, <3>2, <3>3, <4>1
      <4>. QED  BY <3>3, <4>2
    <3>4. CASE i # e
      <4>1. i \in 1 .. e - 1
        BY <3>1, <3>4
      <4>2. More(in[i]) /\ ~(GroupBits * i >= Bits64)
        BY <4>1, ContIs DEF EndsAt
      <4>3. DecodeTurn(in, i, Loop(i - 1))
              = [stands |-> "loop", used |-> i,
                 value |-> g[i - 1] + Shifted(in[i], GroupBits * (i - 1))]
        BY <3>1, <4>2, OneTurn
      <4>4. t[i] = Loop(i)
        BY <2>1, <3>1, <3>2, <4>3
      <4>. QED  BY <4>1, <4>4
    <3>. QED  BY <3>3, <3>4
  <2>. QED  BY <2>2, <2>3
<1>. HIDE DEF T
<1>5. max \in T
  BY <1>3, <1>4, UpTo
<1>6. t[max] = Done
  BY <1>5 DEF T
<1>7. Done.stands = "done" /\ Done.value = g[e] /\ Done.used = e
  OBVIOUS
<1>. HIDE DEF Done
<1>. QED  BY <1>1, <1>6, <1>7, OutcomeIs

\* decodeImpl refuses what does not end in time.
LEMMA DecodeFails ==
    ASSUME NEW in \in Seq(Byte), NEW max \in Nat,
           \A i \in 1 .. max : i <= Len(in) => More(in[i])
    PROVE  ~DecodeImpl(in, max).ok
<1>1. PICK t : Runs(t, in, max) /\ DecodeImpl(in, max) = Outcome(t[max])
  BY DecodeRuns
<1>. DEFINE T == {i \in 0 .. max : t[i].stands # "done"}
<1>2. 0 \in T
  BY <1>1 DEF Runs, LoopStart
<1>3. ASSUME NEW i \in 1 .. max, i - 1 \in T PROVE i \in T
  <2>1. t[i] = DecodeTurn(in, i, t[i - 1]) /\ t[i - 1] \in LoopState /\ t[i - 1].stands # "done"
    BY <1>1, <1>3 DEF Runs
  <2>2. i > Len(in) \/ More(in[i])
    OBVIOUS
  <2>3. DecodeTurn(in, i, t[i - 1]).stands # "done"
    BY <2>1, <2>2 DEF DecodeTurn, LoopState
  <2>. QED  BY <2>1, <2>3
<1>. HIDE DEF T
<1>4. max \in T
  BY <1>2, <1>3, UpTo
<1>5. t[max].stands # "done"
  BY <1>4 DEF T
<1>. QED  BY <1>1, <1>5, OutcomeIs

-----------------------------------------------------------------------------
(***************************************************************************)
(* Reading back what was encoded.                                          *)
(***************************************************************************)
\* The input begins with the bytes.
Begins(in, bytes) == Len(bytes) <= Len(in) /\ \A i \in 1 .. Len(bytes) : in[i] = bytes[i]

\* No group of a 64-bit value but the last reaches bit 64.
LEMMA GroupsBelow64 ==
    ASSUME NEW v \in Unsigned(Bits64), NEW i \in 1 .. Length(v) - 1
    PROVE  GroupBits * i < Bits64
<1>1. /\ v \in Nat /\ v < Pow2[Bits64] /\ Length(v) \in Nat
      /\ \A m \in Nat \ {0} : Fits(v, m) => Length(v) <= m
  BY LengthIs
<1>2. i \in Nat \ {0} /\ i < Length(v)
  BY <1>1
<1>3. GroupBits * i \in Nat /\ Bits64 \in Nat
  BY <1>2, ContIs
<1>4. ~Fits(v, i)
  BY <1>1, <1>2
<1>5. ASSUME ~(GroupBits * i < Bits64) PROVE FALSE
  <2>1. /\ Pow2[Bits64] \in Nat /\ Pow2[GroupBits * i] \in Nat
        /\ Pow2[Bits64] <= Pow2[GroupBits * i]
    BY <1>3, <1>5, Pow2Mono
  <2>. QED  BY <1>1, <1>4, <2>1 DEF Fits
<1>. QED  BY <1>5

\* decodeImpl returns the value that was encoded, whatever comes behind it.
LEMMA DecodeCut ==
    ASSUME NEW bits \in {Bits32, Bits64}, NEW v \in Unsigned(bits),
           NEW in \in Seq(Byte), Begins(in, Cut(v))
    PROVE  DecodeImpl(in, MaxBytes(bits)) = [ok |-> TRUE, value |-> v, used |-> Length(v)]
<1>. DEFINE e == Length(v)
            d == [i \in 1 .. e |-> Digit(v, GroupBits, i)]
<1>1. /\ v \in Unsigned(Bits64) /\ v \in Nat /\ v < Pow2[Bits64]
      /\ e \in Nat \ {0} /\ e <= MaxBytes(bits) /\ MaxBytes(bits) \in Nat
      /\ Fits(v, e) /\ Pow2[Bits64] \in Nat
  <2>1. v \in Unsigned(Bits64) /\ bits \in Nat \ {0} /\ e \in Nat \ {0} /\ e <= MaxBytes(bits)
    BY UnsignedIs
  <2>2. MaxBytes(bits) \in Nat
    BY <2>1, MaxBytesIs
  <2>3. v \in Nat /\ v < Pow2[Bits64] /\ Fits(v, e)
    BY <2>1, LengthIs
  <2>4. Pow2[Bits64] \in Nat
    BY ContIs, Pow2Is
  <2>. QED  BY <2>1, <2>2, <2>3, <2>4
<1>2. /\ Len(Cut(v)) = e
      /\ \A i \in 1 .. e : Payload(Cut(v)[i]) = Digit(v, GroupBits, i) /\ (More(Cut(v)[i]) <=> i # e)
  BY <1>1, CutIs
<1>3. /\ e <= Len(in)
      /\ \A i \in 1 .. e : Payload(in[i]) = Digit(v, GroupBits, i) /\ (More(in[i]) <=> i # e)
  <2>. HIDE DEF e
  <2>. QED  BY <1>2 DEF Begins
<1>4. d \in [1 .. e -> Nat]
  <2>1. ASSUME NEW i \in 1 .. e PROVE Digit(v, GroupBits, i) \in Nat
    <3>1. i \in Nat \ {0}
      OBVIOUS
    <3>. QED  BY <1>1, <3>1, ContIs, DigitIs
  <2>. QED  BY <2>1
<1>5. \A i \in 1 .. e : d[i] = Digit(v, GroupBits, i)
  OBVIOUS
<1>. HIDE DEF d, e
<1>6. PICK g : Sums(g, e, d, GroupBits)
  BY <1>1, <1>4, ContIs, SumsExist
<1>7. GroupBits \in Nat /\ v < Pow2[GroupBits * e]
  BY <1>1, ContIs DEF Fits
<1>8. g[e] = v
  BY <1>1, <1>5, <1>6, <1>7, DigitsStandFor
<1>9. EndsAt(in, e)
  <2>1. e \in DOMAIN in /\ ~More(in[e])
    BY <1>1, <1>3
  <2>2. ASSUME NEW i \in 1 .. e - 1 PROVE More(in[i]) /\ GroupBits * i < Bits64
    <3>1. i \in 1 .. e /\ i # e
      BY <1>1
    <3>. QED  BY <1>1, <1>3, <3>1, GroupsBelow64 DEF e
  <2>. QED  BY <2>1, <2>2 DEF EndsAt
<1>10. Collects(g, in, e)
  <2>1. ASSUME NEW i \in 1 .. e
        PROVE  Shifted(in[i], GroupBits * (i - 1)) = Share(d, GroupBits, i)
    <3>1. in[i] \in Byte
      BY <1>1, <1>3
    <3>2. GroupBits * (i - 1) \in Nat
      BY <1>7
    <3>3. Payload(in[i]) * Pow2[GroupBits * (i - 1)] = Share(d, GroupBits, i)
      BY <1>3, <1>5 DEF Share
    <3>4. g[i - 1] \in Nat /\ g[i] = g[i - 1] + Share(d, GroupBits, i)
      BY <1>1, <1>6, SumsStep
    <3>5. Share(d, GroupBits, i) \in Nat
      BY <1>1, <1>4, <1>7, ShareIs
    <3>6. g[i] <= v
      <4>1. i \in 0 .. e /\ i \in Nat /\ GroupBits * i \in Nat
        BY <1>1, <1>7
      <4>2. g[i] = v % Pow2[GroupBits * i]
        <5>1. v \in Nat /\ e \in Nat /\ GroupBits \in Nat
          BY <1>1, <1>7
        <5>2. \A k \in 0 .. e : g[k] = v % Pow2[GroupBits * k]
          BY <1>5, <1>6, <5>1, DigitSums
        <5>. QED  BY <4>1, <5>2
      <4>3. Pow2[GroupBits * i] \in Nat \ {0}
        BY <4>1, Pow2Is
      <4>. DEFINE p == Pow2[GroupBits * i]
      <4>4. v % p <= v
        <5>. HIDE DEF p
        <5>. QED  BY <1>1, <4>3 DEF p
      <4>. QED  BY <4>2, <4>4
    <3>7. Share(d, GroupBits, i) < Pow2[Bits64]
      BY <1>1, <3>4, <3>5, <3>6
    <3>. QED  BY <3>1, <3>2, <3>3, <3>7, ShiftedIs
  <2>. QED  BY <1>6, <2>1 DEF Collects, Sums
<1>11. e \in 1 .. MaxBytes(bits)
  BY <1>1
<1>12. DecodeImpl(in, MaxBytes(bits)) = [ok |-> TRUE, value |-> g[e], used |-> e]
  BY <1>1, <1>9, <1>10, <1>11, DecodeDone
<1>. QED  BY <1>8, <1>12 DEF e

\* decodeU32 and decodeU64 do.
LEMMA DecodeUCut ==
    ASSUME NEW bits \in {Bits32, Bits64}, NEW v \in Unsigned(bits),
           NEW in \in Seq(Byte), Begins(in, Cut(v))
    PROVE  /\ bits = Bits32 => DecodeU32(in) = [ok |-> TRUE, value |-> v, used |-> Length(v)]
           /\ bits = Bits64 => DecodeU64(in) = [ok |-> TRUE, value |-> v, used |-> Length(v)]
<1>. DEFINE r == [ok |-> TRUE, value |-> v, used |-> Length(v)]
<1>1. DecodeImpl(in, MaxBytes(bits)) = r
  BY DecodeCut
<1>2. ASSUME bits = Bits32 PROVE DecodeU32(in) = r
  <2>1. v \in Unsigned(Bits32)
    BY <1>2
  <2>2. (r.ok /\ r.value \in Unsigned(Bits32)) = TRUE
    BY <2>1
  <2>3. DecodeU32(in) = [r EXCEPT !.ok = r.ok /\ r.value \in Unsigned(Bits32)]
    BY <1>1, <1>2 DEF DecodeU32
  <2>4. DecodeU32(in) = [r EXCEPT !.ok = TRUE]
    BY <2>2, <2>3
  <2>. QED  BY <2>4
<1>. QED  BY <1>1, <1>2 DEF DecodeU64

-----------------------------------------------------------------------------
(***************************************************************************)
(* What any string of bytes decodes to.                                    *)
(***************************************************************************)
\* Products keep the order.
LEMMA TimesLess ==
    ASSUME NEW a \in Nat, NEW c \in Nat, NEW b \in Nat \ {0}
    PROVE  /\ a < c => a * b < b * c
           /\ a <= c => b * a <= b * c
           /\ a * b \in Nat /\ b * a \in Nat /\ b * c \in Nat
OBVIOUS

\* The least of a set of naturals.
LEMMA MinIs ==
    ASSUME NEW S \in SUBSET Nat, S # {}
    PROVE  Min(S) \in S /\ \A k \in S : Min(S) <= k
BY LeastNat DEF Min

\* What decodeU32 makes of a string of bytes that ends in time.
LEMMA DecodeMeaning ==
    ASSUME NEW in \in Seq(Byte), Ends(in) # {}, Min(Ends(in)) <= MaxBytes(Bits32)
    PROVE  /\ Meaning(in) \in Nat
           /\ DecodeImpl(in, MaxBytes(Bits32))
                = [ok |-> TRUE, value |-> Meaning(in), used |-> Min(Ends(in))]
<1>. DEFINE e == Min(Ends(in))
            m == MaxBytes(Bits32)
            d == [i \in 1 .. e |-> Payload(in[i])]
<1>1. /\ GroupBits \in Nat \ {0} /\ Bits64 \in Nat /\ Cont = Pow2[GroupBits] /\ Cont \in Nat
      /\ m \in Nat \ {0} /\ GroupBits * m <= Bits64
  BY ContIs, MaxBytesIs, WidthAssumption
<1>2. e \in Ends(in) /\ \A i \in Ends(in) : e <= i
  <2>1. Ends(in) \in SUBSET Nat
    BY DEF Ends
  <2>. QED  BY <2>1, MinIs
<1>3. e \in 1 .. Len(in) /\ e \in 1 .. m /\ ~More(in[e]) /\ e \in Nat
  <2>. HIDE DEF e, m
  <2>1. e \in 1 .. Len(in) /\ ~More(in[e])
    BY <1>2 DEF Ends
  <2>2. e <= m
    BY DEF e, m
  <2>. QED  BY <1>1, <2>1, <2>2
<1>4. ASSUME NEW i \in 1 .. e
      PROVE  i \in 1 .. Len(in) /\ in[i] \in Byte /\ Payload(in[i]) \in Nat /\ Payload(in[i]) < Cont
  <2>. HIDE DEF e, m
  <2>1. i \in 1 .. Len(in)
    BY <1>3
  <2>2. in[i] \in Byte
    BY <2>1
  <2>. QED  BY <2>1, <2>2, ByteIs
<1>5. d \in [1 .. e -> Nat] /\ \A i \in 1 .. e : d[i] = Payload(in[i])
  <2>. HIDE DEF e
  <2>. QED  BY <1>4
<1>6. Meaning(in) = InBase(d, GroupBits)
  BY DEF Meaning
<1>. HIDE DEF d, e, m
<1>7. PICK g : Sums(g, e, d, GroupBits)
  BY <1>1, <1>3, <1>5, SumsExist
<1>8. Meaning(in) = g[e]
  BY <1>1, <1>3, <1>5, <1>6, <1>7, InBaseSums
<1>9. EndsAt(in, e)
  <2>1. ASSUME NEW i \in 1 .. e - 1 PROVE More(in[i]) /\ GroupBits * i < Bits64
    <3>1. i \in 1 .. e /\ i < e /\ i < m /\ i \in Nat
      BY <1>1, <1>3
    <3>2. i \in DOMAIN in
      BY <1>4, <3>1
    <3>3. More(in[i])
      BY <1>2, <1>3, <3>1, <3>2 DEF Ends
    <3>4. GroupBits * i < GroupBits * m
      BY <1>1, <3>1
    <3>5. GroupBits * i \in Nat /\ GroupBits * m \in Nat
      BY <1>1, <3>1
    <3>. QED  BY <1>1, <3>3, <3>4, <3>5
  <2>. QED  BY <1>3, <2>1 DEF EndsAt
<1>10. Collects(g, in, e)
  <2>1. ASSUME NEW i \in 1 .. e
        PROVE  Shifted(in[i], GroupBits * (i - 1)) = Share(d, GroupBits, i)
    <3>. DEFINE b == Pow2[GroupBits * (i - 1)]
    <3>1. i \in Nat \ {0} /\ i <= m
      BY <1>1, <1>3
    <3>2. /\ GroupBits * (i - 1) \in Nat /\ GroupBits * i \in Nat
          /\ b \in Nat \ {0} /\ Pow2[GroupBits * i] = b * Cont
      BY <1>1, <3>1, PlaceIs
    <3>3. GroupBits * i <= Bits64
      <4>. DEFINE p == GroupBits * i
                  q == GroupBits * m
      <4>1. p <= q /\ p \in Nat /\ q \in Nat /\ q <= Bits64
        BY <1>1, <3>1, TimesLess
      <4>. HIDE DEF p, q
      <4>2. p <= Bits64
        BY <1>1, <4>1
      <4>. QED  BY <4>2 DEF p
    <3>4. /\ Pow2[GroupBits * i] <= Pow2[Bits64]
          /\ Pow2[GroupBits * i] \in Nat /\ Pow2[Bits64] \in Nat
      BY <1>1, <3>2, <3>3, Pow2Mono
    <3>5. Payload(in[i]) * b < Pow2[Bits64]
      <4>. DEFINE a == Payload(in[i])
      <4>1. a \in Nat /\ a < Cont
        BY <1>4
      <4>. HIDE DEF a, b
      <4>2. a * b < b * Cont
        BY <1>1, <3>2, <4>1, TimesLess
      <4>3. a * b \in Nat
        BY <3>2, <4>1
      <4>. QED  BY <3>2, <3>4, <4>2, <4>3 DEF a
    <3>6. Payload(in[i]) * b = Share(d, GroupBits, i)
      BY <1>5 DEF Share
    <3>. QED  BY <1>4, <3>2, <3>5, <3>6, ShiftedIs
  <2>. QED  BY <1>7, <2>1 DEF Collects, Sums
<1>11. DecodeImpl(in, m) = [ok |-> TRUE, value |-> g[e], used |-> e]
  BY <1>1, <1>3, <1>9, <1>10, DecodeDone
<1>12. g[e] \in Nat
  BY <1>3, <1>7 DEF Sums
<1>. QED  BY <1>8, <1>11, <1>12 DEF e, m

\* What DecodeU32Exact says of one string of bytes.
Exact(in) ==
    LET d == DecodeU32(in)
        fits == /\ Ends(in) # {} /\ Min(Ends(in)) <= MaxBytes(Bits32)
                /\ Meaning(in) \in Unsigned(Bits32)
    IN  d.ok = fits /\ (fits => d.value = Meaning(in) /\ d.used = Min(Ends(in)))

\* decodeU32 accepts a string of bytes exactly when it holds the encoding of a
\* value of 32 bits, and returns that value: a longer encoding, a value that is
\* too wide and a string that ends early are refused.
LEMMA DecodeU32IsExact ==
    ASSUME NEW in \in Seq(Byte) PROVE Exact(in)
<1>. DEFINE m == MaxBytes(Bits32)
            inTime == Ends(in) # {} /\ Min(Ends(in)) <= m
            fits == inTime /\ Meaning(in) \in Unsigned(Bits32)
            d == DecodeImpl(in, m)
<1>1. m \in Nat
  BY ContIs, MaxBytesIs
<1>2. /\ DecodeU32(in).ok = (d.ok /\ d.value \in Unsigned(Bits32))
      /\ DecodeU32(in).value = d.value /\ DecodeU32(in).used = d.used
  <2>. HIDE DEF m
  <2>1. d \in [ok : BOOLEAN, value : Nat, used : Nat]
    BY <1>1, DecodeImplIs
  <2>2. DecodeU32(in) = [d EXCEPT !.ok = d.ok /\ d.value \in Unsigned(Bits32)]
    BY DEF DecodeU32, m
  <2>. HIDE DEF d
  <2>. QED  BY <2>1, <2>2
<1>3. CASE inTime
  <2>1. d = [ok |-> TRUE, value |-> Meaning(in), used |-> Min(Ends(in))]
    BY <1>3, DecodeMeaning
  <2>2. d.ok = TRUE /\ d.value = Meaning(in) /\ d.used = Min(Ends(in))
    BY <2>1
  <2>. HIDE DEF d, m
  <2>3. DecodeU32(in).ok = (Meaning(in) \in Unsigned(Bits32))
    BY <1>2, <2>2
  <2>4. fits = (Meaning(in) \in Unsigned(Bits32))
    BY <1>3
  <2>. HIDE DEF inTime
  <2>5. DecodeU32(in).ok = fits
    BY <2>3, <2>4
  <2>. QED  BY <1>2, <2>2, <2>5 DEF Exact, inTime, m
<1>4. CASE ~inTime
  <2>1. ASSUME NEW i \in 1 .. m, i <= Len(in), ~More(in[i]) PROVE FALSE
    <3>1. i \in Ends(in) /\ i \in Nat
      BY <2>1 DEF Ends
    <3>2. Ends(in) \in SUBSET Nat
      BY DEF Ends
    <3>3. Min(Ends(in)) \in Nat /\ Min(Ends(in)) <= i
      BY <3>1, <3>2, MinIs
    <3>4. Min(Ends(in)) <= m
      <4>. HIDE DEF m
      <4>. QED  BY <1>1, <3>1, <3>3
    <3>. QED  BY <1>4, <3>1, <3>4
  <2>2. ~d.ok
    <3>. HIDE DEF m
    <3>1. \A i \in 1 .. m : i <= Len(in) => More(in[i])
      BY <2>1
    <3>. QED  BY <1>1, <3>1, DecodeFails
  <2>. HIDE DEF d
  <2>3. DecodeU32(in).ok = FALSE
    BY <1>2, <2>2
  <2>4. fits = FALSE
    BY <1>4
  <2>. QED  BY <2>3, <2>4 DEF Exact
<1>. QED  BY <1>3, <1>4
-----------------------------------------------------------------------------
(***************************************************************************)
(* The other kinds: signed values, raw bytes in the two orders, strings.   *)
(***************************************************************************)
\* The signed types, and the zigzag image of a value that is not negative.
LEMMA ZigZagIs ==
    ASSUME NEW bits \in {Bits32, Bits64}, NEW v \in Signed(bits)
    PROVE  /\ ZigZag(v, bits) \in Unsigned(bits)
           /\ v >= 0 => UnZigZag(ZigZag(v, bits), bits) = v
<1>. DEFINE p == Pow2[bits - 1]
            u == v % Pow2[bits]
<1>1. bits - 1 \in Nat /\ (bits - 1) + 1 = bits
  BY ContIs
<1>2. p \in Nat \ {0} /\ Pow2[bits] = 2 * p
  BY <1>1, Pow2Is
<1>3. v \in Int /\ -p <= v /\ v < p
  BY <1>2 DEF Signed
<1>4. ZigZag(v, bits) = ((u * 2) % Pow2[bits]) + (u \div p)
  BY DEF ZigZag
<1>. HIDE DEF p
<1>5. CASE v >= 0
  <2>1. u = v /\ u \in Nat /\ u < p
    BY <1>2, <1>3, <1>5
  <2>. HIDE DEF u
  <2>2. (u * 2) % (2 * p) = 2 * v /\ u \div p = 0
    BY <1>2, <2>1
  <2>3. ZigZag(v, bits) = 2 * v
    BY <1>2, <1>3, <1>4, <2>2
  <2>4. (2 * v) % 2 = 0 /\ (2 * v) \div 2 = v
    BY <1>3, <1>5
  <2>5. UnZigZag(2 * v, bits) = v
    BY <1>2, <1>3, <2>4 DEF UnZigZag, p
  <2>6. 2 * v \in Unsigned(bits)
    BY <1>2, <1>3, <1>5 DEF Unsigned
  <2>. QED  BY <2>3, <2>5, <2>6
<1>6. CASE ~(v >= 0)
  <2>1. u = v + 2 * p /\ u \in Nat /\ p <= u /\ u < 2 * p
    BY <1>2, <1>3, <1>6
  <2>. HIDE DEF u
  <2>2. (u * 2) % (2 * p) = 2 * u - 2 * p /\ u \div p = 1
    BY <1>2, <2>1
  <2>3. ZigZag(v, bits) \in Unsigned(bits)
    BY <1>2, <1>4, <2>1, <2>2 DEF Unsigned
  <2>. QED  BY <1>6, <2>3
<1>. QED  BY <1>5, <1>6

\* Eight bits are the continuation bit and the payload.
LEMMA ByteBitsIs ==
    /\ ByteBits \in Nat /\ Pow2[ByteBits] = 2 * Cont /\ Byte = 0 .. Pow2[ByteBits] - 1
    /\ Byte \subseteq Nat
<1>1. GroupBits \in Nat /\ Cont \in Nat /\ Cont = Pow2[GroupBits]
  BY ContIs
<1>2. ByteBits \in Nat /\ Pow2[ByteBits] = 2 * Cont
  BY <1>1, Pow2Is DEF ByteBits
<1>. QED  BY <1>1, <1>2 DEF Byte

\* memcpy of a word: its digits in base 256, lowest first.
LEMMA RawIs ==
    ASSUME NEW v \in Nat, NEW width \in Nat
    PROVE  /\ Raw(v, width) \in Seq(Byte) /\ Len(Raw(v, width)) = width
           /\ DOMAIN Raw(v, width) = 1 .. width
           /\ \A i \in 1 .. width : Raw(v, width)[i] = Digit(v, ByteBits, i)
<1>1. ASSUME NEW i \in 1 .. width PROVE Digit(v, ByteBits, i) \in Byte
  <2>1. i \in Nat \ {0}
    OBVIOUS
  <2>2. Digit(v, ByteBits, i) \in Nat /\ Digit(v, ByteBits, i) < Pow2[ByteBits]
    BY <2>1, ByteBitsIs, DigitIs
  <2>3. Pow2[ByteBits] \in Nat
    BY ByteBitsIs, Pow2Is
  <2>. QED  BY <2>2, <2>3, ByteBitsIs
<1>2. Raw(v, width) = [i \in 1 .. width |-> Digit(v, ByteBits, i)]
  BY DEF Raw, Digit
<1>. QED  BY <1>1, <1>2

\* Bytes are digits.
LEMMA BytesAreDigits ==
    ASSUME NEW s \in Seq(Byte) PROVE s \in [1 .. Len(s) -> Nat] /\ Len(s) \in Nat
<1>1. s \in [1 .. Len(s) -> Byte] /\ Len(s) \in Nat
  OBVIOUS
<1>. QED  BY <1>1, ByteBitsIs

\* Bytes are a number.
LEMMA NumberIs ==
    ASSUME NEW bytes \in Seq(Byte) PROVE Number(bytes) \in Nat
<1>. DEFINE n == Len(bytes)
<1>1. n \in Nat /\ bytes \in [1 .. n -> Nat] /\ ByteBits \in Nat
  BY ByteBitsIs, BytesAreDigits
<1>. HIDE DEF n
<1>2. PICK g : Sums(g, n, bytes, ByteBits)
  BY <1>1, SumsExist
<1>3. Number(bytes) = g[n]
  BY <1>1, <1>2, InBaseSums DEF Number
<1>. QED  BY <1>1, <1>2, <1>3 DEF Sums

\* The raw bytes of a number that fits them are that number.
LEMMA NumberRaw ==
    ASSUME NEW width \in Nat, NEW v \in Unsigned(ByteBits * width)
    PROVE  v \in Nat /\ Number(Raw(v, width)) = v
<1>. DEFINE d == Raw(v, width)
<1>1. ByteBits \in Nat /\ ByteBits * width \in Nat
  BY ByteBitsIs
<1>2. Pow2[ByteBits * width] \in Nat
  BY <1>1, Pow2Is
<1>3. v \in Nat /\ v < Pow2[ByteBits * width]
  BY <1>2 DEF Unsigned
<1>4. d \in Seq(Byte) /\ Len(d) = width /\ \A i \in 1 .. width : d[i] = Digit(v, ByteBits, i)
  BY <1>3, RawIs
<1>. HIDE DEF d
<1>5. d \in [1 .. width -> Nat]
  BY <1>4, BytesAreDigits
<1>6. PICK g : Sums(g, width, d, ByteBits)
  BY <1>1, <1>5, SumsExist
<1>7. Number(d) = g[width]
  BY <1>1, <1>5, <1>6, InBaseSums DEF Number
<1>8. g[width] = v
  BY <1>1, <1>3, <1>4, <1>6, DigitsStandFor
<1>. QED  BY <1>3, <1>7, <1>8 DEF d

\* The swap of a whole word, and of a swapped one.
LEMMA SwappedIs ==
    ASSUME NEW s \in Seq(Byte)
    PROVE  /\ Swapped(s) \in Seq(Byte) /\ Len(Swapped(s)) = Len(s)
           /\ Swapped(Swapped(s)) = s
<1>1. Swapped(s) \in Seq(Byte) /\ Len(Swapped(s)) = Len(s)
  BY DEF Swapped
<1>2. \A i \in 1 .. Len(s) : Swapped(s)[i] = s[Len(s) + 1 - i]
  BY DEF Swapped
<1>3. Swapped(Swapped(s)) = [i \in 1 .. Len(s) |-> Swapped(s)[Len(s) + 1 - i]]
  BY <1>1 DEF Swapped
<1>4. \A i \in 1 .. Len(s) : Swapped(s)[Len(s) + 1 - i] = s[i]
  <2>. SUFFICES ASSUME NEW i \in 1 .. Len(s) PROVE Swapped(s)[Len(s) + 1 - i] = s[i]
    OBVIOUS
  <2>1. Len(s) + 1 - i \in 1 .. Len(s) /\ Len(s) + 1 - (Len(s) + 1 - i) = i
    OBVIOUS
  <2>. QED  BY <1>2, <2>1
<1>. QED  BY <1>1, <1>3, <1>4

\* A word that is full is left as it is; a shorter one is filled up.
LEMMA WordIs ==
    ASSUME NEW s \in Seq(Byte), Len(s) <= WordBytes
    PROVE  /\ Word(s) \in Seq(Byte) /\ Len(Word(s)) = WordBytes
           /\ Len(s) = WordBytes => Word(s) = s
<1>. DEFINE n == WordBytes - Len(s)
            z == [i \in 1 .. n |-> 0]
<1>1. WordBytes \in Nat /\ n \in Nat
  BY CodecAssumption
<1>2. 0 \in Byte
  BY ContIs DEF Byte
<1>3. z \in Seq(Byte) /\ Len(z) = n
  BY <1>1, <1>2
<1>4. Word(s) = s \o z
  BY DEF Word
<1>. HIDE DEF z
<1>. QED  BY <1>1, <1>3, <1>4

-----------------------------------------------------------------------------
(***************************************************************************)
(* Every kind, as it is written and as it is read.                         *)
(***************************************************************************)
\* writeVarU32 and writeVarU64.
LEMMA UnsignedEncoded ==
    ASSUME NEW bits \in {Bits32, Bits64}, NEW v \in Unsigned(bits)
    PROVE  /\ EncodeU(v, bits).bytes = Cut(v) /\ EncodeU(v, bits).ok = TRUE
           /\ Cut(v) \in Seq(Byte) /\ Len(Cut(v)) = Length(v) /\ Length(v) \in Nat
           /\ EncodedSizeImpl[v] = Length(v)
<1>1. EncodeU(v, bits) = [ok |-> TRUE, bytes |-> Cut(v)]
  BY EncodeUIs
<1>2. v \in Unsigned(Bits64) /\ Length(v) \in Nat
  BY UnsignedIs
<1>. QED  BY <1>1, <1>2, CutIs, SizeIs

\* What is written are bytes.
LEMMA EncodedIs ==
    ASSUME NEW kind \in Kinds, NEW v \in Values(kind)
    PROVE  Encoded(kind, v) \in Seq(Byte) /\ Len(Encoded(kind, v)) \in Nat
<1>. SUFFICES Encoded(kind, v) \in Seq(Byte)
  OBVIOUS
<1>1. CASE kind = "u32"
  <2>1. v \in Unsigned(Bits32) /\ Encoded(kind, v) = EncodeU(v, Bits32).bytes
    BY <1>1 DEF Values, Encoded
  <2>. QED  BY <2>1, UnsignedEncoded
<1>2. CASE kind = "u64"
  <2>1. v \in Unsigned(Bits64) /\ Encoded(kind, v) = EncodeU(v, Bits64).bytes
    BY <1>2 DEF Values, Encoded
  <2>. QED  BY <2>1, UnsignedEncoded
<1>3. CASE kind = "s32"
  <2>1. v \in Signed(Bits32) /\ Encoded(kind, v) = EncodeU(ZigZag(v, Bits32), Bits32).bytes
    BY <1>3 DEF Values, Encoded, EncodeS
  <2>2. ZigZag(v, Bits32) \in Unsigned(Bits32)
    BY <2>1, ZigZagIs
  <2>. QED  BY <2>1, <2>2, UnsignedEncoded
<1>4. CASE kind = "s64"
  <2>1. v \in Signed(Bits64) /\ Encoded(kind, v) = EncodeU(ZigZag(v, Bits64), Bits64).bytes
    BY <1>4 DEF Values, Encoded, EncodeS
  <2>2. ZigZag(v, Bits64) \in Unsigned(Bits64)
    BY <2>1, ZigZagIs
  <2>. QED  BY <2>1, <2>2, UnsignedEncoded
<1>5. CASE kind = "byte"
  <2>1. v \in Nat /\ Encoded(kind, v) = Raw(v, 1)
    BY <1>5, ByteBitsIs DEF Values, Encoded
  <2>. QED  BY <2>1, RawIs
<1>6. CASE kind = "le"
  <2>1. v \in Unsigned(ByteBits * WordBytes) /\ Encoded(kind, v) = Raw(v, WordBytes)
    BY <1>6 DEF Values, Encoded
  <2>2. WordBytes \in Nat /\ v \in Nat
    BY <2>1, CodecAssumption, NumberRaw
  <2>. QED  BY <2>1, <2>2, RawIs
<1>7. CASE kind = "be"
  <2>1. /\ v \in Unsigned(ByteBits * WordBytes)
        /\ Encoded(kind, v) = Swapped(Word(Raw(v, WordBytes)))
    BY <1>7 DEF Values, Encoded
  <2>2. WordBytes \in Nat /\ v \in Nat
    BY <2>1, CodecAssumption, NumberRaw
  <2>3. Raw(v, WordBytes) \in Seq(Byte) /\ Len(Raw(v, WordBytes)) <= WordBytes
    BY <2>2, RawIs
  <2>. QED  BY <2>1, <2>3, WordIs, SwappedIs
<1>8. CASE kind = "be1"
  <2>. DEFINE w == Swapped(Word(Raw(v, 1)))
  <2>1. v \in Nat /\ Encoded(kind, v) = SubSeq(w, 1, 1)
    BY <1>8, ByteBitsIs DEF Values, Encoded
  <2>2. Raw(v, 1) \in Seq(Byte) /\ Len(Raw(v, 1)) <= WordBytes
    BY <2>1, RawIs, CodecAssumption
  <2>3. w \in Seq(Byte) /\ Len(w) = WordBytes
    BY <2>2, WordIs, SwappedIs
  <2>. HIDE DEF w
  <2>4. SubSeq(w, 1, 1) \in Seq(Byte)
    BY <2>3, CodecAssumption
  <2>. QED  BY <2>1, <2>4
<1>9. CASE kind = "string"
  <2>1. /\ v \in Seq(Byte) /\ Len(v) \in Unsigned(Bits32)
        /\ Encoded(kind, v) = EncodeU(Len(v), Bits32).bytes \o v
    BY <1>9 DEF Values, Encoded
  <2>2. EncodeU(Len(v), Bits32).bytes \in Seq(Byte)
    BY <2>1, UnsignedEncoded
  <2>. QED  BY <2>1, <2>2
<1>. QED  BY <1>1, <1>2, <1>3, <1>4, <1>5, <1>6, <1>7, <1>8, <1>9 DEF Kinds

\* What the reader gets, and the values that it gets right.
Read(v, used) == [ok |-> TRUE, value |-> v, used |-> used]
ReadsBack(kind, v, in) == Decoded(kind, in) = Read(v, Len(Encoded(kind, v)))
Proper(kind, v) == kind # "be1" /\ ~(kind \in {"s32", "s64"} /\ v < 0)

\* A fixed number of bytes.
LEMMA FixedIs ==
    ASSUME NEW in \in Seq(Byte), NEW bytes \in Seq(Byte), Begins(in, bytes), NEW big \in BOOLEAN
    PROVE  Fixed(in, Len(bytes), big)
             = Read(IF big THEN ReadWord(bytes) ELSE Number(bytes), Len(bytes))
<1>1. Len(bytes) \in Nat /\ Len(in) \in Nat /\ Len(bytes) <= Len(in)
  BY DEF Begins
<1>2. SubSeq(in, 1, Len(bytes)) = bytes
  BY <1>1 DEF Begins
<1>3. ~(Len(in) < Len(bytes))
  BY <1>1
<1>. QED  BY <1>2, <1>3 DEF Fixed, Read

\* The parts of what is read, and another value in its place.
LEMMA ReadIs ==
    ASSUME NEW a, NEW v, NEW n, NEW r, r = Read(a, n)
    PROVE  r.ok /\ r.value = a /\ r.used = n /\ [r EXCEPT !.value = v] = Read(v, n)
<1>1. r.ok /\ r.value = a /\ r.used = n
  BY DEF Read
<1>2. [r EXCEPT !.value = v] = Read(v, n)
  <2>. DEFINE yes == TRUE
  <2>1. Read(a, n) = [ok |-> yes, value |-> a, used |-> n]
    BY DEF Read
  <2>2. Read(v, n) = [ok |-> yes, value |-> v, used |-> n]
    BY DEF Read
  <2>. HIDE DEF yes
  <2>3. [[ok |-> yes, value |-> a, used |-> n] EXCEPT !.value = v]
          = [ok |-> yes, value |-> v, used |-> n]
    OBVIOUS
  <2>. QED  BY <2>1, <2>2, <2>3
<1>. QED  BY <1>1, <1>2

\* A signed value that is not negative.
LEMMA SignedReadsBack ==
    ASSUME NEW bits \in {Bits32, Bits64}, NEW v \in Signed(bits), v >= 0,
           NEW in \in Seq(Byte), Begins(in, EncodeS(v, bits).bytes)
    PROVE  /\ EncodeS(v, bits).ok = TRUE
           /\ Len(EncodeS(v, bits).bytes) = EncodedSizeS(v, bits)
           /\ bits = Bits32 => DecodeS32(in) = Read(v, EncodedSizeS(v, bits))
           /\ bits = Bits64 => DecodeS64(in) = Read(v, EncodedSizeS(v, bits))
<1>. DEFINE z == ZigZag(v, bits)
            r == [ok |-> TRUE, value |-> z, used |-> Length(z)]
<1>1. z \in Unsigned(bits) /\ UnZigZag(z, bits) = v
  BY ZigZagIs
<1>2. EncodeS(v, bits) = EncodeU(z, bits) /\ EncodedSizeS(v, bits) = EncodedSizeImpl[z]
  BY DEF EncodeS, EncodedSizeS
<1>. HIDE DEF z
<1>3. /\ EncodeU(z, bits).bytes = Cut(z) /\ EncodeU(z, bits).ok = TRUE
      /\ Len(Cut(z)) = Length(z) /\ EncodedSizeImpl[z] = Length(z)
  BY <1>1, UnsignedEncoded
<1>4. Begins(in, Cut(z))
  BY <1>2, <1>3
<1>5. /\ bits = Bits32 => DecodeU32(in) = r
      /\ bits = Bits64 => DecodeU64(in) = r
  BY <1>1, <1>4, DecodeUCut
<1>6. r.ok /\ [r EXCEPT !.value = UnZigZag(r.value, bits)] = Read(v, Length(z))
  <2>1. r = Read(z, Length(z))
    BY DEF Read
  <2>. HIDE DEF r
  <2>2. r.ok /\ r.value = z /\ [r EXCEPT !.value = v] = Read(v, Length(z))
    BY <2>1, ReadIs
  <2>. QED  BY <1>1, <2>2
<1>. HIDE DEF r
<1>7. bits = Bits32 => DecodeS32(in) = Read(v, Length(z))
  BY <1>5, <1>6 DEF DecodeS32
<1>8. bits = Bits64 => DecodeS64(in) = Read(v, Length(z))
  BY <1>5, <1>6 DEF DecodeS64
<1>. QED  BY <1>2, <1>3, <1>7, <1>8

\* readVar* moves past the bytes of a good value.
LEMMA VarIs ==
    ASSUME NEW d, NEW v, NEW n, d = Read(v, n)
    PROVE  [d EXCEPT !.used = IF d.ok THEN d.used ELSE 0] = Read(v, n)
BY DEF Read

\* A string behind its length.
LEMMA BehindLength ==
    ASSUME NEW in \in Seq(Byte), NEW c \in Seq(Byte), NEW v \in Seq(Byte), Begins(in, c \o v)
    PROVE  /\ Len(c \o v) = Len(c) + Len(v) /\ Len(c) + Len(v) <= Len(in)
           /\ Begins(in, c) /\ SubSeq(in, Len(c) + 1, Len(c) + Len(v)) = v
<1>. DEFINE k == Len(c)
            n == Len(v)
            s == SubSeq(in, k + 1, k + n)
<1>1. k \in Nat /\ n \in Nat /\ Len(in) \in Nat
  OBVIOUS
<1>2. Len(c \o v) = k + n
  OBVIOUS
<1>3. k + n <= Len(in)
  BY <1>2 DEF Begins
<1>4. \A i \in 1 .. k : i \in 1 .. k + n /\ (c \o v)[i] = c[i]
  OBVIOUS
<1>5. \A i \in 1 .. n : k + i \in 1 .. k + n /\ (c \o v)[k + i] = v[i]
  OBVIOUS
<1>6. Begins(in, c)
  BY <1>1, <1>2, <1>3, <1>4 DEF Begins
<1>7. ASSUME NEW i \in 1 .. n PROVE in[k + i] = v[i]
  <2>1. k + i \in 1 .. Len(c \o v)
    BY <1>2, <1>5
  <2>. QED  BY <1>5, <2>1 DEF Begins
<1>8. Len(s) = n /\ \A i \in 1 .. n : s[i] = in[k + i]
  BY <1>1, <1>3
<1>9. s \in Seq(Byte)
  BY <1>1, <1>3
<1>. HIDE DEF s
<1>10. s = v
  BY <1>7, <1>8, <1>9
<1>. QED  BY <1>2, <1>3, <1>6, <1>10 DEF s

\* A value of any kind is read back from its bytes, whatever comes behind them.
LEMMA KindsReadBack ==
    ASSUME NEW kind \in Kinds, NEW v \in Values(kind), Proper(kind, v),
           NEW in \in Seq(Byte), Begins(in, Encoded(kind, v))
    PROVE  ReadsBack(kind, v, in)
<1>. DEFINE n == Len(Encoded(kind, v))
<1>1. CASE kind = "u32"
  <2>1. v \in Unsigned(Bits32) /\ Encoded(kind, v) = EncodeU(v, Bits32).bytes
    BY <1>1 DEF Values, Encoded
  <2>2. Encoded(kind, v) = Cut(v) /\ n = Length(v)
    BY <2>1, UnsignedEncoded
  <2>3. DecodeU32(in) = Read(v, n)
    BY <2>1, <2>2, DecodeUCut DEF Read
  <2>. HIDE DEF n
  <2>4. Decoded(kind, in) = [DecodeU32(in) EXCEPT !.used = IF DecodeU32(in).ok THEN DecodeU32(in).used ELSE 0]
    BY <1>1 DEF Decoded
  <2>. QED  BY <2>3, <2>4, VarIs DEF ReadsBack, n
<1>2. CASE kind = "u64"
  <2>1. v \in Unsigned(Bits64) /\ Encoded(kind, v) = EncodeU(v, Bits64).bytes
    BY <1>2 DEF Values, Encoded
  <2>2. Encoded(kind, v) = Cut(v) /\ n = Length(v)
    BY <2>1, UnsignedEncoded
  <2>3. DecodeU64(in) = Read(v, n)
    BY <2>1, <2>2, DecodeUCut DEF Read
  <2>. HIDE DEF n
  <2>4. Decoded(kind, in) = [DecodeU64(in) EXCEPT !.used = IF DecodeU64(in).ok THEN DecodeU64(in).used ELSE 0]
    BY <1>2 DEF Decoded
  <2>. QED  BY <2>3, <2>4, VarIs DEF ReadsBack, n
<1>3. CASE kind = "s32"
  <2>1. v \in Signed(Bits32) /\ Encoded(kind, v) = EncodeS(v, Bits32).bytes
    BY <1>3 DEF Values, Encoded
  <2>2. v >= 0
    <3>1. v \in Int
      BY <2>1, Pow2Is, ContIs DEF Signed
    <3>. QED  BY <1>3, <3>1 DEF Proper
  <2>3. DecodeS32(in) = Read(v, n)
    BY <2>1, <2>2, SignedReadsBack
  <2>. HIDE DEF n
  <2>4. Decoded(kind, in) = [DecodeS32(in) EXCEPT !.used = IF DecodeS32(in).ok THEN DecodeS32(in).used ELSE 0]
    BY <1>3 DEF Decoded
  <2>. QED  BY <2>3, <2>4, VarIs DEF ReadsBack, n
<1>4. CASE kind = "s64"
  <2>1. v \in Signed(Bits64) /\ Encoded(kind, v) = EncodeS(v, Bits64).bytes
    BY <1>4 DEF Values, Encoded
  <2>2. v >= 0
    <3>1. v \in Int
      BY <2>1, Pow2Is, ContIs DEF Signed
    <3>. QED  BY <1>4, <3>1 DEF Proper
  <2>3. DecodeS64(in) = Read(v, n)
    BY <2>1, <2>2, SignedReadsBack
  <2>. HIDE DEF n
  <2>4. Decoded(kind, in) = [DecodeS64(in) EXCEPT !.used = IF DecodeS64(in).ok THEN DecodeS64(in).used ELSE 0]
    BY <1>4 DEF Decoded
  <2>. QED  BY <2>3, <2>4, VarIs DEF ReadsBack, n
<1>5. CASE kind = "byte"
  <2>1. v \in Byte /\ Encoded(kind, v) = Raw(v, 1) /\ Decoded(kind, in) = Fixed(in, 1, FALSE)
    BY <1>5 DEF Values, Encoded, Decoded
  <2>2. ByteBits * 1 = ByteBits
    BY ByteBitsIs
  <2>3. v \in Unsigned(ByteBits * 1)
    BY <2>1, <2>2, ByteBitsIs DEF Unsigned
  <2>4. v \in Nat /\ Number(Raw(v, 1)) = v
    BY <2>3, NumberRaw
  <2>5. Raw(v, 1) \in Seq(Byte) /\ Len(Raw(v, 1)) = 1
    BY <2>4, RawIs
  <2>6. Fixed(in, 1, FALSE) = Read(v, 1)
    BY <2>1, <2>4, <2>5, FixedIs
  <2>. QED  BY <2>1, <2>5, <2>6 DEF ReadsBack
<1>6. CASE kind = "le"
  <2>1. /\ v \in Unsigned(ByteBits * WordBytes) /\ Encoded(kind, v) = Raw(v, WordBytes)
        /\ Decoded(kind, in) = Fixed(in, WordBytes, FALSE)
    BY <1>6 DEF Values, Encoded, Decoded
  <2>2. v \in Nat /\ Number(Raw(v, WordBytes)) = v
    BY <2>1, CodecAssumption, NumberRaw
  <2>3. Raw(v, WordBytes) \in Seq(Byte) /\ Len(Raw(v, WordBytes)) = WordBytes
    BY <2>2, CodecAssumption, RawIs
  <2>4. Fixed(in, WordBytes, FALSE) = Read(v, WordBytes)
    BY <2>1, <2>2, <2>3, FixedIs
  <2>. QED  BY <2>1, <2>3, <2>4 DEF ReadsBack
<1>7. CASE kind = "be"
  <2>. DEFINE r == Raw(v, WordBytes)
  <2>1. /\ v \in Unsigned(ByteBits * WordBytes) /\ Encoded(kind, v) = Swapped(Word(r))
        /\ Decoded(kind, in) = Fixed(in, WordBytes, TRUE)
    BY <1>7 DEF Values, Encoded, Decoded
  <2>2. v \in Nat /\ Number(r) = v
    BY <2>1, CodecAssumption, NumberRaw
  <2>3. r \in Seq(Byte) /\ Len(r) = WordBytes /\ WordBytes \in Nat
    BY <2>2, CodecAssumption, RawIs
  <2>. HIDE DEF r
  <2>4. Word(r) = r
    BY <2>3, WordIs
  <2>. DEFINE s == Swapped(r)
  <2>5. s \in Seq(Byte) /\ Len(s) = WordBytes /\ Swapped(s) = r
    BY <2>3, SwappedIs
  <2>6. Encoded(kind, v) = s
    BY <2>1, <2>4
  <2>. HIDE DEF s
  <2>7. Word(s) = s
    BY <2>3, <2>5, WordIs
  <2>8. SubSeq(r, 1, WordBytes) = r
    BY <2>3
  <2>9. ReadWord(s) = v
    BY <2>2, <2>5, <2>7, <2>8 DEF ReadWord
  <2>10. Fixed(in, WordBytes, TRUE) = Read(v, WordBytes)
    BY <2>5, <2>6, <2>9, FixedIs
  <2>. QED  BY <2>1, <2>5, <2>6, <2>10 DEF ReadsBack
<1>8. CASE kind = "string"
  <2>. DEFINE m == Len(v)
              d == DecodeU32(in)
              len == [d EXCEPT !.used = IF d.ok THEN d.used ELSE 0]
  <2>1. /\ v \in Seq(Byte) /\ m \in Unsigned(Bits32)
        /\ Encoded(kind, v) = EncodeU(m, Bits32).bytes \o v
    BY <1>8 DEF Values, Encoded
  <2>2. /\ EncodeU(m, Bits32).bytes = Cut(m) /\ Cut(m) \in Seq(Byte)
        /\ Len(Cut(m)) = Length(m) /\ Length(m) \in Nat
    BY <2>1, UnsignedEncoded
  <2>3. m \in Nat
    BY <2>1
  <2>4. Begins(in, Cut(m) \o v)
    BY <2>1, <2>2
  <2>5. Len(Cut(m) \o v) = Len(Cut(m)) + m /\ Len(Cut(m)) + m <= Len(in)
    <3>1. v \in Seq(Byte) /\ Cut(m) \in Seq(Byte)
      BY <2>1, <2>2
    <3>. QED  BY <2>4, <3>1, BehindLength
  <2>6. /\ Begins(in, Cut(m)) /\ n = Length(m) + m /\ Length(m) + m <= Len(in)
        /\ SubSeq(in, Length(m) + 1, Length(m) + m) = v
    BY <2>1, <2>2, <2>4, <2>5, BehindLength
  <2>7. d = Read(m, Length(m))
    BY <2>1, <2>6, DecodeUCut DEF Read
  <2>. HIDE DEF d, m, n
  <2>8. len = Read(m, Length(m))
    BY <2>7, VarIs
  <2>. HIDE DEF len
  <2>9. len.ok /\ len.used = Length(m) /\ len.value = m
    BY <2>8 DEF Read
  <2>10. Decoded(kind, in)
           = IF len.ok /\ len.used + len.value <= Len(in)
             THEN [ok |-> TRUE, used |-> len.used + len.value,
                   value |-> SubSeq(in, len.used + 1, len.used + len.value)]
             ELSE [len EXCEPT !.ok = FALSE]
    BY <1>8 DEF Decoded, len, d
  <2>11. Decoded(kind, in) = Read(v, n)
    BY <2>6, <2>9, <2>10 DEF Read
  <2>. QED  BY <2>11 DEF ReadsBack, n
<1>. QED  BY <1>1, <1>2, <1>3, <1>4, <1>5, <1>6, <1>7, <1>8 DEF Kinds, Proper

-----------------------------------------------------------------------------
(***************************************************************************)
(* The invariant.  The bytes of an observed value that was written inside  *)
(* the buffer stay at its place; a reader's view lies in the buffer; and a *)
(* reader is in use only while no writer is.                               *)
(***************************************************************************)
\* Bytes of b from at + 1 on.
Holds(b, at, bytes) == \A i \in 1 .. Len(bytes) : b[at + i] = bytes[i]

SoundField(f, b) ==
    /\ f.at \in Nat /\ f.end \in Nat /\ f.end <= Len(b)
    /\ f.kind = "none" => ~f.inside
    /\ f.kind # "none" => /\ f.kind \in Kinds /\ f.value \in Values(f.kind)
                          /\ f.end = f.at + Len(Encoded(f.kind, f.value))
    /\ f.inside => Holds(b, f.at, Encoded(f.kind, f.value))

Readers == [first : Nat, size : Nat, offset : Nat]
SoundReader(r, b) == r # NoReader => r \in Readers /\ r.first + r.size <= Len(b)

IInv ==
    /\ buf \in Seq(Byte)
    /\ woff \in Nat \cup {-1}
    /\ woff >= 0 => reader = NoReader
    /\ SoundReader(reader, buf)
    /\ SoundField(field, buf)

\* vector::resize.
LEMMA ResizedIs ==
    ASSUME NEW b \in Seq(Byte), NEW size \in Nat
    PROVE  /\ Resized(b, size) \in Seq(Byte) /\ Len(Resized(b, size)) = size
           /\ \A i \in 1 .. size : i <= Len(b) => Resized(b, size)[i] = b[i]
<1>1. 0 \in Byte
  BY ContIs DEF Byte
<1>2. \A i \in 1 .. size : i <= Len(b) => b[i] \in Byte
  OBVIOUS
<1>3. Resized(b, size) \in [1 .. size -> Byte]
  BY <1>1, <1>2 DEF Resized
<1>4. \A i \in 1 .. size : i <= Len(b) => Resized(b, size)[i] = b[i]
  BY DEF Resized
<1>5. Resized(b, size) \in Seq(Byte) /\ Len(Resized(b, size)) = size
  BY <1>3
<1>. QED  BY <1>4, <1>5

\* memcpy.
LEMMA OverwrittenIs ==
    ASSUME NEW b \in Seq(Byte), NEW at \in Nat, NEW bytes \in Seq(Byte)
    PROVE  /\ Overwritten(b, at, bytes) \in Seq(Byte) /\ Len(Overwritten(b, at, bytes)) = Len(b)
           /\ \A i \in 1 .. Len(b) : i \notin at + 1 .. at + Len(bytes)
                                       => Overwritten(b, at, bytes)[i] = b[i]
           /\ at + Len(bytes) <= Len(b) => Holds(Overwritten(b, at, bytes), at, bytes)
<1>. DEFINE w == Overwritten(b, at, bytes)
<1>1. ASSUME NEW i \in 1 .. Len(b), i \in at + 1 .. at + Len(bytes) PROVE bytes[i - at] \in Byte
  <2>1. i - at \in 1 .. Len(bytes)
    BY <1>1
  <2>. QED  BY <2>1
<1>2. w = [i \in 1 .. Len(b) |-> IF i \in at + 1 .. at + Len(bytes) THEN bytes[i - at] ELSE b[i]]
  BY DEF Overwritten
<1>. HIDE DEF w
<1>3. w \in [1 .. Len(b) -> Byte]
  BY <1>1, <1>2
<1>4. w \in Seq(Byte) /\ Len(w) = Len(b)
  BY <1>3
<1>5. \A i \in 1 .. Len(b) : i \notin at + 1 .. at + Len(bytes) => w[i] = b[i]
  BY <1>2
<1>6. ASSUME at + Len(bytes) <= Len(b), NEW i \in 1 .. Len(bytes) PROVE w[at + i] = bytes[i]
  <2>1. at + i \in 1 .. Len(b) /\ at + i \in at + 1 .. at + Len(bytes) /\ (at + i) - at = i
    BY <1>6
  <2>. QED  BY <1>2, <2>1
<1>. QED  BY <1>4, <1>5, <1>6 DEF w, Holds

\* A value stays sound where its bytes stay.
LEMMA FieldKept ==
    ASSUME NEW f, NEW b, SoundField(f, b), NEW c, Len(c) \in Nat, f.end <= Len(c),
           \A i \in f.at + 1 .. f.end : c[i] = b[i]
    PROVE  SoundField(f, c)
<1>1. f.at \in Nat /\ f.end \in Nat
  BY DEF SoundField
<1>2. ASSUME f.inside PROVE Holds(c, f.at, Encoded(f.kind, f.value))
  <2>. DEFINE e == Encoded(f.kind, f.value)
  <2>1. /\ f.kind \in Kinds /\ f.value \in Values(f.kind) /\ f.end = f.at + Len(e)
        /\ Holds(b, f.at, e)
    BY <1>2 DEF SoundField
  <2>2. Len(e) \in Nat
    BY <2>1, EncodedIs
  <2>. HIDE DEF e
  <2>3. ASSUME NEW i \in 1 .. Len(e) PROVE c[f.at + i] = e[i]
    <3>1. f.at + i \in f.at + 1 .. f.end
      BY <1>1, <2>1, <2>2
    <3>. QED  BY <2>1, <3>1 DEF Holds
  <2>. QED  BY <2>3 DEF Holds, e
<1>. QED  BY <1>2 DEF SoundField

\* The value that a call wrote at a place, or an older one that it did not touch.
Wrote(kind, v, at, inside, c) ==
    Observe([kind |-> kind, value |-> v, at |-> at, end |-> at + Len(Encoded(kind, v)),
             inside |-> inside])
        => SoundField(field', c)

\* What a writing call leaves observed is sound.
LEMMA WroteSound ==
    ASSUME buf \in Seq(Byte), SoundField(field, buf),
           NEW kind \in Kinds, NEW v \in Values(kind), NEW at \in Nat, NEW inside \in BOOLEAN,
           NEW c \in Seq(Byte), Len(buf) <= Len(c), at + Len(Encoded(kind, v)) <= Len(c),
           \A i \in 1 .. Len(buf) : i \notin at + 1 .. at + Len(Encoded(kind, v)) => c[i] = buf[i],
           inside => Holds(c, at, Encoded(kind, v))
    PROVE  Wrote(kind, v, at, inside, c)
<1>. DEFINE e == Encoded(kind, v)
            new == [kind |-> kind, value |-> v, at |-> at, end |-> at + Len(e), inside |-> inside]
<1>. SUFFICES ASSUME Observe(new) PROVE SoundField(field', c)
  BY DEF Wrote
<1>1. Len(e) \in Nat /\ kind # "none"
  BY EncodedIs DEF Kinds
<1>2. /\ new.kind = kind /\ new.value = v /\ new.at = at /\ new.end = at + Len(e)
      /\ (new.inside <=> inside)
  OBVIOUS
<1>3. SoundField(new, c)
  <2>. HIDE DEF new
  <2>1. new.at \in Nat /\ new.end \in Nat /\ new.end <= Len(c)
    BY <1>1, <1>2
  <2>2. /\ new.kind # "none" /\ new.kind \in Kinds /\ new.value \in Values(new.kind)
        /\ new.end = new.at + Len(Encoded(new.kind, new.value))
    BY <1>1, <1>2
  <2>3. new.inside => Holds(c, new.at, Encoded(new.kind, new.value))
    BY <1>2
  <2>. QED  BY <2>1, <2>2, <2>3 DEF SoundField
<1>4. CASE field' = new
  BY <1>3, <1>4
<1>5. CASE /\ field.kind # "none"
           /\ field.end <= new.at \/ new.end <= field.at
           /\ field' = field
  <2>. HIDE DEF e, new
  <2>1. field.at \in Nat /\ field.end \in Nat /\ field.end <= Len(buf) /\ field.end <= Len(c)
    BY DEF SoundField
  <2>2. ASSUME NEW i \in field.at + 1 .. field.end PROVE c[i] = buf[i]
    <3>1. i \in 1 .. Len(buf) /\ i \notin at + 1 .. at + Len(e)
      BY <1>1, <1>2, <1>5, <2>1
    <3>. QED  BY <3>1 DEF e
  <2>3. SoundField(field, c)
    BY <2>1, <2>2, FieldKept
  <2>. QED  BY <1>5, <2>3
<1>. HIDE DEF new
<1>. QED  BY <1>4, <1>5 DEF Observe
-----------------------------------------------------------------------------
(***************************************************************************)
(* The steps.                                                              *)
(***************************************************************************)
\* An input is a value of its kind, and its bytes are bytes.
LEMMA InputIs ==
    ASSUME NEW in \in Inputs
    PROVE  /\ in[1] \in Kinds /\ in[2] \in Values(in[1])
           /\ Encoded(in[1], in[2]) \in Seq(Byte) /\ Len(Encoded(in[1], in[2])) \in Nat
<1>1. in[1] \in Kinds /\ in[2] \in Values(in[1])
  BY InputAssumption
<1>. QED  BY <1>1, EncodedIs

\* The larger of two numbers.
LEMMA MaxIs ==
    ASSUME NEW m \in Nat, NEW n \in Nat
    PROVE  Max({m, n}) \in Nat /\ m <= Max({m, n}) /\ n <= Max({m, n})
<1>1. \E x \in {m, n} : \A y \in {m, n} : x >= y
  OBVIOUS
<1>2. Max({m, n}) \in {m, n} /\ \A y \in {m, n} : Max({m, n}) >= y
  BY <1>1 DEF Max
<1>. QED  BY <1>2

\* BinaryWriter::writeBytes.
LEMMA PutIInv ==
    ASSUME IInv, NEW kind \in Kinds, NEW v \in Values(kind), Put(kind, v) PROVE IInv'
<1>. DEFINE e == Encoded(kind, v)
            end == woff + Len(e)
            o == Overwritten(buf, woff, e)
            size == Max({Len(buf), end})
            c == Resized(o, size)
<1>1. e \in Seq(Byte) /\ Len(e) \in Nat
  BY EncodedIs
<1>2. /\ buf \in Seq(Byte) /\ woff \in Nat /\ reader = NoReader /\ SoundField(field, buf)
      /\ Len(buf) \in Nat
  BY DEF IInv, Put, Writing
<1>3. /\ buf' = c /\ woff' = end /\ reader' = reader
      /\ Observe([kind |-> kind, value |-> v, at |-> woff, end |-> end, inside |-> end <= Len(buf)])
  BY DEF Put
<1>4. end \in Nat /\ size \in Nat /\ Len(buf) <= size /\ end <= size
  BY <1>1, <1>2, MaxIs
<1>5. /\ o \in Seq(Byte) /\ Len(o) = Len(buf)
      /\ \A i \in 1 .. Len(buf) : i \notin woff + 1 .. end => o[i] = buf[i]
      /\ end <= Len(buf) => Holds(o, woff, e)
  BY <1>1, <1>2, OverwrittenIs
<1>. HIDE DEF o, size
<1>6. /\ c \in Seq(Byte) /\ Len(c) = size
      /\ \A i \in 1 .. size : i <= Len(o) => c[i] = o[i]
  BY <1>4, <1>5, ResizedIs
<1>. HIDE DEF c
<1>7. ASSUME NEW i \in 1 .. Len(buf) PROVE c[i] = o[i]
  <2>1. Len(o) = Len(buf)
    BY <1>5
  <2>2. Len(buf) \in Nat /\ size \in Nat /\ Len(buf) <= size
    BY <1>2, <1>4
  <2>3. i \in 1 .. size /\ i <= Len(o)
    BY <2>1, <2>2
  <2>. QED  BY <1>6, <2>3
<1>8. \A i \in 1 .. Len(buf) : i \notin woff + 1 .. woff + Len(e) => c[i] = buf[i]
  BY <1>5, <1>7
<1>9. ASSUME end <= Len(buf) PROVE Holds(c, woff, e)
  <2>1. ASSUME NEW i \in 1 .. Len(e) PROVE c[woff + i] = e[i]
    <3>1. woff + i \in 1 .. Len(buf)
      BY <1>1, <1>2, <1>9
    <3>. QED  BY <1>5, <1>7, <1>9, <3>1 DEF Holds
  <2>. QED  BY <2>1 DEF Holds
<1>10. Wrote(kind, v, woff, end <= Len(buf), c)
  <2>. DEFINE inside == end <= Len(buf)
  <2>1. inside \in BOOLEAN /\ (inside => Holds(c, woff, e))
    BY <1>9
  <2>2. Len(buf) <= Len(c) /\ woff + Len(e) <= Len(c)
    BY <1>4, <1>6
  <2>. HIDE DEF inside
  <2>3. Wrote(kind, v, woff, inside, c)
    BY <1>2, <1>6, <1>8, <2>1, <2>2, WroteSound
  <2>. QED  BY <2>3 DEF inside
<1>11. SoundField(field', c)
  BY <1>3, <1>10 DEF Wrote
<1>. QED  BY <1>2, <1>3, <1>4, <1>6, <1>11 DEF IInv, SoundReader

\* BinaryWriter::overwriteAt.
LEMMA OverwriteIInv ==
    ASSUME IInv, NEW p \in Nat, NEW kind \in Kinds, NEW v \in Values(kind), OverwriteAt(p, kind, v)
    PROVE  IInv'
<1>. DEFINE e == Encoded(kind, v)
            c == Overwritten(buf, p, e)
<1>1. e \in Seq(Byte) /\ Len(e) \in Nat
  BY EncodedIs
<1>2. /\ buf \in Seq(Byte) /\ woff \in Nat /\ reader = NoReader /\ SoundField(field, buf)
      /\ Len(buf) \in Nat
  BY DEF IInv, OverwriteAt, Writing
<1>3. /\ p + Len(e) <= Len(buf) /\ buf' = c /\ woff' = woff /\ reader' = reader
      /\ Observe([kind |-> kind, value |-> v, at |-> p, end |-> p + Len(e), inside |-> TRUE])
  BY DEF OverwriteAt
<1>4. /\ c \in Seq(Byte) /\ Len(c) = Len(buf) /\ Holds(c, p, e)
      /\ \A i \in 1 .. Len(buf) : i \notin p + 1 .. p + Len(e) => c[i] = buf[i]
  BY <1>1, <1>2, <1>3, OverwrittenIs
<1>. HIDE DEF c
<1>5. Wrote(kind, v, p, TRUE, c)
  <2>1. Len(c) = Len(buf) /\ Len(buf) \in Nat
    BY <1>2, <1>4
  <2>2. p + Len(e) <= Len(c)
    BY <1>3, <2>1
  <2>3. Len(buf) <= Len(c) /\ p + Len(e) <= Len(c) /\ TRUE \in BOOLEAN
    BY <2>1, <2>2
  <2>. QED  BY <1>2, <1>4, <2>3, WroteSound
<1>6. SoundField(field', c)
  BY <1>3, <1>5 DEF Wrote
<1>. QED  BY <1>2, <1>3, <1>4, <1>6 DEF IInv, SoundReader

\* Buffer::append.
LEMMA AppendIInv ==
    ASSUME IInv, NEW kind \in Kinds, NEW v \in Values(kind), BufferAppend(kind, v) PROVE IInv'
<1>. DEFINE e == Encoded(kind, v)
            c == buf \o e
            n == Len(buf)
<1>1. e \in Seq(Byte) /\ Len(e) \in Nat
  BY EncodedIs
<1>2. /\ buf \in Seq(Byte) /\ woff \in Nat /\ reader = NoReader /\ SoundField(field, buf)
      /\ n \in Nat
  BY DEF IInv, BufferAppend, Writing
<1>3. /\ buf' = c /\ woff' = woff /\ reader' = reader
      /\ Observe([kind |-> kind, value |-> v, at |-> n, end |-> n + Len(e), inside |-> TRUE])
  BY DEF BufferAppend
<1>. HIDE DEF e
<1>4. /\ c \in Seq(Byte) /\ Len(c) = n + Len(e)
      /\ \A i \in 1 .. Len(buf) : c[i] = buf[i]
  BY <1>1, <1>2
<1>5. Holds(c, n, e)
  BY <1>1, <1>2 DEF Holds
<1>. HIDE DEF c, n
<1>6. Wrote(kind, v, n, TRUE, c)
  <2>1. n = Len(buf) /\ Len(c) = n + Len(e) /\ n \in Nat /\ Len(e) \in Nat
    BY <1>1, <1>2, <1>4 DEF n
  <2>2. Len(buf) <= Len(c) /\ n + Len(e) <= Len(c)
    BY <2>1
  <2>. QED  BY <1>2, <1>4, <1>5, <2>2, WroteSound DEF e
<1>7. SoundField(field', c)
  BY <1>3, <1>6 DEF Wrote, e
<1>. QED  BY <1>2, <1>3, <1>4, <1>7 DEF IInv, SoundReader

\* Buffer::resize, and what the writer's skip and align do to the buffer: the
\* bytes that stay are those that were there.
LEMMA ResizeSound ==
    ASSUME buf \in Seq(Byte), SoundField(field, buf), NEW size \in Nat
    PROVE  /\ Resized(buf, size) \in Seq(Byte) /\ Len(Resized(buf, size)) = size
           /\ field.end <= size => SoundField(field, Resized(buf, size))
<1>1. /\ Resized(buf, size) \in Seq(Byte) /\ Len(Resized(buf, size)) = size
      /\ \A i \in 1 .. size : i <= Len(buf) => Resized(buf, size)[i] = buf[i]
  BY ResizedIs
<1>2. ASSUME field.end <= size PROVE SoundField(field, Resized(buf, size))
  <2>. DEFINE c == Resized(buf, size)
  <2>. HIDE DEF c
  <2>1. field.at \in Nat /\ field.end \in Nat /\ field.end <= Len(buf) /\ Len(buf) \in Nat
    BY DEF SoundField
  <2>2. ASSUME NEW i \in field.at + 1 .. field.end PROVE c[i] = buf[i]
    <3>1. i \in 1 .. size /\ i <= Len(buf)
      BY <1>2, <2>1
    <3>. QED  BY <1>1, <3>1 DEF c
  <2>3. Len(c) \in Nat /\ field.end <= Len(c)
    BY <1>1, <1>2 DEF c
  <2>4. SoundField(field, c)
    BY <2>2, <2>3, FieldKept
  <2>. QED  BY <2>4 DEF c
<1>. QED  BY <1>1, <1>2

\* BinaryWriter::skip and align.
LEMMA SkipToIInv ==
    ASSUME IInv, NEW end \in Nat, SkipTo(end) PROVE IInv'
<1>. DEFINE size == Max({Len(buf), end})
<1>1. /\ buf \in Seq(Byte) /\ reader = NoReader /\ SoundField(field, buf) /\ Len(buf) \in Nat
      /\ field.end \in Nat /\ field.end <= Len(buf)
  BY DEF IInv, SkipTo, Writing, SoundField
<1>2. buf' = Resized(buf, size) /\ woff' = end /\ reader' = reader /\ field' = field
  BY DEF SkipTo
<1>3. size \in Nat /\ Len(buf) <= size
  BY <1>1, MaxIs
<1>. HIDE DEF size
<1>4. /\ Resized(buf, size) \in Seq(Byte)
      /\ field.end <= size => SoundField(field, Resized(buf, size))
  BY <1>1, <1>3, ResizeSound
<1>5. field.end <= size
  BY <1>1, <1>3
<1>. QED  BY <1>1, <1>2, <1>4, <1>5 DEF IInv, SoundReader

\* Buffer::resize and clear.
LEMMA ResizeIInv ==
    ASSUME IInv, NEW size \in Nat, Resize(size) PROVE IInv'
<1>1. /\ buf \in Seq(Byte) /\ woff \in Nat /\ reader = NoReader /\ SoundField(field, buf)
  BY DEF IInv, Resize, Writing
<1>2. /\ buf' = Resized(buf, size) /\ woff' = woff /\ reader' = reader
      /\ field' = IF field.end <= size THEN field ELSE NoField
  BY DEF Resize
<1>. DEFINE c == Resized(buf, size)
<1>3. /\ c \in Seq(Byte) /\ Len(c) = size
      /\ field.end <= size => SoundField(field, c)
  BY <1>1, ResizeSound
<1>. HIDE DEF c
<1>4. SoundField(NoField, c)
  BY <1>3 DEF SoundField, NoField
<1>. QED  BY <1>1, <1>2, <1>3, <1>4 DEF IInv, SoundReader, c

\* A new writer, and BinaryWriter::seek.
LEMMA WriterIInv ==
    ASSUME IInv PROVE (NewWriter => IInv') /\ (\A p \in Nat : WriterSeek(p) => IInv')
<1>1. ASSUME NewWriter PROVE IInv'
  <2>1. woff' = Len(buf) /\ reader' = NoReader /\ buf' = buf /\ field' = field
    BY <1>1 DEF NewWriter
  <2>2. Len(buf) \in Nat
    BY DEF IInv
  <2>. QED  BY <2>1, <2>2 DEF IInv, SoundReader
<1>2. ASSUME NEW p \in Nat, WriterSeek(p) PROVE IInv'
  <2>1. woff >= 0 /\ woff' = p /\ reader' = reader /\ buf' = buf /\ field' = field
    BY <1>2 DEF WriterSeek, Writing
  <2>. QED  BY <2>1 DEF IInv
<1>. QED  BY <1>1, <1>2

\* Alignment moves to a natural position.
LEMMA AlignedIs ==
    ASSUME NEW offset \in Nat, NEW a \in Nat PROVE Aligned(offset, a) \in Nat
<1>1. CASE a = 0
  BY <1>1 DEF Aligned
<1>2. CASE a # 0
  <2>1. offset + a - 1 \in Nat
    BY <1>2
  <2>2. (offset + a - 1) \div a \in Nat
    BY <1>2, <2>1, DivMod
  <2>3. ((offset + a - 1) \div a) * a \in Nat
    BY <2>2
  <2>. QED  BY <1>2, <2>3 DEF Aligned
<1>. QED  BY <1>1, <1>2

\* What the reader has left is a string of bytes.
LEMMA RestIs ==
    ASSUME IInv, Reading
    PROVE  /\ reader \in Readers /\ reader.first \in Nat /\ reader.size \in Nat
           /\ reader.offset \in Nat /\ reader.first + reader.size <= Len(buf)
           /\ woff = -1 /\ Rest \in Seq(Byte)
<1>1. NoReader.offset = -1
  BY DEF NoReader
<1>2. reader # NoReader
  BY <1>1 DEF Reading
<1>3. /\ reader \in Readers
      /\ reader.first \in Nat /\ reader.size \in Nat /\ reader.offset \in Nat
      /\ reader.first + reader.size <= Len(buf) /\ woff = -1 /\ buf \in Seq(Byte)
  BY <1>2 DEF IInv, SoundReader, Readers
<1>. DEFINE m == reader.first + reader.offset + 1
            n == reader.first + reader.size
<1>4. m \in Nat /\ 1 <= m /\ n \in Nat /\ n <= Len(buf)
  BY <1>3
<1>5. SubSeq(buf, m, n) \in Seq(Byte)
  <2>. HIDE DEF m, n
  <2>. QED  BY <1>3, <1>4
<1>. QED  BY <1>3, <1>5 DEF Rest

\* A reader in the buffer, beside which there is no writer.
LEMMA ReaderSound ==
    ASSUME IInv, NEW r \in Readers,
           r.first + r.size <= Len(buf), reader' = r, woff' = -1, buf' = buf, field' = field
    PROVE  IInv'
BY DEF IInv, SoundReader

\* BufferView::subview lies in the view.
LEMMA SubviewIs ==
    ASSUME NEW view, view.first \in Nat, view.size \in Nat, NEW n \in Nat,
           view.first + view.size <= n, NEW offset \in Nat, NEW count \in Nat,
           NEW r, r = StartAt(Subview(view, offset, count))
    PROVE  r \in Readers /\ r.first + r.size <= n
<1>. DEFINE s == Subview(view, offset, count)
<1>1. /\ r = [first |-> s.first, size |-> s.size, offset |-> 0]
      /\ r.first = s.first /\ r.size = s.size
  BY DEF StartAt
<1>2. CASE offset > view.size
  <2>1. s.first = 0 /\ s.size = 0
    BY <1>2 DEF Subview
  <2>. HIDE DEF s
  <2>2. r.first + r.size <= n
    BY <1>1, <2>1
  <2>3. r \in Readers
    BY <1>1, <2>1 DEF Readers
  <2>. QED  BY <2>2, <2>3
<1>3. CASE ~(offset > view.size)
  <2>. DEFINE k == Min({count, view.size - offset})
  <2>1. view.size - offset \in Nat
    BY <1>3
  <2>2. k \in Nat /\ k <= view.size - offset
    <3>1. {count, view.size - offset} \in SUBSET Nat
      BY <2>1
    <3>. QED  BY <3>1, MinIs
  <2>3. s.first = view.first + offset /\ s.size = k
    BY <1>3 DEF Subview
  <2>. HIDE DEF s, k
  <2>4. s.first \in Nat /\ s.size \in Nat /\ s.first + s.size <= n
    BY <2>2, <2>3
  <2>. QED  BY <1>1, <2>4 DEF Readers
<1>. QED  BY <1>2, <1>3

\* A new reader, and a reader over a part of another's view.
LEMMA NewReaderIInv ==
    ASSUME IInv, NEW n \in Nat, NEW m \in Nat
    PROVE  (NewReader(n, m) => IInv') /\ (SubReader(n) => IInv')
<1>1. buf \in Seq(Byte) /\ Len(buf) \in Nat
  BY DEF IInv
<1>2. ASSUME NewReader(n, m) PROVE IInv'
  <2>. DEFINE view == [first |-> 0, size |-> Len(buf)]
              r == StartAt(Subview(view, n, m))
  <2>1. reader' = r /\ woff' = -1 /\ buf' = buf /\ field' = field
    BY <1>2 DEF NewReader
  <2>2. view.first \in Nat /\ view.size \in Nat /\ view.first + view.size <= Len(buf)
    BY <1>1
  <2>. HIDE DEF view
  <2>3. r \in Readers /\ r.first + r.size <= Len(buf)
    BY <1>1, <2>2, SubviewIs
  <2>. HIDE DEF r
  <2>. QED  BY <2>1, <2>3, ReaderSound
<1>3. ASSUME SubReader(n) PROVE IInv'
  <2>. DEFINE r == StartAt(Subview(reader, reader.offset, n))
  <2>1. Reading /\ reader' = r /\ woff' = woff /\ buf' = buf /\ field' = field
    BY <1>3 DEF SubReader
  <2>2. /\ reader.first \in Nat /\ reader.size \in Nat /\ reader.offset \in Nat
        /\ reader.first + reader.size <= Len(buf) /\ woff = -1
    BY <2>1, RestIs
  <2>3. r \in Readers /\ r.first + r.size <= Len(buf)
    BY <1>1, <2>2, SubviewIs
  <2>. HIDE DEF r
  <2>. QED  BY <2>1, <2>2, <2>3, ReaderSound
<1>. QED  BY <1>2, <1>3

\* The reader moves to a natural position.
LEMMA MoveIInv ==
    ASSUME IInv, Reading, NEW position \in Nat, reader' = [reader EXCEPT !.offset = position],
           UNCHANGED <<buf, woff, field>>
    PROVE  IInv'
<1>. DEFINE r == [reader EXCEPT !.offset = position]
<1>1. reader \in Readers /\ reader.first + reader.size <= Len(buf) /\ woff = -1
  BY RestIs
<1>2. r \in Readers /\ r.first = reader.first /\ r.size = reader.size
  BY <1>1 DEF Readers
<1>3. buf' = buf /\ woff' = woff /\ field' = field
  OBVIOUS
<1>. HIDE DEF r
<1>. QED  BY <1>1, <1>2, <1>3, ReaderSound DEF r

\* What a read consumes is a number of bytes.
LEMMA DecodedUsed ==
    ASSUME NEW kind \in Kinds, NEW in \in Seq(Byte)
    PROVE  Decoded(kind, in).used \in Nat
<1>. DEFINE D == [ok : BOOLEAN, value : Int, used : Nat]
            Var(d) == [d EXCEPT !.used = IF d.ok THEN d.used ELSE 0]
<1>1. MaxBytes(Bits32) \in Nat /\ MaxBytes(Bits64) \in Nat /\ WordBytes \in Nat
  BY ContIs, MaxBytesIs, CodecAssumption
<1>2. \A d \in D : Var(d).used \in Nat /\ (d.value \in Nat => Var(d).value \in Nat)
  OBVIOUS
<1>3. DecodeU32(in) \in D /\ DecodeU32(in).value \in Nat
  <2>. DEFINE d == DecodeImpl(in, MaxBytes(Bits32))
  <2>1. d \in [ok : BOOLEAN, value : Nat, used : Nat]
    BY <1>1, DecodeImplIs
  <2>2. DecodeU32(in) = [d EXCEPT !.ok = d.ok /\ d.value \in Unsigned(Bits32)]
    BY DEF DecodeU32
  <2>. DEFINE b == d.ok /\ d.value \in Unsigned(Bits32)
  <2>3. b \in BOOLEAN
    OBVIOUS
  <2>. HIDE DEF b, d
  <2>4. [d EXCEPT !.ok = b] \in D /\ [d EXCEPT !.ok = b].value \in Nat
    BY <2>1, <2>3
  <2>. QED  BY <2>2, <2>4 DEF b
<1>4. DecodeU64(in) \in D /\ DecodeU64(in).value \in Nat
  BY <1>1, DecodeImplIs DEF DecodeU64
<1>5. ASSUME NEW bits \in {Bits32, Bits64}, NEW z \in Nat PROVE UnZigZag(z, bits) \in Int
  <2>1. bits \in Nat /\ bits - 1 \in Nat
    BY ContIs
  <2>2. Pow2[bits] \in Nat /\ Pow2[bits - 1] \in Nat
    BY <2>1, Pow2Is
  <2>3. z \div 2 \in Nat
    OBVIOUS
  <2>. QED  BY <2>2, <2>3 DEF UnZigZag
<1>6. DecodeS32(in) \in D
  BY <1>3, <1>5 DEF DecodeS32
<1>7. DecodeS64(in) \in D
  BY <1>4, <1>5 DEF DecodeS64
<1>8. ASSUME NEW w \in Nat, NEW big PROVE Fixed(in, w, big).used \in Nat
  BY <1>8 DEF Fixed
<1>. HIDE DEF D
<1>9. CASE kind = "u32"
  <2>1. Decoded(kind, in) = Var(DecodeU32(in))
    BY <1>9 DEF Decoded
  <2>. QED  BY <1>2, <1>3, <2>1
<1>10. CASE kind = "u64"
  <2>1. Decoded(kind, in) = Var(DecodeU64(in))
    BY <1>10 DEF Decoded
  <2>. QED  BY <1>2, <1>4, <2>1
<1>11. CASE kind = "s32"
  <2>1. Decoded(kind, in) = Var(DecodeS32(in))
    BY <1>11 DEF Decoded
  <2>. QED  BY <1>2, <1>6, <2>1
<1>12. CASE kind = "s64"
  <2>1. Decoded(kind, in) = Var(DecodeS64(in))
    BY <1>12 DEF Decoded
  <2>. QED  BY <1>2, <1>7, <2>1
<1>13. CASE kind \in {"byte", "be1"}
  <2>1. Decoded(kind, in) = Fixed(in, 1, kind = "be1")
    BY <1>13 DEF Decoded
  <2>. QED  BY <1>8, <2>1
<1>14. CASE kind \in {"le", "be"}
  <2>1. Decoded(kind, in) = Fixed(in, WordBytes, kind = "be")
    BY <1>14 DEF Decoded
  <2>. QED  BY <1>1, <1>8, <2>1
<1>15. CASE kind = "string"
  <2>. DEFINE len == Var(DecodeU32(in))
  <2>1. len.used \in Nat /\ len.value \in Nat
    BY <1>2, <1>3
  <2>2. Decoded(kind, in)
          = IF len.ok /\ len.used + len.value <= Len(in)
            THEN [ok |-> TRUE, used |-> len.used + len.value,
                  value |-> SubSeq(in, len.used + 1, len.used + len.value)]
            ELSE [len EXCEPT !.ok = FALSE]
    BY <1>15 DEF Decoded
  <2>. HIDE DEF len
  <2>3. [len EXCEPT !.ok = FALSE].used = len.used
    OBVIOUS
  <2>. QED  BY <2>1, <2>2, <2>3
<1>. QED  BY <1>9, <1>10, <1>11, <1>12, <1>13, <1>14, <1>15 DEF Kinds

\* The reader's calls.
LEMMA ReaderIInv ==
    ASSUME IInv
    PROVE  /\ \A n \in Nat : ReaderSkip(n) \/ ReaderAlign(n) \/ ReaderSeek(n) => IInv'
           /\ \A kind \in Kinds : Get(kind) => IInv'
<1>1. ASSUME NEW p \in Nat, MoveTo(p) PROVE IInv'
  BY <1>1, MoveIInv DEF MoveTo
<1>2. ASSUME NEW n \in Nat, ReaderSkip(n) \/ ReaderAlign(n) \/ ReaderSeek(n) PROVE IInv'
  <2>1. Reading
    BY <1>2 DEF ReaderSkip, ReaderAlign, ReaderSeek, MoveTo
  <2>2. reader.offset \in Nat
    BY <2>1, RestIs
  <2>3. reader.offset + n \in Nat
    BY <2>2
  <2>4. Aligned(reader.offset, n) \in Nat
    BY <2>2, AlignedIs
  <2>. QED  BY <1>1, <1>2, <2>3, <2>4 DEF ReaderSkip, ReaderAlign, ReaderSeek
<1>3. ASSUME NEW kind \in Kinds, Get(kind) PROVE IInv'
  <2>. DEFINE p == reader.offset + Decoded(kind, Rest).used
  <2>1. Reading /\ reader' = [reader EXCEPT !.offset = p] /\ UNCHANGED <<buf, woff, field>>
    BY <1>3 DEF Get
  <2>2. reader.offset \in Nat /\ Rest \in Seq(Byte)
    BY <2>1, RestIs
  <2>3. p \in Nat
    BY <2>2, DecodedUsed
  <2>. HIDE DEF p
  <2>. QED  BY <2>1, <2>3, MoveIInv
<1>. QED  BY <1>2, <1>3

\* Every step keeps the invariant.
LEMMA NextIInv ==
    ASSUME IInv, [Next]_vars PROVE IInv'
<1>1. CASE UNCHANGED vars
  BY <1>1 DEF vars, IInv
<1>2. ASSUME NEW in \in Inputs,
             \/ Put(in[1], in[2]) \/ BufferAppend(in[1], in[2])
             \/ \E p \in Steps : OverwriteAt(p, in[1], in[2])
      PROVE  IInv'
  <2>1. in[1] \in Kinds /\ in[2] \in Values(in[1]) /\ Steps \subseteq Nat
    BY InputIs, CodecAssumption
  <2>. QED  BY <1>2, <2>1, PutIInv, AppendIInv, OverwriteIInv
<1>3. ASSUME NEW n \in Steps,
             \/ WriterSkip(n) \/ WriterAlign(n) \/ WriterSeek(n) \/ Resize(n)
      PROVE  IInv'
  <2>1. n \in Nat
    BY CodecAssumption
  <2>2. CASE WriterSkip(n) \/ WriterAlign(n)
    <3>1. woff \in Nat
      BY <2>2 DEF IInv, WriterSkip, WriterAlign, SkipTo, Writing
    <3>2. woff + n \in Nat
      BY <2>1, <3>1
    <3>3. Aligned(woff, n) \in Nat
      BY <2>1, <3>1, AlignedIs
    <3>. QED  BY <2>2, <3>2, <3>3, SkipToIInv DEF WriterSkip, WriterAlign
  <2>. QED  BY <1>3, <2>1, <2>2, WriterIInv, ResizeIInv
<1>4. ASSUME NEW n \in Steps,
             \/ ReaderSkip(n) \/ ReaderAlign(n) \/ ReaderSeek(n) \/ SubReader(n)
             \/ \E m \in Steps : NewReader(n, m)
      PROVE  IInv'
  <2>1. n \in Nat /\ Steps \subseteq Nat
    BY CodecAssumption
  <2>. QED  BY <1>4, <2>1, ReaderIInv, NewReaderIInv
<1>5. ASSUME NewWriter \/ \E kind \in Kinds : Get(kind) PROVE IInv'
  BY <1>5, WriterIInv, ReaderIInv
<1>. QED  BY <1>1, <1>2, <1>3, <1>4, <1>5 DEF Next

\* s is what b holds behind its first k bytes.
Behind(s, b, k) ==
    /\ s \in Seq(Byte) /\ Len(s) = Len(b) - k
    /\ \A i \in 1 .. Len(s) : s[i] = b[k + i]

\* The view of the buffer from a place on.
LEMMA TailIs ==
    ASSUME NEW b \in Seq(Byte), NEW k \in Nat, k <= Len(b)
    PROVE  Behind(SubSeq(b, k + 1, Len(b)), b, k)
<1>. DEFINE s == SubSeq(b, k + 1, Len(b))
<1>1. Len(b) \in Nat
  OBVIOUS
<1>2. Len(s) = Len(b) - k
  BY <1>1
<1>3. s \in Seq(Byte)
  BY <1>1
<1>4. \A i \in 1 .. Len(b) - k : s[i] = b[k + i]
  BY <1>1
<1>. QED  BY <1>2, <1>3, <1>4 DEF Behind

-----------------------------------------------------------------------------
(***************************************************************************)
(* Theorems.                                                               *)
(***************************************************************************)
\* In every state the buffer holds bytes, a reader's view lies in it, and the
\* bytes of a value that was written inside it are where they were written.
THEOREM Invariance == Spec => []IInv
<1>1. Init => IInv
  <2>. SUFFICES ASSUME Init PROVE IInv
    OBVIOUS
  <2>1. buf = <<>> /\ woff = 0 /\ reader = NoReader /\ field = NoField
    BY DEF Init
  <2>2. buf \in Seq(Byte) /\ Len(buf) = 0
    BY <2>1
  <2>3. SoundField(NoField, buf)
    BY <2>2 DEF SoundField, NoField
  <2>. QED  BY <2>1, <2>2, <2>3 DEF IInv, SoundReader
<1>2. IInv /\ [Next]_vars => IInv'
  BY NextIInv
<1>. QED  BY <1>1, <1>2, PTL DEF Spec

\* InsideReadsBack: what was written inside the buffer is read back, whatever
\* was written, skipped, appended or resized around it since.
THEOREM InsideIsReadBack == Spec => []InsideReadsBack
<1>1. ASSUME IInv PROVE InsideReadsBack
  <2>. DEFINE kind == field.kind
              v == field.value
              e == Encoded(kind, v)
              in == SubSeq(buf, field.at + 1, Len(buf))
  <2>. SUFFICES ASSUME field.inside, Proper(kind, v)
                PROVE  Decoded(kind, in).ok /\ Decoded(kind, in).value = v
                         /\ Decoded(kind, in).used = field.end - field.at
    BY DEF InsideReadsBack, Proper
  <2>1. /\ kind \in Kinds /\ v \in Values(kind) /\ field.at \in Nat /\ field.end \in Nat
        /\ field.end = field.at + Len(e) /\ field.end <= Len(buf) /\ Holds(buf, field.at, e)
        /\ buf \in Seq(Byte)
    BY <1>1 DEF IInv, SoundField
  <2>2. e \in Seq(Byte) /\ Len(e) \in Nat
    BY <2>1, EncodedIs
  <2>. HIDE DEF e, kind, v
  <2>3. /\ in \in Seq(Byte) /\ Len(in) = Len(buf) - field.at
        /\ \A i \in 1 .. Len(in) : in[i] = buf[field.at + i]
    <3>1. field.at <= Len(buf)
      BY <2>1, <2>2
    <3>2. Behind(in, buf, field.at)
      BY <2>1, <3>1, TailIs
    <3>. HIDE DEF in
    <3>. QED  BY <3>2 DEF Behind
  <2>. HIDE DEF in
  <2>4. Begins(in, e)
    <3>1. Len(e) <= Len(in)
      BY <2>1, <2>2, <2>3
    <3>2. \A i \in 1 .. Len(e) : i \in 1 .. Len(in)
      BY <2>2, <2>3, <3>1
    <3>. QED  BY <2>1, <2>3, <3>1, <3>2 DEF Begins, Holds
  <2>5. ReadsBack(kind, v, in)
    BY <2>1, <2>3, <2>4, KindsReadBack DEF e
  <2>6. /\ Decoded(kind, in).ok /\ Decoded(kind, in).value = v
        /\ Decoded(kind, in).used = Len(e)
    BY <2>5, ReadIs DEF ReadsBack, e
  <2>. QED  BY <2>1, <2>2, <2>6
<1>. QED  BY <1>1, Invariance, PTL

\* DecodeU32Exact: decodeU32 accepts exactly what ends within the bytes of a
\* uint32 and fits its bits, and returns what it means.
THEOREM DecodeIsExact == Spec => []DecodeU32Exact
<1>1. ASSUME IInv PROVE DecodeU32Exact
  <2>. SUFFICES ASSUME Reading PROVE Exact(Rest)
    BY DEF DecodeU32Exact, Exact
  <2>1. Rest \in Seq(Byte)
    BY <1>1, RestIs
  <2>. QED  BY <2>1, DecodeU32IsExact
<1>. QED  BY <1>1, Invariance, PTL

\* VarIntRoundTrip: every value survives encoding and decoding, whatever bytes
\* follow it, and takes the announced number of bytes.
THEOREM VarIntsRoundTrip == Spec => []VarIntRoundTrip
<1>1. ASSUME IInv, Reading, Number(Rest) \in Unsigned(Bits64) PROVE VarIntRoundTrip
  <2>. DEFINE v == Number(Rest)
              Survives(e, d, size) == e.ok /\ d.ok /\ d.value = v /\ d.used = size
              u64 == EncodeU(v, Bits64)
              u32 == EncodeU(v, Bits32)
              s64 == EncodeS(v, Bits64)
  <2>1. Rest \in Seq(Byte)
    BY <1>1, RestIs
  <2>2. v \in Nat /\ v \in Unsigned(Bits64)
    BY <1>1, <2>1, NumberIs
  <2>. HIDE DEF v
  <2>3. ASSUME NEW bytes \in Seq(Byte) PROVE bytes \o Rest \in Seq(Byte) /\ Begins(bytes \o Rest, bytes)
    BY <2>1 DEF Begins
  <2>4. ASSUME NEW e, e.ok, NEW d, NEW n, d = Read(v, n) PROVE Survives(e, d, n)
    BY <2>4, ReadIs
  <2>5. Survives(u64, DecodeU64(u64.bytes \o Rest), EncodedSizeImpl[v])
    <3>1. /\ u64.bytes = Cut(v) /\ u64.ok = TRUE /\ Cut(v) \in Seq(Byte)
          /\ EncodedSizeImpl[v] = Length(v)
      BY <2>2, UnsignedEncoded
    <3>2. DecodeU64(Cut(v) \o Rest) = Read(v, Length(v))
      BY <2>2, <2>3, <3>1, DecodeUCut DEF Read
    <3>. HIDE DEF u64, Survives
    <3>. QED  BY <2>4, <3>1, <3>2
  <2>6. ASSUME v \in Unsigned(Bits32)
        PROVE  Survives(u32, DecodeU32(u32.bytes \o Rest), EncodedSizeImpl[v])
    <3>1. /\ u32.bytes = Cut(v) /\ u32.ok = TRUE /\ Cut(v) \in Seq(Byte)
          /\ EncodedSizeImpl[v] = Length(v)
      BY <2>6, UnsignedEncoded
    <3>2. DecodeU32(Cut(v) \o Rest) = Read(v, Length(v))
      BY <2>3, <2>6, <3>1, DecodeUCut DEF Read
    <3>. HIDE DEF u32, Survives
    <3>. QED  BY <2>4, <3>1, <3>2
  <2>7. ASSUME v \in Signed(Bits64)
        PROVE  Survives(s64, DecodeS64(s64.bytes \o Rest), EncodedSizeS(v, Bits64))
    <3>1. s64.bytes \in Seq(Byte)
      <4>1. ZigZag(v, Bits64) \in Unsigned(Bits64)
        BY <2>7, ZigZagIs
      <4>. QED  BY <4>1, UnsignedEncoded DEF EncodeS
    <3>2. v >= 0
      BY <2>2
    <3>3. s64.ok = TRUE /\ DecodeS64(s64.bytes \o Rest) = Read(v, EncodedSizeS(v, Bits64))
      BY <2>3, <2>7, <3>1, <3>2, SignedReadsBack
    <3>. HIDE DEF s64, Survives
    <3>. QED  BY <2>4, <3>3
  <2>. QED  BY <2>5, <2>6, <2>7 DEF VarIntRoundTrip, v
<1>2. ASSUME IInv PROVE VarIntRoundTrip
  <2>1. CASE Reading /\ Number(Rest) \in Unsigned(Bits64)
    BY <1>1, <1>2, <2>1
  <2>2. CASE ~(Reading /\ Number(Rest) \in Unsigned(Bits64))
    BY <2>2 DEF VarIntRoundTrip
  <2>. QED  BY <2>1, <2>2
<1>. QED  BY <1>2, Invariance, PTL
=============================================================================
