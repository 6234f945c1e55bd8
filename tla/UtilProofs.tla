-------------------------------- MODULE UtilProofs ----------------------------
(***************************************************************************)
(* Two parts of util/ that rest on the arithmetic of quotients and         *)
(* remainders.                                                             *)
(*                                                                         *)
(* Coding: what a Put writes a Get reads, whatever the widths, the values  *)
(* and the part of the bytes that has arrived; and on any bytes a Get      *)
(* stays in its input.                                                     *)
(*                                                                         *)
(* Random: the generator multiplies modulo M and never leaves 1 .. M - 1,  *)
(* for every modulus and multiplier that RandomAssumption allows.          *)
(***************************************************************************)
EXTENDS Coding, Random, DataLemmas

-----------------------------------------------------------------------------
(* Division. *)

(* A quotient and a remainder are determined by their range. *)
LEMMA DivUnique ==
  ASSUME NEW p \in Nat, NEW m \in Nat \ {0}, NEW q \in Nat, NEW r \in 0 .. m - 1,
         p = m * q + r
  PROVE  p \div m = q /\ p % m = r
<1>1. p % m \in 0 .. m - 1 /\ p = m * (p \div m) + (p % m) /\ p \div m \in Nat
  OBVIOUS
<1> DEFINE e == p \div m
           f == p % m
<1> HIDE DEF e, f
<1>2. e \in Nat /\ f \in 0 .. m - 1 /\ m * q + r = m * e + f
  BY <1>1 DEF e, f
<1>3. q = e
  <2>1. CASE q > e
    <3>1. PICK d \in Nat : q = e + 1 + d
      BY <1>2, <2>1
    <3>2. m * q = m * e + m + m * d /\ m * d >= 0 /\ m * e \in Nat
      BY <1>2, <3>1
    <3> QED
      BY <1>2, <3>2
  <2>2. CASE e > q
    <3>1. PICK d \in Nat : e = q + 1 + d
      BY <1>2, <2>2
    <3>2. m * e = m * q + m + m * d /\ m * d >= 0 /\ m * q \in Nat
      BY <1>2, <3>1
    <3> QED
      BY <1>2, <3>2
  <2> QED
    BY <1>2, <2>1, <2>2
<1> QED
  BY <1>2, <1>3 DEF e, f

(* Dividing by c and then by b is dividing by b * c. *)
LEMMA DivDiv ==
  ASSUME NEW v \in Nat, NEW b \in Nat \ {0}, NEW c \in Nat \ {0}
  PROVE  /\ v \div c \in Nat /\ v \div (b * c) \in Nat
         /\ (v \div c) \div b = v \div (b * c)
         /\ v \div c = b * (v \div (b * c)) + ((v \div c) % b)
         /\ (v \div c) % b \in 0 .. b - 1
<1>1. PICK q \in Nat, r \in 0 .. c - 1 : q = v \div c /\ v = c * q + r
  <2>1. v \div c \in Nat /\ v % c \in 0 .. c - 1 /\ v = c * (v \div c) + (v % c)
    OBVIOUS
  <2> QED
    BY <2>1
<1>2. PICK e \in Nat, d \in 0 .. b - 1 : e = q \div b /\ d = q % b /\ q = b * e + d
  <2>1. q \div b \in Nat /\ q % b \in 0 .. b - 1 /\ q = b * (q \div b) + (q % b)
    OBVIOUS
  <2> QED
    BY <2>1
<1>3. b * c \in Nat \ {0}
  OBVIOUS
<1>4. c * d + r \in 0 .. (b * c) - 1
  <2>0. d \in Nat /\ d <= b - 1 /\ r \in 0 .. c - 1
    BY <1>1, <1>2
  <2>1. PICK x \in Nat : b = d + 1 + x
    BY <2>0
  <2>2. c * b = c * d + c + c * x /\ c * x \in Nat /\ c * d \in Nat
    BY <2>0, <2>1
  <2>3. b * c = c * b
    OBVIOUS
  <2> QED
    BY <2>0, <2>2, <2>3
<1>5. v = (b * c) * e + (c * d + r)
  <2>1. c * q = c * (b * e) + c * d
    BY <1>2
  <2>2. c * (b * e) = (b * c) * e
    OBVIOUS
  <2> DEFINE x == c * q
             y == c * d
             z == (b * c) * e
  <2>3. v = x + r /\ x = z + y /\ x \in Nat /\ y \in Nat /\ z \in Nat /\ r \in Nat
    BY <1>1, <2>1, <2>2
  <2> HIDE DEF x, y, z
  <2>4. v = z + (y + r)
    BY <2>3
  <2> QED
    BY <2>4 DEF y, z
<1>6. v \div (b * c) = e
  <2> DEFINE m == b * c
             s == c * d + r
  <2>1. m \in Nat \ {0} /\ s \in 0 .. m - 1 /\ v = m * e + s
    BY <1>3, <1>4, <1>5
  <2> HIDE DEF m, s
  <2>2. v \div m = e
    BY <2>1, DivUnique
  <2> QED
    BY <2>2 DEF m
<1> QED
  BY <1>1, <1>2, <1>6

(* The quotient of a smaller number is 0. *)
LEMMA DivSmall ==
  ASSUME NEW v \in Nat, NEW m \in Nat, v < m
  PROVE  v \div m = 0 /\ v % m = v
<1>1. m \in Nat \ {0} /\ v \in 0 .. m - 1 /\ v = m * 0 + v
  OBVIOUS
<1> QED
  BY <1>1, DivUnique

(* A quotient is below a bound if the dividend is below the product. *)
LEMMA DivBelow ==
  ASSUME NEW v \in Nat, NEW c \in Nat \ {0}, NEW n \in Nat
  PROVE  v \div c < n <=> v < c * n
<1>1. v \div c \in Nat /\ v % c \in 0 .. c - 1 /\ v = c * (v \div c) + (v % c)
  OBVIOUS
<1> DEFINE q == v \div c
           r == v % c
<1> HIDE DEF q, r
<1>2. q \in Nat /\ r \in 0 .. c - 1 /\ v = c * q + r
  BY <1>1 DEF q, r
<1>3. CASE q < n
  <2>1. PICK x \in Nat : n = q + 1 + x
    BY <1>2, <1>3
  <2>2. c * n = c * q + c + c * x /\ c * x \in Nat /\ c * q \in Nat
    BY <2>1, <1>2
  <2> QED
    BY <1>2, <1>3, <2>2 DEF q
<1>4. CASE ~(q < n)
  <2>1. PICK x \in Nat : q = n + x
    BY <1>2, <1>4
  <2>2. c * q = c * n + c * x /\ c * x \in Nat /\ c * n \in Nat
    BY <2>1, <1>2
  <2> QED
    BY <1>2, <1>4, <2>2 DEF q
<1> QED
  BY <1>3, <1>4

-----------------------------------------------------------------------------
(* Digits of base b. *)

(* b^n is what it should be, up to n = N + 1. *)
PowersUpTo(b, N) ==
  /\ b \in Nat /\ b > 1 /\ N \in Nat /\ b^0 = 1
  /\ \A n \in 0 .. N : b^n \in Nat /\ b^(n + 1) = b * b^n

(* Powers are positive, and grow. *)
LEMMA PowersArePositive ==
  ASSUME NEW b, NEW N, PowersUpTo(b, N)
  PROVE  \A n \in 0 .. N + 1 : b^n \in Nat \ {0}
<1>1. b \in Nat /\ b > 1 /\ N \in Nat /\ b^0 = 1
  BY DEF PowersUpTo
<1> DEFINE S == {n \in Nat : n <= N + 1 => b^n \in Nat \ {0}}
<1>2. 0 \in S
  BY <1>1
<1>3. ASSUME NEW n \in Nat, n \in S PROVE n + 1 \in S
  <2>1. CASE n \in 0 .. N
    <3>1. b^n \in Nat \ {0} /\ b^(n + 1) = b * b^n
      BY <1>1, <1>3, <2>1 DEF PowersUpTo
    <3> DEFINE c == b^n
    <3> HIDE DEF c
    <3>2. c \in Nat \ {0} /\ b * c \in Nat \ {0}
      BY <1>1, <3>1 DEF c
    <3> QED
      BY <3>1, <3>2 DEF c
  <2> QED
    BY <2>1, <1>1, <1>3
<1> HIDE DEF S
<1>4. Nat \subseteq S
  BY <1>2, <1>3, NaturalsBySteps
<1> QED
  BY <1>1, <1>4 DEF S

(* What the digits from the n-th on are made of. *)
LEMMA DigitTaken ==
  ASSUME NEW b, NEW N, PowersUpTo(b, N), NEW v \in Nat, NEW n \in 0 .. N
  PROVE  /\ v \div b^n \in Nat /\ v \div b^(n + 1) \in Nat
         /\ (v \div b^n) \div b = v \div b^(n + 1)
         /\ v \div b^n = b * (v \div b^(n + 1)) + ((v \div b^n) % b)
         /\ (v \div b^n) % b \in 0 .. b - 1
<1> DEFINE c == b^n
<1>1. c \in Nat \ {0} /\ b \in Nat \ {0} /\ b^(n + 1) = b * c
  <2>1. b \in Nat \ {0} /\ b^(n + 1) = b * c /\ n \in 0 .. N + 1
    BY DEF PowersUpTo
  <2> QED
    BY <2>1, PowersArePositive
<1> HIDE DEF c
<1>2. /\ v \div c \in Nat /\ v \div (b * c) \in Nat
      /\ (v \div c) \div b = v \div (b * c)
      /\ v \div c = b * (v \div (b * c)) + ((v \div c) % b)
      /\ (v \div c) % b \in 0 .. b - 1
  BY <1>1, DivDiv
<1> QED
  BY <1>1, <1>2 DEF c

(* Joined takes one digit after the other. *)
LEMMA JoinedSteps ==
  ASSUME NEW b, NEW N, PowersUpTo(b, N), NEW p, NEW m \in 0 .. N + 1,
         \A j \in 1 .. m : p[j] \in Nat
  PROVE  /\ Joined(p, 0, b) = 0
         /\ \A n \in 0 .. m : Joined(p, n, b) \in Nat
         /\ \A n \in 0 .. m - 1 :
              Joined(p, n + 1, b) = (p[n + 1] % b) * b^n + Joined(p, n, b)
<1> DEFINE f(n) == [j \in 1 .. n |-> (p[j] % b) * b^(j - 1)]
<1>0. N \in Nat /\ m \in Nat
  BY DEF PowersUpTo
<1>1. \A n : Joined(p, n, b) = SumFunctionOnSet(f(n), 1 .. n)
  BY DEF Joined
<1>2. ASSUME NEW n \in 0 .. m, NEW j \in 1 .. n PROVE f(n)[j] \in Nat
  <2>1. p[j] % b \in Nat
    BY <1>0 DEF PowersUpTo
  <2>2. b^(j - 1) \in Nat
    BY <1>0, PowersArePositive
  <2> QED
    BY <2>1, <2>2
<1>3. \A n \in 0 .. m, k \in 0 .. m : \A j \in 1 .. n : j \in 1 .. k => f(n)[j] = f(k)[j]
  OBVIOUS
<1>4. ASSUME NEW n \in 0 .. m - 1 PROVE f(n + 1)[n + 1] = (p[n + 1] % b) * b^n
  <2>1. n + 1 \in 1 .. n + 1 /\ (n + 1) - 1 = n
    BY <1>0
  <2> QED
    BY <2>1
<1> HIDE DEF f
<1>5. \A n \in 0 .. m : IsFiniteSet(1 .. n)
  BY <1>0, FS_Interval
<1>6. Joined(p, 0, b) = 0
  <2>1. 1 .. 0 = {}
    OBVIOUS
  <2> QED
    BY <1>1, <2>1, SumOfNothing
<1>7. \A n \in 0 .. m : Joined(p, n, b) \in Nat
  BY <1>1, <1>2, <1>5, SumIsNat
<1>8. ASSUME NEW n \in 0 .. m - 1
      PROVE  Joined(p, n + 1, b) = (p[n + 1] % b) * b^n + Joined(p, n, b)
  <2>1. /\ n \in 0 .. m /\ n + 1 \in 0 .. m /\ n + 1 \in 1 .. n + 1
        /\ (1 .. n + 1) \ {n + 1} = 1 .. n
    BY <1>0
  <2> DEFINE g == f(n + 1)
             h == f(n)
             k == n + 1
  <2>2. \A j \in 1 .. k : g[j] \in Int
    BY <2>1, <1>2
  <2>3. \A j \in 1 .. n : g[j] = h[j]
    BY <2>1, <1>0, <1>3
  <2>4. g[k] = (p[n + 1] % b) * b^n
    BY <1>4
  <2>5. IsFiniteSet(1 .. k) /\ k \in 1 .. k /\ (1 .. k) \ {k} = 1 .. n
    <3>1. IsFiniteSet(1 .. k)
      BY <2>1, <1>5
    <3>2. k \in 1 .. k /\ (1 .. k) \ {k} = 1 .. n
      BY <2>1
    <3> QED
      BY <3>1, <3>2
  <2>8. IsFiniteSet(1 .. n)
    BY <2>1, <1>5
  <2> DEFINE K == 1 .. k
  <2> HIDE DEF g, h, k
  <2>6. SumFunctionOnSet(g, 1 .. k) = g[k] + SumFunctionOnSet(g, 1 .. n)
    <3>1. /\ IsFiniteSet(K) /\ k \in K /\ K \ {k} = 1 .. n
          /\ \A j \in K : g[j] \in Int
      BY <2>2, <2>5
    <3> HIDE DEF K
    <3>2. SumFunctionOnSet(g, K) = g[k] + SumFunctionOnSet(g, K \ {k})
      BY <3>1, SumTakesOut
    <3> QED
      BY <3>1, <3>2 DEF K
  <2>7. SumFunctionOnSet(g, 1 .. n) = SumFunctionOnSet(h, 1 .. n)
    BY <2>3, <2>8, SumsEqual
  <2> QED
    BY <1>1, <2>4, <2>6, <2>7 DEF g, h, k
<1> QED
  BY <1>6, <1>7, <1>8

(* The digits of v, with what is beyond them, are v. *)
LEMMA DigitsAreNumber ==
  ASSUME NEW b, NEW N, PowersUpTo(b, N), NEW p, NEW m \in 0 .. N + 1, NEW v \in Nat,
         \A j \in 1 .. m : p[j] \in Nat /\ p[j] % b = (v \div b^(j - 1)) % b
  PROVE  Joined(p, m, b) + b^m * (v \div b^m) = v
<1>0. N \in Nat /\ m \in Nat /\ b \in Nat \ {0}
  BY DEF PowersUpTo
<1> DEFINE S == {n \in Nat : n <= m => Joined(p, n, b) + b^n * (v \div b^n) = v}
<1>1. 0 \in S
  <2>1. b^0 = 1 /\ Joined(p, 0, b) = 0
    BY JoinedSteps DEF PowersUpTo
  <2>2. v \div 1 = v
    OBVIOUS
  <2> QED
    BY <2>1, <2>2
<1>2. ASSUME NEW n \in Nat, n \in S PROVE n + 1 \in S
  <2>1. CASE n \in 0 .. m - 1
    <3> DEFINE c == b^n
               e == b^(n + 1)
               d == (v \div c) % b
               x == v \div c
               y == v \div e
               s == Joined(p, n, b)
               t == Joined(p, n + 1, b)
    <3>0. n \in 0 .. N /\ n \in 0 .. m /\ n + 1 \in 1 .. m /\ n + 1 \in 0 .. m /\ (n + 1) - 1 = n
      BY <1>0, <2>1
    <3>1. c \in Nat \ {0} /\ e = b * c
      <4>1. n \in 0 .. N + 1
        BY <3>0, <1>0
      <4>2. e = b * c
        BY <3>0 DEF PowersUpTo
      <4> QED
        BY <4>1, <4>2, PowersArePositive
    <3>2. x \in Nat /\ y \in Nat /\ x = b * y + d /\ d \in 0 .. b - 1
      BY <3>0, DigitTaken
    <3>3. p[n + 1] % b = d
      BY <3>0
    <3>4. s \in Nat /\ t = d * c + s
      BY <3>0, <3>3, <2>1, JoinedSteps
    <3>5. s + c * x = v
      BY <1>2, <3>0
    <3>6. t + e * y = v => n + 1 \in S
      OBVIOUS
    <3> HIDE DEF c, e, d, x, y, s, t, S
    <3>7. c * x = c * (b * y) + c * d
      BY <3>1, <3>2, <1>0
    <3>8. e * y = c * (b * y)
      BY <3>1, <3>2, <1>0
    <3>9. c * d \in Nat /\ d * c = c * d /\ c * (b * y) \in Nat
      BY <3>1, <3>2, <1>0
    <3> QED
      BY <3>4, <3>5, <3>6, <3>7, <3>8, <3>9
  <2> QED
    BY <2>1, <1>0
<1> HIDE DEF S
<1>3. Nat \subseteq S
  BY <1>1, <1>2, NaturalsBySteps
<1> QED
  BY <1>0, <1>3 DEF S

(* A number below b^m has no digits beyond the m-th. *)
LEMMA DigitsAreAll ==
  ASSUME NEW b, NEW N, PowersUpTo(b, N), NEW p, NEW m \in 0 .. N + 1, NEW v \in Nat,
         \A j \in 1 .. m : p[j] \in Nat /\ p[j] % b = (v \div b^(j - 1)) % b,
         v < b^m
  PROVE  Joined(p, m, b) = v
<1> DEFINE c == b^m
<1>1. c \in Nat \ {0}
  BY PowersArePositive
<1>2. Joined(p, m, b) + c * (v \div c) = v
  BY DigitsAreNumber
<1>3. Joined(p, m, b) \in Nat
  <2>1. m \in 0 .. m
    BY DEF PowersUpTo
  <2> QED
    BY <2>1, JoinedSteps
<1> HIDE DEF c
<1>4. v < c
  BY DEF c
<1>5. v \div c = 0
  BY <1>1, <1>4, DivSmall
<1> QED
  BY <1>1, <1>2, <1>3, <1>5

-----------------------------------------------------------------------------
(* Recursion: functions that divide their argument by b until it is below  *)
(* b exist.                                                                *)

RecursionBody(b, base, step, g, x) == IF x < b THEN base[x] ELSE step[x][g[x \div b]]

RecursionUpTo(b, S, base, step, g, n) ==
  /\ g \in [0 .. n -> S]
  /\ \A x \in 0 .. n : g[x] = RecursionBody(b, base, step, g, x)

(* A quotient by b is less than what was divided.                         *)
LEMMA QuotientIsLess ==
  ASSUME NEW b \in Nat, b > 1, NEW x \in Nat \ {0}
  PROVE  x \div b \in 0 .. x - 1
<1> DEFINE q == x \div b
           r == x % b
<1>1. q \in Nat /\ r \in 0 .. b - 1 /\ x = b * q + r
  OBVIOUS
<1> HIDE DEF q, r
<1>2. PICK d \in Nat : b = 2 + d
  OBVIOUS
<1>3. b * q = q + q + d * q /\ d * q \in Nat
  BY <1>1, <1>2
<1>4. q \in 0 .. x - 1
  BY <1>1, <1>3
<1> QED
  BY <1>4 DEF q

(* Two such functions, up to n and up to m, agree where both are defined.  *)
LEMMA RecursionAgrees ==
  ASSUME NEW b \in Nat, b > 1, NEW S, NEW base, NEW step, NEW n \in Nat, NEW m \in Nat, n <= m,
         NEW g, RecursionUpTo(b, S, base, step, g, n),
         NEW h, RecursionUpTo(b, S, base, step, h, m)
  PROVE  \A x \in 0 .. n : g[x] = h[x]
<1> DEFINE D == {x \in 0 .. n : g[x] # h[x]}
<1> SUFFICES ASSUME D # {} PROVE FALSE
  OBVIOUS
<1>1. D \subseteq Nat
  OBVIOUS
<1> HIDE DEF D
<1>2. PICK x \in D : \A y \in D : x <= y
  BY <1>1, LeastNatural
<1>3. x \in 0 .. n /\ x \in 0 .. m /\ g[x] # h[x] /\ x \in Nat
  BY <1>2 DEF D
<1>4. g[x] = RecursionBody(b, base, step, g, x) /\ h[x] = RecursionBody(b, base, step, h, x)
  BY <1>3 DEF RecursionUpTo
<1>5. CASE x < b
  BY <1>3, <1>4, <1>5 DEF RecursionBody
<1>6. CASE ~(x < b)
  <2>1. x \div b \in 0 .. x - 1
    BY <1>3, <1>6, QuotientIsLess
  <2>2. x \div b \notin D /\ x \div b \in 0 .. n
    BY <1>2, <1>3, <2>1
  <2>3. g[x \div b] = h[x \div b]
    BY <2>2 DEF D
  <2> QED
    BY <1>3, <1>4, <1>6, <2>3 DEF RecursionBody
<1> QED
  BY <1>5, <1>6

(* Hence there is one on all natural numbers.                              *)
LEMMA RecursionExists ==
  ASSUME NEW b \in Nat, b > 1, NEW S, NEW base \in [Nat -> S], NEW step \in [Nat -> [S -> S]]
  PROVE  \E f \in [Nat -> S] : \A x \in Nat : f[x] = RecursionBody(b, base, step, f, x)
<1> DEFINE Upto(g, n) == RecursionUpTo(b, S, base, step, g, n)
           P == {n \in Nat : \E g : Upto(g, n)}
<1>1. 0 \in P
  <2> DEFINE g == [x \in 0 .. 0 |-> base[x]]
  <2>1. g \in [0 .. 0 -> S]
    OBVIOUS
  <2>2. \A x \in 0 .. 0 : g[x] = RecursionBody(b, base, step, g, x)
    BY DEF RecursionBody
  <2> HIDE DEF g
  <2>3. Upto(g, 0)
    BY <2>1, <2>2 DEF RecursionUpTo
  <2> QED
    BY <2>3
<1>2. ASSUME NEW n \in Nat, n \in P PROVE n + 1 \in P
  <2>1. PICK g : Upto(g, n)
    BY <1>2
  <2> DEFINE k == n + 1
             h == [x \in 0 .. k |-> IF x = k THEN RecursionBody(b, base, step, g, k) ELSE g[x]]
  <2>2. g \in [0 .. n -> S] /\ \A x \in 0 .. n : g[x] = RecursionBody(b, base, step, g, x)
    BY <2>1 DEF RecursionUpTo
  <2>3. k \in Nat \ {0} /\ k \in 0 .. k /\ k - 1 = n
    OBVIOUS
  <2>4. RecursionBody(b, base, step, g, k) \in S
    <3>1. CASE k < b
      BY <3>1, <2>3 DEF RecursionBody
    <3>2. CASE ~(k < b)
      <4>1. k \div b \in 0 .. n
        BY <2>3, QuotientIsLess
      <4> HIDE DEF k
      <4>2. g[k \div b] \in S /\ step[k] \in [S -> S]
        BY <4>1, <2>2, <2>3
      <4> QED
        BY <4>2, <3>2 DEF RecursionBody
    <3> QED
      BY <3>1, <3>2
  <2>5. h \in [0 .. k -> S]
    BY <2>2, <2>4
  <2>6. /\ \A x \in 0 .. n : h[x] = g[x]
        /\ h[k] = RecursionBody(b, base, step, g, k)
        /\ \A x \in 0 .. k : x = k \/ x \in 0 .. n
    OBVIOUS
  <2> HIDE DEF h, k
  <2>7. ASSUME NEW x \in 0 .. k
        PROVE  RecursionBody(b, base, step, h, x) = RecursionBody(b, base, step, g, x)
    <3>1. CASE x < b
      BY <3>1 DEF RecursionBody
    <3>2. CASE ~(x < b)
      <4>1. x \in Nat \ {0} /\ x <= k
        BY <3>2, <2>3
      <4>2. x \div b \in 0 .. x - 1
        BY <4>1, QuotientIsLess
      <4>3. x \div b \in 0 .. n
        BY <4>1, <4>2, <2>3
      <4> QED
        BY <3>2, <4>3, <2>6 DEF RecursionBody
    <3> QED
      BY <3>1, <3>2
  <2>8. \A x \in 0 .. k : h[x] = RecursionBody(b, base, step, h, x)
    BY <2>2, <2>6, <2>7
  <2>9. Upto(h, k)
    BY <2>5, <2>8 DEF RecursionUpTo
  <2> QED
    BY <2>9, <2>3 DEF k
<1> HIDE DEF P
<1>3. Nat \subseteq P
  BY <1>1, <1>2, NaturalsBySteps
<1>4. \A n \in Nat : \E g : Upto(g, n)
  BY <1>3 DEF P
<1> DEFINE G == [n \in Nat |-> CHOOSE g : Upto(g, n)]
           f == [x \in Nat |-> G[x][x]]
<1>5. \A n \in Nat : Upto(G[n], n)
  BY <1>4
<1>6. \A x \in Nat : f[x] = G[x][x]
  OBVIOUS
<1> HIDE DEF G
<1>7. ASSUME NEW x \in Nat
      PROVE  G[x][x] \in S /\ G[x][x] = RecursionBody(b, base, step, G[x], x)
  <2>1. x \in 0 .. x
    OBVIOUS
  <2> QED
    BY <2>1, <1>5 DEF RecursionUpTo
<1>8. f \in [Nat -> S]
  BY <1>7
<1> HIDE DEF f
<1>9. ASSUME NEW x \in Nat
      PROVE  RecursionBody(b, base, step, G[x], x) = RecursionBody(b, base, step, f, x)
  <2>1. CASE x < b
    BY <2>1 DEF RecursionBody
  <2>2. CASE ~(x < b)
    <3>1. x \in Nat \ {0}
      BY <2>2
    <3>2. PICK y : y = x \div b
      OBVIOUS
    <3>3. y \in Nat /\ y <= x /\ y \in 0 .. y
      BY <3>1, <3>2, QuotientIsLess
    <3>4. G[y][y] = G[x][y]
      <4> DEFINE g == G[y]
                 h == G[x]
      <4>1. /\ RecursionUpTo(b, S, base, step, g, y)
            /\ RecursionUpTo(b, S, base, step, h, x)
        BY <3>3, <1>5
      <4> HIDE DEF g, h
      <4>2. \A z \in 0 .. y : g[z] = h[z]
        BY <3>3, <4>1, RecursionAgrees
      <4> QED
        BY <3>3, <4>2 DEF g, h
    <3> QED
      BY <2>2, <3>2, <3>3, <3>4, <1>6 DEF RecursionBody
  <2> QED
    BY <2>1, <2>2
<1> QED
  BY <1>6, <1>7, <1>8, <1>9

-----------------------------------------------------------------------------
(* Varints. *)

Widths == {Width32, Width64}

(* What the constants provide. *)
LEMMA WidthFacts ==
  ASSUME NEW w \in Widths
  PROVE  /\ B \in Nat \ {0} /\ B > 1
         /\ Groups(w) \in Nat \ {0}
         /\ 2^w \in Nat \ {0} /\ B <= 2^w /\ 2^w <= B^Groups(w)
         /\ PowersUpTo(B, Groups(w))
         /\ w \div (GroupBits + 1) \in Nat
         /\ 2^w = (2 * B)^(w \div (GroupBits + 1))
         /\ PowersUpTo(2 * B, w \div (GroupBits + 1))
<1>1. /\ B \in Nat /\ B > 1
      /\ 2^w \in Nat /\ B <= 2^w /\ 2^w <= B^Groups(w)
      /\ 2^w = (2 * B)^(w \div (GroupBits + 1))
      /\ \A n \in 0 .. Groups(w) :
            B^n \in Nat /\ B^0 = 1 /\ B^(n + 1) = B * B^n
      /\ \A n \in 0 .. w \div (GroupBits + 1) :
            (2 * B)^n \in Nat /\ (2 * B)^0 = 1 /\ (2 * B)^(n + 1) = (2 * B) * (2 * B)^n
  BY Powers DEF Widths
<1>2. GroupBits \in Nat \ {0} /\ w \in Nat \ {0}
  BY CodingAssumption DEF Widths
<1>3. Groups(w) \in Nat \ {0}
  <2> DEFINE v == w + (GroupBits - 1)
  <2>1. v \in Nat /\ ~(v < GroupBits * 1)
    BY <1>2
  <2>2. Groups(w) = v \div GroupBits
    BY DEF Groups
  <2> HIDE DEF v
  <2>3. v \div GroupBits \in Nat /\ ~(v \div GroupBits < 1)
    BY <2>1, <1>2, DivBelow
  <2> QED
    BY <2>2, <2>3
<1>4. w \div (GroupBits + 1) \in Nat
  BY <1>2
<1>5. PowersUpTo(B, Groups(w))
  BY <1>1, <1>3 DEF PowersUpTo
<1>6. PowersUpTo(2 * B, w \div (GroupBits + 1))
  <2> DEFINE b == 2 * B
             n == w \div (GroupBits + 1)
  <2>1. /\ b \in Nat /\ b > 1 /\ n \in Nat
        /\ \A k \in 0 .. n : b^k \in Nat /\ b^0 = 1 /\ b^(k + 1) = b * b^k
    BY <1>1, <1>4
  <2> HIDE DEF b, n
  <2>2. PowersUpTo(b, n)
    BY <2>1 DEF PowersUpTo
  <2> QED
    BY <2>2 DEF b, n
<1> QED
  BY <1>1, <1>3, <1>4, <1>5, <1>6

(* A byte that says there is more carries B's remainder of the value. *)
LEMMA MoreByte ==
  ASSUME NEW v \in Nat
  PROVE  More(v) \in Byte /\ More(v) \in Nat /\ More(v) >= B /\ More(v) % B = v % B
<1>1. B \in Nat \ {0}
  BY WidthFacts DEF Widths
<1> DEFINE r == v % B
<1>2. r \in 0 .. B - 1
  BY <1>1
<1>3. More(v) = r + B
  BY DEF More
<1> HIDE DEF r
<1>4. r + B \in Nat /\ r + B = B * 1 + r
  BY <1>1, <1>2
<1>5. (r + B) % B = r
  BY <1>1, <1>2, <1>4, DivUnique
<1> QED
  BY <1>1, <1>2, <1>3, <1>5 DEF Byte, r

(* The loop of EncodeVarint64. *)
LEMMA EncodeVarint64Loop ==
  \A v \in Nat : EncodeVarint64[v] =
    IF v < B THEN <<v>> ELSE <<More(v)>> \o EncodeVarint64[v \div B]
<1> DEFINE S == Seq(Nat)
           base == [x \in Nat |-> <<x>>]
           step == [x \in Nat |-> [s \in S |-> <<More(x)>> \o s]]
<1>1. B \in Nat /\ B > 1
  BY WidthFacts DEF Widths
<1>2. base \in [Nat -> S]
  OBVIOUS
<1>3. step \in [Nat -> [S -> S]]
  <2>1. ASSUME NEW x \in Nat, NEW s \in S PROVE <<More(x)>> \o s \in S
    <3>1. More(x) \in Nat
      BY MoreByte
    <3> QED
      BY <3>1
  <2> QED
    BY <2>1
<1>4. \A x \in Nat : base[x] = <<x>> /\ \A s \in S : step[x][s] = <<More(x)>> \o s
  OBVIOUS
<1> HIDE DEF S, base, step
<1>5. PICK f \in [Nat -> S] : \A x \in Nat : f[x] = RecursionBody(B, base, step, f, x)
  BY <1>1, <1>2, <1>3, RecursionExists
<1>6. ASSUME NEW v \in Nat
      PROVE  f[v] = IF v < B THEN <<v>> ELSE <<More(v)>> \o f[v \div B]
  <2>1. f[v] = RecursionBody(B, base, step, f, v) /\ base[v] = <<v>>
    BY <1>4, <1>5
  <2>2. v \div B \in Nat
    BY <1>1
  <2>3. f[v \div B] \in S
    BY <2>2, <1>5
  <2>4. step[v][f[v \div B]] = <<More(v)>> \o f[v \div B]
    BY <2>3, <1>4
  <2> QED
    BY <2>1, <2>4 DEF RecursionBody
<1>7. f = [v \in Nat |-> IF v < B THEN <<v>> ELSE <<More(v)>> \o f[v \div B]]
  BY <1>5, <1>6
<1>8. EncodeVarint64 =
        [v \in Nat |-> IF v < B THEN <<v>> ELSE <<More(v)>> \o EncodeVarint64[v \div B]]
  BY <1>7 DEF EncodeVarint64
<1> QED
  BY <1>8

(* The loop of VarintLength. *)
LEMMA VarintLengthLoop ==
  \A v \in Nat : VarintLength[v] = IF v < B THEN 1 ELSE 1 + VarintLength[v \div B]
<1> DEFINE S == Nat
           base == [x \in Nat |-> 1]
           step == [x \in Nat |-> [n \in Nat |-> 1 + n]]
<1>1. B \in Nat /\ B > 1
  BY WidthFacts DEF Widths
<1>2. base \in [Nat -> S] /\ step \in [Nat -> [S -> S]]
  OBVIOUS
<1>3. \A x \in Nat : base[x] = 1 /\ \A n \in Nat : step[x][n] = 1 + n
  OBVIOUS
<1> HIDE DEF base, step, S
<1>4. PICK f \in [Nat -> S] : \A x \in Nat : f[x] = RecursionBody(B, base, step, f, x)
  BY <1>1, <1>2, RecursionExists
<1>5. ASSUME NEW v \in Nat
      PROVE  f[v] = IF v < B THEN 1 ELSE 1 + f[v \div B]
  <2>1. f[v] = RecursionBody(B, base, step, f, v) /\ base[v] = 1
    BY <1>3, <1>4
  <2>2. v \div B \in Nat
    BY <1>1
  <2>3. f[v \div B] \in Nat
    BY <2>2, <1>4 DEF S
  <2>4. step[v][f[v \div B]] = 1 + f[v \div B]
    BY <2>3, <1>3
  <2> QED
    BY <2>1, <2>4 DEF RecursionBody
<1>6. f = [v \in Nat |-> IF v < B THEN 1 ELSE 1 + f[v \div B]]
  BY <1>4, <1>5
<1>7. VarintLength = [v \in Nat |-> IF v < B THEN 1 ELSE 1 + VarintLength[v \div B]]
  BY <1>6 DEF VarintLength
<1> QED
  BY <1>7

(* A varint of n bytes: all groups of v but the last are marked. *)
IsVarint(s, v, n) ==
  /\ n \in Nat \ {0} /\ s \in Seq(Byte) /\ Len(s) = n
  /\ \A j \in 1 .. n - 1 : s[j] = More(v \div B^(j - 1))
  /\ s[n] = v \div B^(n - 1) /\ v < B^n

(* n groups are as many as v needs. *)
Fits(v, n) == v < B^n /\ (n = 1 \/ B^(n - 1) <= v)

(* Min is the least element. *)
LEMMA MinIsLeast ==
  ASSUME NEW S, S \subseteq Nat, S # {}
  PROVE  Min(S) \in S /\ \A y \in S : Min(S) <= y
BY LeastNatural DEF Min

(* The first group and the others. *)
LEMMA VarintGrows ==
  ASSUME NEW w \in Widths, NEW n \in 1 .. Groups(w) - 1, NEW v \in Nat, NEW s,
         IsVarint(s, v \div B, n)
  PROVE  IsVarint(<<More(v)>> \o s, v, n + 1)
<1> DEFINE q == v \div B
           t == <<More(v)>> \o s
<1>1. /\ B \in Nat \ {0} /\ PowersUpTo(B, Groups(w)) /\ Groups(w) \in Nat
      /\ n \in Nat \ {0} /\ n \in 0 .. Groups(w)
  BY WidthFacts
<1>2. q \in Nat
  BY <1>1
<1>3. /\ s \in Seq(Byte) /\ Len(s) = n
      /\ \A j \in 1 .. n - 1 : s[j] = More(q \div B^(j - 1))
      /\ s[n] = q \div B^(n - 1) /\ q < B^n
  BY DEF IsVarint
<1>4. /\ t \in Seq(Byte) /\ Len(t) = n + 1 /\ t[1] = More(v)
      /\ \A j \in 1 .. n : t[j + 1] = s[j]
  <2>1. More(v) \in Byte
    BY MoreByte
  <2> QED
    BY <1>1, <1>3, <2>1
<1>5. ASSUME NEW j \in 1 .. n
      PROVE  q \div B^(j - 1) = v \div B^j
  <2> DEFINE c == B^(j - 1)
  <2>1. j - 1 \in 0 .. Groups(w) /\ j - 1 \in 0 .. Groups(w) + 1 /\ (j - 1) + 1 = j
    BY <1>1
  <2>2. c \in Nat \ {0}
    BY <1>1, <2>1, PowersArePositive
  <2>3. B^j = B * c
    BY <1>1, <2>1 DEF PowersUpTo
  <2> HIDE DEF c
  <2>4. (v \div B) \div c = v \div (c * B)
    BY <1>1, <2>2, DivDiv
  <2>5. c * B = B * c
    BY <1>1, <2>2
  <2> QED
    BY <2>3, <2>4, <2>5 DEF c
<1>6. v < B^(n + 1)
  <2> DEFINE c == B^n
  <2>1. c \in Nat
    BY <1>1, PowersArePositive
  <2>2. B^(n + 1) = B * c
    BY <1>1 DEF PowersUpTo
  <2>3. q < c
    BY <1>3
  <2> HIDE DEF c
  <2>4. v < B * c
    BY <1>1, <2>1, <2>3, DivBelow
  <2> QED
    BY <2>2, <2>4
<1>7. v \div B^0 = v
  BY <1>1 DEF PowersUpTo
<1> HIDE DEF q, t
<1>8. ASSUME NEW j \in 1 .. n PROVE t[j] = More(v \div B^(j - 1))
  <2>1. CASE j = 1
    BY <2>1, <1>4, <1>7
  <2>2. CASE j # 1
    <3> DEFINE k == j - 1
    <3>1. k \in 1 .. n - 1 /\ k \in 1 .. n /\ k + 1 = j
      BY <2>2, <1>1
    <3>2. t[j] = s[k] /\ s[k] = More(q \div B^(k - 1)) /\ q \div B^(k - 1) = v \div B^k
      BY <3>1, <1>3, <1>4, <1>5
    <3> QED
      BY <3>2
  <2> QED
    BY <2>1, <2>2
<1>9. t[n + 1] = v \div B^n
  <2>1. n \in 1 .. n
    BY <1>1
  <2> QED
    BY <2>1, <1>3, <1>4, <1>5
<1>10. IsVarint(t, v, n + 1)
  <2>1. (n + 1) - 1 = n /\ n + 1 \in Nat \ {0}
    BY <1>1
  <2> QED
    BY <2>1, <1>4, <1>6, <1>8, <1>9 DEF IsVarint
<1> QED
  BY <1>10 DEF t

(* What the two loops make of a number of n groups. *)
LEMMA LoopsMakeVarints ==
  ASSUME NEW w \in Widths
  PROVE  \A n \in 1 .. Groups(w), v \in Nat :
           Fits(v, n) => IsVarint(EncodeVarint64[v], v, n) /\ VarintLength[v] = n
<1>1. /\ B \in Nat \ {0} /\ B > 1 /\ PowersUpTo(B, Groups(w)) /\ Groups(w) \in Nat \ {0}
  BY WidthFacts
<1> DEFINE Good(v, n) == IsVarint(EncodeVarint64[v], v, n) /\ VarintLength[v] = n
           S == {n \in Nat : n + 1 <= Groups(w) => \A v \in Nat : Fits(v, n + 1) => Good(v, n + 1)}
<1>2. B^0 = 1 /\ B^1 = B
  BY <1>1 DEF PowersUpTo
<1>3. 0 \in S
  <2> SUFFICES ASSUME NEW v \in Nat, Fits(v, 1) PROVE Good(v, 1)
    OBVIOUS
  <2>1. v < B
    BY <1>2 DEF Fits
  <2>2. EncodeVarint64[v] = <<v>> /\ VarintLength[v] = 1
    BY <2>1, EncodeVarint64Loop, VarintLengthLoop
  <2>3. <<v>> \in Seq(Byte) /\ Len(<<v>>) = 1 /\ <<v>>[1] = v
    <3>1. v \in Byte
      BY <1>1, <2>1 DEF Byte
    <3> QED
      BY <3>1
  <2>4. v \div B^(1 - 1) = v /\ v < B^1
    BY <1>2, <2>1
  <2>5. IsVarint(<<v>>, v, 1)
    BY <2>3, <2>4 DEF IsVarint
  <2> QED
    BY <2>2, <2>5
<1>4. ASSUME NEW n \in Nat, n \in S PROVE n + 1 \in S
  <2> SUFFICES ASSUME (n + 1) + 1 <= Groups(w), NEW v \in Nat, Fits(v, (n + 1) + 1)
               PROVE  Good(v, (n + 1) + 1)
    OBVIOUS
  <2> DEFINE m == n + 1
             q == v \div B
  <2>1. m \in 1 .. Groups(w) - 1 /\ m \in 0 .. Groups(w) /\ m - 1 \in 0 .. Groups(w)
    BY <1>1
  <2>2. v < B^(m + 1) /\ B^m <= v
    <3>1. m + 1 # 1 /\ (m + 1) - 1 = m
      OBVIOUS
    <3> QED
      BY <3>1 DEF Fits
  <2>3. /\ B^m \in Nat \ {0} /\ B^(m - 1) \in Nat \ {0}
        /\ B^(m + 1) = B * B^m /\ B^m = B * B^(m - 1)
    <3>1. m \in 0 .. Groups(w) + 1 /\ m - 1 \in 0 .. Groups(w) + 1 /\ (m - 1) + 1 = m
      BY <2>1, <1>1
    <3>2. B^m \in Nat \ {0} /\ B^(m - 1) \in Nat \ {0}
      BY <3>1, <1>1, PowersArePositive
    <3>3. B^(m + 1) = B * B^m /\ B^m = B * B^(m - 1)
      BY <2>1, <3>1, <1>1 DEF PowersUpTo
    <3> QED
      BY <3>2, <3>3
  <2> DEFINE c == B^m
             d == B^(m - 1)
  <2>4. /\ c \in Nat \ {0} /\ d \in Nat \ {0} /\ c = B * d
        /\ v < B * c /\ c <= v
    BY <2>2, <2>3
  <2> HIDE DEF c, d
  <2>5. q \in Nat /\ q < c /\ ~(q < d)
    <3>1. q < c
      BY <1>1, <2>4, DivBelow
    <3>2. ~(q < d)
      BY <1>1, <2>4, DivBelow
    <3> QED
      BY <1>1, <3>1, <3>2
  <2>6. Fits(q, m)
    BY <2>4, <2>5 DEF Fits, c, d
  <2>7. Good(q, m)
    BY <1>4, <2>1, <2>5, <2>6
  <2>8. ~(v < B)
    <3>1. PICK x \in Nat : d = 1 + x
      BY <2>4
    <3>2. B * d = B + B * x /\ B * x \in Nat
      BY <3>1, <1>1
    <3> QED
      BY <3>2, <2>4, <1>1
  <2>9. EncodeVarint64[v] = <<More(v)>> \o EncodeVarint64[q] /\ VarintLength[v] = 1 + VarintLength[q]
    BY <2>8, EncodeVarint64Loop, VarintLengthLoop
  <2>10. IsVarint(<<More(v)>> \o EncodeVarint64[q], v, m + 1)
    BY <2>1, <2>7, VarintGrows
  <2>11. VarintLength[v] = m + 1
    BY <2>7, <2>9
  <2> QED
    BY <2>9, <2>10, <2>11
<1> HIDE DEF S
<1>5. Nat \subseteq S
  BY <1>3, <1>4, NaturalsBySteps
<1>6. ASSUME NEW n \in 1 .. Groups(w), NEW v \in Nat, Fits(v, n) PROVE Good(v, n)
  <2>1. n - 1 \in S /\ (n - 1) + 1 = n /\ n <= Groups(w)
    BY <1>5, <1>1
  <2> QED
    BY <2>1, <1>6 DEF S
<1> QED
  BY <1>6

(* Every number of a width fits into that many groups. *)
LEMMA NumbersFit ==
  ASSUME NEW w \in Widths, NEW v \in 0 .. 2^w - 1
  PROVE  \E n \in 1 .. Groups(w) : Fits(v, n)
<1>1. /\ B \in Nat \ {0} /\ PowersUpTo(B, Groups(w)) /\ Groups(w) \in Nat \ {0}
      /\ 2^w \in Nat /\ 2^w <= B^Groups(w)
  BY WidthFacts
<1> DEFINE T == {n \in 1 .. Groups(w) : v < B^n}
<1>2. Groups(w) \in T
  <2>1. Groups(w) \in 0 .. Groups(w) + 1
    BY <1>1
  <2>2. B^Groups(w) \in Nat
    BY <1>1, <2>1, PowersArePositive
  <2>3. Groups(w) \in 1 .. Groups(w)
    BY <1>1
  <2> QED
    BY <1>1, <2>2, <2>3
<1>3. T \subseteq Nat /\ T # {}
  BY <1>2
<1>4. PICK n \in T : \A m \in T : n <= m
  BY <1>3, LeastNatural
<1>5. n \in 1 .. Groups(w) /\ v < B^n
  OBVIOUS
<1>6. CASE n = 1
  BY <1>5, <1>6 DEF Fits
<1>7. CASE n # 1
  <2>1. n - 1 \in 1 .. Groups(w) /\ ~(n <= n - 1) /\ n - 1 \in 0 .. Groups(w) + 1
    BY <1>1, <1>5, <1>7
  <2>2. ~(v < B^(n - 1))
    BY <1>4, <2>1
  <2>3. B^(n - 1) \in Nat
    BY <1>1, <2>1, PowersArePositive
  <2>4. B^(n - 1) <= v
    BY <2>2, <2>3
  <2> QED
    BY <1>5, <2>4 DEF Fits
<1> QED
  BY <1>6, <1>7

(* EncodeVarint64 makes varints. *)
LEMMA Varints64 ==
  ASSUME NEW v \in 0 .. 2^Width64 - 1
  PROVE  \E n \in 1 .. Groups(Width64) :
           IsVarint(EncodeVarint64[v], v, n) /\ VarintLength[v] = n
<1>1. Width64 \in Widths
  BY DEF Widths
<1>2. PICK n \in 1 .. Groups(Width64) : Fits(v, n)
  BY <1>1, NumbersFit
<1>3. v \in Nat
  BY <1>1, WidthFacts
<1> QED
  BY <1>1, <1>2, <1>3, LoopsMakeVarints

(* The branches of EncodeVarint32 make the same ones. *)
LEMMA Varints32 ==
  ASSUME NEW v \in 0 .. 2^Width32 - 1
  PROVE  \E n \in 1 .. Groups(Width32) :
           IsVarint(EncodeVarint32(v), v, n) /\ VarintLength[v] = n
<1> DEFINE w == Width32
           G == Groups(w)
           T == {n \in 1 .. G : v < B^n \/ n = G}
           n == Length32(v)
           s == EncodeVarint32(v)
<1>0. w \in Widths
  BY DEF Widths
<1>1. /\ B \in Nat \ {0} /\ B > 1 /\ PowersUpTo(B, G) /\ G \in Nat \ {0}
      /\ 2^w \in Nat /\ 2^w <= B^G
  BY <1>0, WidthFacts
<1>2. v \in Nat /\ v < B^G
  <2>1. G \in 0 .. G + 1
    BY <1>1
  <2>2. B^G \in Nat
    BY <1>1, <2>1, PowersArePositive
  <2> QED
    BY <1>1, <2>2
<1>3. n \in T /\ \A m \in T : n <= m
  <2>1. T \subseteq Nat /\ T # {}
    BY <1>1
  <2>2. n = Min(T)
    BY DEF Length32
  <2> QED
    BY <2>1, <2>2, MinIsLeast
<1>4. n \in 1 .. G /\ v < B^n
  BY <1>2, <1>3
<1>5. s = [j \in 1 .. n |-> IF j < n THEN More(v \div B^(j - 1))
                                     ELSE (v \div B^(j - 1)) % (2 * B)]
  BY DEF EncodeVarint32
<1> HIDE DEF w, n, s
<1>6. Fits(v, n)
  <2>1. CASE n = 1
    BY <1>4, <2>1 DEF Fits
  <2>2. CASE n # 1
    <3>1. n - 1 \in 1 .. G /\ ~(n <= n - 1) /\ n - 1 \in 0 .. G + 1
      BY <1>1, <1>4, <2>2
    <3>2. ~(v < B^(n - 1))
      BY <1>3, <3>1
    <3>3. B^(n - 1) \in Nat
      BY <1>1, <3>1, PowersArePositive
    <3>4. B^(n - 1) <= v
      BY <1>2, <3>2, <3>3
    <3> QED
      BY <1>4, <3>4 DEF Fits
  <2> QED
    BY <2>1, <2>2
<1>7. \A j \in 1 .. n : v \div B^(j - 1) \in Nat
  <2> SUFFICES ASSUME NEW j \in 1 .. n PROVE v \div B^(j - 1) \in Nat
    OBVIOUS
  <2>1. j - 1 \in 0 .. G
    BY <1>1, <1>4
  <2> QED
    BY <1>1, <1>2, <2>1, DigitTaken
<1>8. /\ v \div B^(n - 1) < B
      /\ (v \div B^(n - 1)) % (2 * B) = v \div B^(n - 1)
  <2> DEFINE c == B^(n - 1)
  <2>1. n - 1 \in 0 .. G /\ n - 1 \in 0 .. G + 1 /\ (n - 1) + 1 = n
    BY <1>1, <1>4
  <2>2. c \in Nat \ {0}
    BY <1>1, <2>1, PowersArePositive
  <2>3. B^n = B * c
    BY <1>1, <2>1 DEF PowersUpTo
  <2> HIDE DEF c
  <2>4. B * c = c * B
    BY <1>1, <2>2
  <2>5. v \div c < B /\ v \div c \in Nat
    <3>1. v < c * B /\ v \in Nat /\ B \in Nat
      BY <1>1, <1>2, <1>4, <2>3, <2>4
    <3> QED
      BY <2>2, <3>1, DivBelow
  <2>6. 2 * B \in Nat /\ v \div c < 2 * B
    BY <1>1, <2>5
  <2>7. (v \div c) % (2 * B) = v \div c
    BY <2>5, <2>6, DivSmall
  <2> QED
    BY <2>5, <2>7 DEF c
<1>9. n \in Nat \ {0} /\ n - 1 \in Nat
  BY <1>1, <1>4
<1>10. /\ \A j \in 1 .. n - 1 : s[j] = More(v \div B^(j - 1))
       /\ s[n] = v \div B^(n - 1)
  BY <1>5, <1>8, <1>9
<1>11. s \in Seq(Byte) /\ Len(s) = n
  <2>1. ASSUME NEW j \in 1 .. n PROVE s[j] \in Byte
    <3>1. CASE j = n
      <4>1. v \div B^(n - 1) \in Nat
        BY <1>7, <3>1
      <4> QED
        BY <1>1, <1>8, <1>10, <3>1, <4>1 DEF Byte
    <3>2. CASE j # n
      <4>1. j \in 1 .. n - 1
        BY <1>9, <3>2
      <4> QED
        BY <4>1, <1>7, <1>10, MoreByte
    <3> QED
      BY <3>1, <3>2
  <2>2. s \in [1 .. n -> Byte]
    BY <1>5, <2>1
  <2> QED
    BY <2>2, <1>9
<1>12. IsVarint(s, v, n)
  BY <1>4, <1>9, <1>10, <1>11 DEF IsVarint
<1>13. VarintLength[v] = n
  BY <1>0, <1>2, <1>4, <1>6, LoopsMakeVarints DEF w
<1> QED
  BY <1>4, <1>12, <1>13 DEF s, w

(* The bytes of an integer of fixed width. *)
LEMMA FixedBytes ==
  ASSUME NEW w \in Widths, NEW v \in 0 .. 2^w - 1
  PROVE  /\ EncodeFixed(v, w) \in Seq(Byte)
         /\ Len(EncodeFixed(v, w)) = w \div (GroupBits + 1)
         /\ \A j \in 1 .. w \div (GroupBits + 1) :
              EncodeFixed(v, w)[j] = (v \div (2 * B)^(j - 1)) % (2 * B)
<1> DEFINE n == w \div (GroupBits + 1)
           b == 2 * B
           s == EncodeFixed(v, w)
<1>1. b \in Nat \ {0} /\ n \in Nat /\ v \in Nat /\ PowersUpTo(b, n) /\ Byte = 0 .. b - 1
  BY WidthFacts DEF Byte
<1>2. s = [j \in 1 .. n |-> (v \div b^(j - 1)) % b]
  BY DEF EncodeFixed
<1> HIDE DEF n, b, s
<1>3. ASSUME NEW j \in 1 .. n PROVE (v \div b^(j - 1)) % b \in Byte
  <2>1. j - 1 \in 0 .. n
    BY <1>1
  <2> QED
    BY <1>1, <2>1, DigitTaken
<1>4. s \in [1 .. n -> Byte]
  BY <1>2, <1>3
<1>5. s \in Seq(Byte) /\ Len(s) = n
  BY <1>1, <1>4
<1> QED
  BY <1>2, <1>5 DEF n, b, s

(* DecodeFixed gives back what EncodeFixed wrote. *)
LEMMA FixedReadBack ==
  ASSUME NEW w \in Widths, NEW v \in 0 .. 2^w - 1, NEW p,
         \A j \in 1 .. w \div (GroupBits + 1) : p[j] = EncodeFixed(v, w)[j]
  PROVE  DecodeFixed(p, w) = v
<1> DEFINE n == w \div (GroupBits + 1)
           b == 2 * B
<1>1. b \in Nat \ {0} /\ n \in Nat /\ v \in Nat /\ PowersUpTo(b, n) /\ v < b^n
  BY WidthFacts
<1>2. \A j \in 1 .. n : p[j] = (v \div b^(j - 1)) % b
  BY FixedBytes
<1>3. DecodeFixed(p, w) = Joined(p, n, b)
  BY DEF DecodeFixed
<1> HIDE DEF n, b
<1>4. ASSUME NEW j \in 1 .. n
      PROVE  p[j] \in Nat /\ p[j] % b = (v \div b^(j - 1)) % b
  <2> DEFINE d == (v \div b^(j - 1)) % b
  <2>1. j - 1 \in 0 .. n
    BY <1>1
  <2>2. d \in 0 .. b - 1
    BY <1>1, <2>1, DigitTaken
  <2>3. p[j] = d
    BY <1>2
  <2> HIDE DEF d
  <2>4. d % b = d
    BY <1>1, <2>2, DivSmall
  <2> QED
    BY <2>2, <2>3, <2>4 DEF d
<1>5. n \in 0 .. n + 1
  BY <1>1
<1>6. Joined(p, n, b) = v
  BY <1>1, <1>4, <1>5, DigitsAreAll
<1> QED
  BY <1>3, <1>6

(* The ends a decoding loop looks for. *)
Ends(p, w) == {n \in 1 .. Rounds(w) : n <= Len(p) /\ p[n] < B}

(* What a decoding loop makes of bytes that begin like those of v, which   *)
(* may be cut off.                                                         *)
LEMMA VarintDecodes ==
  ASSUME NEW w \in Widths, NEW x \in Widths, NEW n \in 1 .. Groups(x),
         NEW v \in Nat, NEW s, IsVarint(s, v, n),
         NEW p \in Seq(Byte), \A j \in 1 .. n : j <= Len(p) => p[j] = s[j]
  PROVE  GetVarintLoop(p, w) =
           IF n <= Groups(w) /\ n <= Len(p)
           THEN [ok |-> TRUE, value |-> v % 2^w, used |-> n]
           ELSE Failure
<1>1. /\ B \in Nat \ {0} /\ B > 1 /\ PowersUpTo(B, Groups(x)) /\ Groups(x) \in Nat \ {0}
      /\ Groups(w) \in Nat \ {0}
  BY WidthFacts
<1>2. n \in Nat \ {0} /\ Len(p) \in Nat /\ n \in 0 .. Groups(x) + 1
  BY <1>1
<1>3. \A j \in 1 .. n : v \div B^(j - 1) \in Nat
  <2> SUFFICES ASSUME NEW j \in 1 .. n PROVE v \div B^(j - 1) \in Nat
    OBVIOUS
  <2>1. j - 1 \in 0 .. Groups(x)
    BY <1>1
  <2> QED
    BY <1>1, <2>1, DigitTaken
<1>4. \A j \in 1 .. n - 1 : s[j] = More(v \div B^(j - 1)) /\ s[j] \in Nat /\ s[j] >= B
  <2> SUFFICES ASSUME NEW j \in 1 .. n - 1
               PROVE  s[j] = More(v \div B^(j - 1)) /\ s[j] \in Nat /\ s[j] >= B
    OBVIOUS
  <2>1. j \in 1 .. n
    BY <1>2
  <2>2. s[j] = More(v \div B^(j - 1))
    BY DEF IsVarint
  <2> QED
    BY <1>3, <2>1, <2>2, MoreByte
<1>5. s[n] = v \div B^(n - 1) /\ s[n] < B /\ v < B^n
  <2> DEFINE c == B^(n - 1)
  <2>1. n - 1 \in 0 .. Groups(x) /\ n - 1 \in 0 .. Groups(x) + 1 /\ (n - 1) + 1 = n
    BY <1>1
  <2>2. c \in Nat \ {0}
    BY <1>1, <2>1, PowersArePositive
  <2>3. B^n = B * c
    BY <1>1, <2>1 DEF PowersUpTo
  <2>4. s[n] = v \div c /\ v < B^n
    BY DEF IsVarint
  <2> HIDE DEF c
  <2>5. v < c * B
    BY <1>1, <2>2, <2>3, <2>4
  <2>6. v \div c < B
    BY <1>1, <2>2, <2>5, DivBelow
  <2> QED
    BY <2>4, <2>6 DEF c
<1>6. ASSUME NEW m \in Ends(p, w)
      PROVE  n <= m
  <2>1. m \in Nat \ {0} /\ m <= Len(p) /\ p[m] < B
    BY <1>1 DEF Ends, Rounds
  <2>2. CASE m < n
    <3>1. m \in 1 .. n - 1 /\ m \in 1 .. n
      BY <1>2, <2>1, <2>2
    <3>2. p[m] = s[m]
      BY <2>1, <3>1
    <3> QED
      BY <1>1, <1>4, <2>1, <3>1, <3>2
  <2> QED
    BY <1>2, <2>1, <2>2
<1>7. GetVarintLoop(p, w) =
        IF Ends(p, w) = {} THEN Failure
        ELSE [ok |-> TRUE, value |-> Joined(p, Min(Ends(p, w)), B) % 2^w,
              used |-> Min(Ends(p, w))]
  BY DEF GetVarintLoop, Ends
<1>8. CASE n <= Groups(w) /\ n <= Len(p)
  <2>1. p[n] = s[n] /\ n \in 1 .. n
    BY <1>2, <1>8
  <2>2. n \in Ends(p, w)
    BY <1>2, <1>5, <1>8, <2>1 DEF Ends, Rounds
  <2>3. Ends(p, w) \subseteq Nat /\ Ends(p, w) # {}
    BY <1>1, <2>2 DEF Ends, Rounds
  <2>4. Min(Ends(p, w)) = n
    <3>1. Min(Ends(p, w)) \in Ends(p, w) /\ Min(Ends(p, w)) <= n
      BY <2>2, <2>3, MinIsLeast
    <3> QED
      BY <1>2, <1>6, <2>3, <3>1
  <2>5. ASSUME NEW j \in 1 .. n
        PROVE  p[j] \in Nat /\ p[j] % B = (v \div B^(j - 1)) % B
    <3>1. p[j] = s[j]
      BY <1>2, <1>8
    <3>2. CASE j = n
      BY <1>3, <1>5, <3>1, <3>2
    <3>3. CASE j # n
      <4>1. j \in 1 .. n - 1
        BY <1>2, <3>3
      <4> QED
        BY <1>3, <1>4, <3>1, <4>1, MoreByte
    <3> QED
      BY <3>2, <3>3
  <2>6. Joined(p, n, B) = v
    BY <1>1, <1>2, <1>5, <2>5, DigitsAreAll
  <2> QED
    BY <1>7, <1>8, <2>3, <2>4, <2>6
<1>9. CASE ~(n <= Groups(w) /\ n <= Len(p))
  <2>1. ASSUME NEW m \in Ends(p, w) PROVE FALSE
    <3>1. m \in 1 .. Groups(w) /\ m <= Len(p) /\ n <= m
      BY <1>6 DEF Ends, Rounds
    <3> QED
      BY <1>1, <1>2, <1>9, <3>1
  <2>2. Ends(p, w) = {}
    BY <2>1
  <2> QED
    BY <1>7, <1>9, <2>2
<1> QED
  BY <1>8, <1>9

(* The inline beginning of GetVarint32Ptr returns what its loop would. *)
LEMMA FastPathIsLoop ==
  ASSUME NEW p \in Seq(Byte)
  PROVE  GetVarint32Ptr(p) = GetVarintLoop(p, Width32)
<1> DEFINE w == Width32
<1>0. w \in Widths
  BY DEF Widths
<1>1. /\ B \in Nat \ {0} /\ PowersUpTo(B, Groups(w)) /\ Groups(w) \in Nat \ {0}
      /\ 2^w \in Nat \ {0} /\ B <= 2^w /\ B^0 = 1
  BY <1>0, WidthFacts DEF PowersUpTo
<1>2. CASE p # <<>> /\ p[1] < B
  <2> DEFINE v == p[1]
             s == <<v>>
  <2>1. Len(p) \in Nat /\ Len(p) >= 1 /\ v \in Byte
    BY <1>2
  <2>2. v \in Nat /\ v < B
    BY <1>1, <1>2, <2>1 DEF Byte
  <2>3. IsVarint(s, v, 1)
    <3>1. B^1 = B
      BY <1>1 DEF PowersUpTo
    <3>2. v \div B^(1 - 1) = v
      BY <1>1, <2>2
    <3>3. s \in Seq(Byte) /\ Len(s) = 1 /\ s[1] = v
      BY <2>1
    <3> HIDE DEF v, s
    <3> QED
      BY <2>2, <3>1, <3>2, <3>3 DEF IsVarint
  <2>4. \A j \in 1 .. 1 : j <= Len(p) => p[j] = s[j]
    OBVIOUS
  <2> HIDE DEF s
  <2>5. GetVarintLoop(p, w) = [ok |-> TRUE, value |-> v % 2^w, used |-> 1]
    <3>1. 1 \in 1 .. Groups(w) /\ 1 <= Groups(w)
      BY <1>1
    <3> QED
      BY <1>0, <2>1, <2>2, <2>3, <2>4, <3>1, VarintDecodes
  <2>6. v % 2^w = v
    <3>1. v < 2^w
      BY <1>1, <2>2
    <3> QED
      BY <1>1, <2>2, <3>1, DivSmall
  <2> QED
    BY <1>2, <2>5, <2>6 DEF GetVarint32Ptr
<1>3. CASE ~(p # <<>> /\ p[1] < B)
  BY <1>3 DEF GetVarint32Ptr
<1> QED
  BY <1>2, <1>3

-----------------------------------------------------------------------------
(* Any bytes at all. *)

Outcomes == [ok : BOOLEAN, value : Nat \cup Seq(Byte), used : Nat]

(* A decoding loop uses bytes it was given, and looks at no others.        *)
LEMMA LoopIsContained ==
  ASSUME NEW w \in Widths, NEW p \in Seq(Byte), NEW r, r = GetVarintLoop(p, w)
  PROVE  /\ r \in Outcomes /\ r.value \in Nat /\ r.used <= Len(p)
         /\ ~r.ok => r = Failure
         /\ r.ok => \A q \in Seq(Byte) :
              Len(q) = r.used /\ (\A j \in 1 .. r.used : q[j] = p[j]) => GetVarintLoop(q, w) = r
<1>1. /\ B \in Nat \ {0} /\ PowersUpTo(B, Groups(w)) /\ Groups(w) \in Nat \ {0}
      /\ 2^w \in Nat \ {0} /\ Byte \subseteq Nat
  BY WidthFacts DEF Byte
<1>2. \A q : GetVarintLoop(q, w) =
        IF Ends(q, w) = {} THEN Failure
        ELSE [ok |-> TRUE, value |-> Joined(q, Min(Ends(q, w)), B) % 2^w,
              used |-> Min(Ends(q, w))]
  BY DEF GetVarintLoop, Ends
<1>3. \A q : Ends(q, w) \subseteq Nat
  BY <1>1 DEF Ends, Rounds
<1>4. CASE Ends(p, w) = {}
  <2>1. r = Failure
    BY <1>2, <1>4
  <2>2. Failure \in Outcomes /\ Failure.value = 0 /\ Failure.used = 0 /\ ~Failure.ok
    BY DEF Failure, Outcomes
  <2>3. Len(p) \in Nat
    OBVIOUS
  <2> QED
    BY <2>1, <2>2, <2>3
<1>5. CASE Ends(p, w) # {}
  <2> DEFINE n == Min(Ends(p, w))
             v == Joined(p, n, B)
  <2>1. n \in Ends(p, w) /\ \A y \in Ends(p, w) : n <= y
    BY <1>3, <1>5, MinIsLeast
  <2>2. n \in 1 .. Groups(w) /\ n <= Len(p) /\ p[n] < B /\ n \in Nat /\ Len(p) \in Nat
    BY <1>1, <2>1 DEF Ends, Rounds
  <2>3. r = [ok |-> TRUE, value |-> v % 2^w, used |-> n]
    BY <1>2, <1>5
  <2> HIDE DEF n
  <2>4. ASSUME NEW j \in 1 .. n PROVE p[j] \in Nat
    <3>1. p[j] \in Byte
      BY <2>2
    <3> QED
      BY <1>1, <3>1
  <2>5. v \in Nat
    <3>1. n \in 0 .. Groups(w) + 1 /\ n \in 0 .. n /\ \A j \in 1 .. n : p[j] \in Nat
      BY <1>1, <2>2, <2>4
    <3> QED
      BY <1>1, <3>1, JoinedSteps
  <2> HIDE DEF v
  <2>6. r.ok /\ r.used = n /\ r.value \in Nat /\ r \in Outcomes
    <3>1. v % 2^w \in Nat
      BY <1>1, <2>5
    <3> QED
      BY <2>2, <2>3, <3>1 DEF Outcomes
  <2>7. ASSUME NEW q \in Seq(Byte), Len(q) = n, \A j \in 1 .. n : q[j] = p[j]
        PROVE  GetVarintLoop(q, w) = r
    <3>1. n \in Ends(q, w)
      <4>1. n \in 1 .. n
        BY <2>2
      <4> QED
        BY <2>2, <2>7, <4>1 DEF Ends, Rounds
    <3>2. ASSUME NEW m \in Ends(q, w) PROVE n <= m
      <4>1. m \in 1 .. Groups(w) /\ m \in 1 .. n /\ q[m] < B
        BY <2>2, <2>7 DEF Ends, Rounds
      <4>2. m <= Len(p) /\ p[m] < B
        BY <2>2, <2>7, <4>1
      <4>3. m \in Ends(p, w)
        BY <4>1, <4>2 DEF Ends, Rounds
      <4> QED
        BY <2>1, <4>3
    <3>3. Min(Ends(q, w)) = n
      <4>1. Min(Ends(q, w)) \in Ends(q, w) /\ Min(Ends(q, w)) <= n
        BY <1>3, <3>1, MinIsLeast
      <4> QED
        BY <1>3, <2>2, <3>2, <4>1
    <3>4. Joined(q, n, B) = v
      <4> DEFINE f == [j \in 1 .. n |-> (q[j] % B) * B^(j - 1)]
                 g == [j \in 1 .. n |-> (p[j] % B) * B^(j - 1)]
      <4>1. \A j \in 1 .. n : f[j] = g[j]
        BY <2>7
      <4>2. IsFiniteSet(1 .. n)
        BY <2>2, FS_Interval
      <4>3. Joined(q, n, B) = SumFunctionOnSet(f, 1 .. n) /\ v = SumFunctionOnSet(g, 1 .. n)
        BY DEF Joined, v
      <4> HIDE DEF f, g
      <4> QED
        BY <4>1, <4>2, <4>3, SumsEqual
    <3>5. Ends(q, w) # {}
      BY <3>1
    <3> QED
      BY <1>2, <2>3, <3>3, <3>4, <3>5
  <2> QED
    BY <2>2, <2>6, <2>7
<1> QED
  BY <1>4, <1>5

(* The same of a length and the string behind it. *)
LEMMA PrefixedIsContained ==
  ASSUME NEW p \in Seq(Byte), NEW r, r \in {GetPrefixed(p), GetPrefixedPtr(p)}
  PROVE  /\ r \in Outcomes /\ r.used <= Len(p)
         /\ ~r.ok /\ r.used # 0 =>
              /\ GetVarint32Ptr(p).ok /\ GetVarint32Ptr(p).used = r.used
              /\ GetVarint32Ptr(p).value > Len(p) - r.used
<1> DEFINE len == GetVarint32Ptr(p)
<1>1. /\ len \in Outcomes /\ len.value \in Nat /\ len.used <= Len(p) /\ len.used \in Nat
      /\ len.ok \in BOOLEAN /\ Len(p) \in Nat
  <2>1. Width32 \in Widths
    BY DEF Widths
  <2>2. len \in Outcomes /\ len.value \in Nat /\ len.used <= Len(p)
    BY <2>1, FastPathIsLoop, LoopIsContained
  <2> QED
    BY <2>2 DEF Outcomes
<1>2. Failure \in Outcomes /\ Failure.used = 0 /\ Failure.value = 0 /\ ~Failure.ok
  BY DEF Failure, Outcomes
<1>3. GetPrefixed(p) =
        IF ~len.ok THEN Failure
        ELSE IF Len(p) - len.used >= len.value
        THEN [ok |-> TRUE, value |-> SubSeq(p, len.used + 1, len.used + len.value),
              used |-> len.used + len.value]
        ELSE [Failure EXCEPT !.used = len.used]
  BY DEF GetPrefixed
<1>4. GetPrefixedPtr(p) = IF GetPrefixed(p).ok THEN GetPrefixed(p) ELSE Failure
  BY DEF GetPrefixedPtr
<1> HIDE DEF len
<1>5. CASE r = Failure
  BY <1>1, <1>2, <1>5
<1>6. CASE r # Failure
  <2>1. r = GetPrefixed(p) /\ len.ok
    BY <1>3, <1>4, <1>6
  <2>2. CASE Len(p) - len.used >= len.value
    <3>1. r = [ok |-> TRUE, value |-> SubSeq(p, len.used + 1, len.used + len.value),
               used |-> len.used + len.value]
      BY <1>3, <2>1, <2>2
    <3>2. SubSeq(p, len.used + 1, len.used + len.value) \in Seq(Byte)
      BY <1>1, <2>2
    <3>3. len.used + len.value \in Nat /\ len.used + len.value <= Len(p)
      BY <1>1, <2>2
    <3> QED
      BY <3>1, <3>2, <3>3 DEF Outcomes
  <2>3. CASE ~(Len(p) - len.used >= len.value)
    <3>1. r = [ok |-> FALSE, value |-> 0, used |-> len.used]
      BY <1>3, <2>1, <2>3 DEF Failure
    <3>2. r \in Outcomes /\ r.used = len.used
      BY <1>1, <3>1 DEF Outcomes
    <3>3. len.value > Len(p) - len.used
      BY <1>1, <2>3
    <3> QED
      BY <1>1, <2>1, <3>2, <3>3 DEF len
  <2> QED
    BY <2>2, <2>3
<1> QED
  BY <1>5, <1>6

-----------------------------------------------------------------------------
(* The inductive invariant. *)

(* What was put, and the bytes it was put as. *)
Ops == {"fixed32", "fixed64", "varint32", "varint64", "string"}

Written(op, v) ==
  \/ op \in {"fixed32", "varint32"} /\ v \in Values32
  \/ op \in {"fixed64", "varint64"} /\ v \in Values64
  \/ op = "string" /\ v \in Strings

BytesOf(op, v) ==
  CASE op = "fixed32" -> EncodeFixed(v, Width32)
    [] op = "fixed64" -> EncodeFixed(v, Width64)
    [] op = "varint32" -> EncodeVarint32(v)
    [] op = "varint64" -> EncodeVarint64[v]
    [] op = "string" -> EncodeVarint32(Len(v) % 2^Width32) \o v

(* Every value still lies in dst where it was put. *)
PutsOK ==
  /\ puts \in Seq([op : Ops, value : Values32 \cup Values64 \cup Strings,
                    begin : Nat, end : Nat])
  /\ \A i \in DOMAIN puts :
       LET p == puts[i]
           s == BytesOf(p.op, p.value)
       IN  /\ Written(p.op, p.value)
           /\ p.end = p.begin + Len(s) /\ p.end <= Len(dst)
           /\ \A j \in 1 .. Len(s) : dst[p.begin + j] = s[j]

(* What a Get may return for the bytes p. *)
FixedLen(w) == w \div (GroupBits + 1)

FixedResult(p, w) == [ok |-> TRUE, value |-> DecodeFixed(p, w), used |-> FixedLen(w)]

IsResult(op, p, r) ==
  \/ op = "varint32" /\ r = GetVarint32Ptr(p)
  \/ op = "varint64" /\ r = GetVarint64Ptr(p)
  \/ op = "string" /\ r \in {GetPrefixed(p), GetPrefixedPtr(p)}
  \/ op = "fixed32" /\ FixedLen(Width32) <= Len(p) /\ r = FixedResult(p, Width32)
  \/ op = "fixed64" /\ FixedLen(Width64) <= Len(p) /\ r = FixedResult(p, Width64)

Received == SubSeq(dst, got.at + 1, Limit)

(* The input is a part of dst, and what the last Get returned is what the  *)
(* bytes between its beginning and the end of the input give.              *)
CursorOK ==
  \/ data = -1 /\ size = 0 /\ got = Nothing
  \/ /\ data \in Nat /\ size \in Nat /\ Limit <= Len(dst)
     /\ \/ got = Nothing
        \/ /\ got.at \in 0 .. Limit
           /\ \E r \in Outcomes :
                /\ IsResult(got.op, Received, r)
                /\ got.ok = r.ok /\ got.value = r.value
                /\ data = got.at + r.used

CodingInv == dst \in Seq(Byte) /\ PutsOK /\ CursorOK

(* A part of a sequence, by where it begins and its length. *)
LEMMA PartOfSequence ==
  ASSUME NEW S, NEW s \in Seq(S), NEW a \in Nat, NEW n \in Nat, a + n <= Len(s)
  PROVE  /\ SubSeq(s, a + 1, a + n) \in Seq(S) /\ Len(SubSeq(s, a + 1, a + n)) = n
         /\ \A j \in 1 .. n : SubSeq(s, a + 1, a + n)[j] = s[a + j]
<1> DEFINE m == a + 1
           k == a + n
<1>1. m \in Int /\ k \in Int /\ k - m + 1 = n /\ (m <= k <=> n # 0)
  OBVIOUS
<1>2. \A i \in m .. k : s[i] \in S
  OBVIOUS
<1>3. \A i \in 1 .. n : m + i - 1 = a + i
  OBVIOUS
<1> HIDE DEF m, k
<1>4. /\ SubSeq(s, m, k) \in Seq(S)
      /\ Len(SubSeq(s, m, k)) = IF m <= k THEN k - m + 1 ELSE 0
      /\ \A i \in 1 .. k - m + 1 : SubSeq(s, m, k)[i] = s[m + i - 1]
  BY <1>1, <1>2, SubSeqProperties
<1>5. Len(SubSeq(s, m, k)) = n
  BY <1>1, <1>4
<1>6. \A j \in 1 .. n : SubSeq(s, m, k)[j] = s[a + j]
  BY <1>1, <1>3, <1>4
<1> QED
  BY <1>4, <1>5, <1>6 DEF m, k

(* The bytes of a value are bytes. *)
LEMMA BytesAreBytes ==
  ASSUME NEW op, NEW v, Written(op, v)
  PROVE  BytesOf(op, v) \in Seq(Byte)
<1>0. Width32 \in Widths /\ Width64 \in Widths
  BY DEF Widths
<1>1. CASE op = "fixed32" /\ v \in Values32
  <2>1. BytesOf(op, v) = EncodeFixed(v, Width32) /\ v \in 0 .. 2^Width32 - 1
    BY <1>1, CodingAssumption DEF BytesOf
  <2> QED
    BY <2>1, <1>0, FixedBytes
<1>2. CASE op = "varint32" /\ v \in Values32
  <2>1. BytesOf(op, v) = EncodeVarint32(v) /\ v \in 0 .. 2^Width32 - 1
    BY <1>2, CodingAssumption DEF BytesOf
  <2> QED
    BY <2>1, Varints32 DEF IsVarint
<1>3. CASE op = "fixed64" /\ v \in Values64
  <2>1. BytesOf(op, v) = EncodeFixed(v, Width64) /\ v \in 0 .. 2^Width64 - 1
    BY <1>3, CodingAssumption DEF BytesOf
  <2> QED
    BY <2>1, <1>0, FixedBytes
<1>4. CASE op = "varint64" /\ v \in Values64
  <2>1. BytesOf(op, v) = EncodeVarint64[v] /\ v \in 0 .. 2^Width64 - 1
    BY <1>4, CodingAssumption DEF BytesOf
  <2> QED
    BY <2>1, Varints64 DEF IsVarint
<1>5. CASE op = "string" /\ v \in Strings
  <2> DEFINE n == Len(v) % 2^Width32
  <2>1. BytesOf(op, v) = EncodeVarint32(n) \o v /\ v \in Seq(Byte)
    BY <1>5, CodingAssumption DEF BytesOf
  <2>2. 2^Width32 \in Nat \ {0} /\ Len(v) \in Nat
    BY <1>0, <2>1, WidthFacts
  <2>3. n \in 0 .. 2^Width32 - 1
    BY <2>2
  <2> HIDE DEF n
  <2>4. EncodeVarint32(n) \in Seq(Byte)
    BY <2>3, Varints32 DEF IsVarint
  <2> QED
    BY <2>1, <2>4
<1> QED
  BY <1>1, <1>2, <1>3, <1>4, <1>5 DEF Written

(* Nothing has been written or read at first. *)
LEMMA CodingInit == Init => CodingInv
<1> SUFFICES ASSUME Init PROVE CodingInv
  OBVIOUS
<1>1. dst \in Seq(Byte)
  BY CodingAssumption DEF Init
<1>2. PutsOK
  BY DEF Init, PutsOK
<1>3. CursorOK
  BY DEF Init, CursorOK
<1> QED
  BY <1>1, <1>2, <1>3 DEF CodingInv

(* A Put adds its bytes behind all others. *)
LEMMA PutKeeps ==
  ASSUME CodingInv, NEW op \in Ops, NEW v, Written(op, v), Put(op, v, BytesOf(op, v))
  PROVE  CodingInv'
<1> DEFINE s == BytesOf(op, v)
           rec == [op |-> op, value |-> v, begin |-> Len(dst), end |-> Len(dst')]
           R == [op : Ops, value : Values32 \cup Values64 \cup Strings,
                 begin : Nat, end : Nat]
<1>1. s \in Seq(Byte) /\ dst \in Seq(Byte) /\ puts \in Seq(R)
  BY BytesAreBytes DEF CodingInv, PutsOK
<1>2. /\ dst' = dst \o s /\ puts' = Append(puts, rec) /\ data = -1
      /\ UNCHANGED <<data, size, got>>
  BY DEF Put
<1> HIDE DEF s
<1>3. /\ dst' \in Seq(Byte) /\ Len(dst') = Len(dst) + Len(s) /\ Len(s) \in Nat /\ Len(dst) \in Nat
      /\ \A k \in 1 .. Len(dst) : dst'[k] = dst[k]
      /\ \A j \in 1 .. Len(s) : dst'[Len(dst) + j] = s[j]
  BY <1>1, <1>2
<1>4. rec \in R
  <2>1. v \in Values32 \cup Values64 \cup Strings
    BY DEF Written
  <2> QED
    BY <1>3, <2>1
<1>5. /\ rec.op = op /\ rec.value = v /\ rec.begin = Len(dst) /\ rec.end = Len(dst')
  OBVIOUS
<1> HIDE DEF rec, R
<1>6. /\ puts' \in Seq(R) /\ DOMAIN puts' = 1 .. Len(puts) + 1 /\ DOMAIN puts = 1 .. Len(puts)
      /\ Len(puts) \in Nat
      /\ \A i \in 1 .. Len(puts) : puts'[i] = puts[i]
      /\ puts'[Len(puts) + 1] = rec
  BY <1>1, <1>2, <1>4
<1>7. ASSUME NEW i \in DOMAIN puts', NEW p, p = puts'[i],
             NEW t, t = BytesOf(p.op, p.value)
      PROVE  /\ Written(p.op, p.value)
             /\ p.end = p.begin + Len(t) /\ p.end <= Len(dst')
             /\ \A j \in 1 .. Len(t) : dst'[p.begin + j] = t[j]
  <2>1. CASE i = Len(puts) + 1
    <3>1. p = rec /\ t = s
      BY <2>1, <1>5, <1>6, <1>7 DEF s
    <3> QED
      BY <3>1, <1>3, <1>5
  <2>2. CASE i \in DOMAIN puts
    <3>1. p = puts[i] /\ p \in R
      BY <2>2, <1>1, <1>6, <1>7
    <3>2. /\ Written(p.op, p.value)
          /\ p.end = p.begin + Len(t) /\ p.end <= Len(dst)
          /\ \A j \in 1 .. Len(t) : dst[p.begin + j] = t[j]
      BY <2>2, <3>1, <1>7 DEF CodingInv, PutsOK
    <3>3. p.begin \in Nat /\ p.end \in Nat
      BY <3>1 DEF R
    <3>4. t \in Seq(Byte) /\ Len(t) \in Nat
      BY <3>2, <1>7, BytesAreBytes
    <3>5. ASSUME NEW j \in 1 .. Len(t) PROVE dst'[p.begin + j] = t[j]
      <4>1. p.begin + j \in 1 .. Len(dst)
        BY <3>2, <3>3, <3>4, <1>3
      <4> QED
        BY <4>1, <3>2, <1>3
    <3>6. p.end <= Len(dst')
      BY <3>2, <3>3, <1>3
    <3> QED
      BY <3>2, <3>5, <3>6
  <2> QED
    BY <2>1, <2>2, <1>6
<1>8. PutsOK'
  <2>1. ASSUME NEW i \in DOMAIN puts'
        PROVE  LET p == puts'[i]
                   t == BytesOf(p.op, p.value)
               IN  /\ Written(p.op, p.value)
                   /\ p.end = p.begin + Len(t) /\ p.end <= Len(dst')
                   /\ \A j \in 1 .. Len(t) : dst'[p.begin + j] = t[j]
    BY <1>7, Zenon
  <2>2. puts' \in Seq([op : Ops, value : Values32 \cup Values64 \cup Strings,
                       begin : Nat, end : Nat])
    BY <1>6 DEF R
  <2> QED
    BY <2>1, <2>2, Zenon DEF PutsOK
<1>9. CursorOK'
  <2>1. data = -1 /\ size = 0 /\ got = Nothing
    BY <1>2 DEF CodingInv, CursorOK
  <2> QED
    BY <2>1, <1>2 DEF CursorOK
<1> QED
  BY <1>3, <1>8, <1>9 DEF CodingInv

(* The puts lie where they were as long as dst does not change. *)
LEMMA PutsStay ==
  ASSUME PutsOK, UNCHANGED <<dst, puts>>
  PROVE  PutsOK'
BY DEF PutsOK

(* A Slice of a part of dst. *)
LEMMA OpenKeeps ==
  ASSUME CodingInv, NEW from \in 0 .. Len(dst), NEW n \in 0 .. Len(dst) - from, Open(from, n)
  PROVE  CodingInv'
<1>1. dst' = dst /\ puts' = puts /\ data' = from /\ size' = n /\ data = -1 /\ got' = got
  BY DEF Open
<1>2. got = Nothing
  BY <1>1 DEF CodingInv, CursorOK
<1>3. Len(dst) \in Nat
  BY DEF CodingInv
<1>4. CursorOK'
  BY <1>1, <1>2, <1>3 DEF CursorOK, Limit
<1> QED
  BY <1>1, <1>4, PutsStay DEF CodingInv

(* What is left of the input. *)
LEMMA InputFacts ==
  ASSUME CodingInv, data # -1
  PROVE  /\ Input \in Seq(Byte) /\ Len(Input) = size
         /\ data \in Nat /\ size \in Nat /\ Limit \in Nat /\ Limit <= Len(dst)
         /\ Input = SubSeq(dst, data + 1, Limit)
         /\ \A j \in 1 .. size : Input[j] = dst[data + j]
<1>1. dst \in Seq(Byte) /\ data \in Nat /\ size \in Nat /\ data + size <= Len(dst)
  BY DEF CodingInv, CursorOK, Limit
<1> QED
  BY <1>1 DEF Input, Limit

(* A Get that returns what it should. *)
LEMMA GetKeeps ==
  ASSUME CodingInv, NEW op \in Ops, NEW r \in Outcomes, Get(op, r),
         IsResult(op, Input, r), r.used <= Len(Input)
  PROVE  /\ CodingInv'
         /\ data' = data + r.used /\ data <= data' /\ 0 <= size' /\ data' + size' = Limit
         /\ got'.op = op /\ got'.ok = r.ok
<1>1. /\ data # -1 /\ data' = data + r.used /\ size' = size - r.used
      /\ got' = [op |-> op, at |-> data, ok |-> r.ok, value |-> r.value]
      /\ dst' = dst /\ puts' = puts
  BY DEF Get
<1>2. /\ Len(Input) = size /\ data \in Nat /\ size \in Nat /\ Limit \in Nat /\ Limit <= Len(dst)
      /\ Input = SubSeq(dst, data + 1, Limit) /\ Limit = data + size
  BY <1>1, InputFacts DEF Limit
<1>3. r.used \in 0 .. size
  BY <1>2 DEF Outcomes
<1>4. got'.op = op /\ got'.at = data /\ got'.ok = r.ok /\ got'.value = r.value
  BY <1>1
<1>5. data' \in Nat /\ size' \in Nat /\ data' + size' = Limit /\ data <= data'
  <2>1. data' = data + r.used /\ size' = size - r.used /\ Limit = data + size
    BY <1>1, <1>2
  <2>2. data \in Nat /\ size \in Nat
    BY <1>2
  <2> QED
    BY <1>3, <2>1, <2>2
<1>6. Limit' = Limit
  BY <1>5 DEF Limit
<1>7. Received' = Input
  BY <1>1, <1>2, <1>4, <1>6 DEF Received
<1>8. CursorOK'
  <2>1. got.at' \in 0 .. Limit'
    BY <1>2, <1>4, <1>6
  <2>2. IsResult(got.op, Received, r)'
    BY <1>4, <1>7 DEF IsResult, FixedResult, FixedLen
  <2>3. data' = got.at' + r.used /\ got.ok' = r.ok /\ got.value' = r.value
    BY <1>1, <1>4
  <2>4. Limit' <= Len(dst')
    BY <1>1, <1>2, <1>6
  <2> QED
    BY <1>5, <2>1, <2>2, <2>3, <2>4 DEF CursorOK
<1>9. PutsOK'
  BY <1>1, PutsStay DEF CodingInv
<1> QED
  BY <1>1, <1>4, <1>5, <1>8, <1>9 DEF CodingInv

Reads ==
  \/ GetVarint32 \/ GetVarint64
  \/ GetLengthPrefixedSlice \/ GetLengthPrefixedSlicePtr
  \/ GetFixed("fixed32", Width32) \/ GetFixed("fixed64", Width64)

(* An integer of fixed width whose bytes are there. *)
LEMMA FixedIsContained ==
  ASSUME NEW w \in Widths, NEW p \in Seq(Byte), FixedLen(w) <= Len(p)
  PROVE  FixedResult(p, w) \in Outcomes /\ FixedResult(p, w).used = FixedLen(w)
<1> DEFINE b == 2 * B
           n == FixedLen(w)
<1>1. PowersUpTo(b, n) /\ n \in Nat /\ Byte \subseteq Nat
  BY WidthFacts DEF FixedLen, Byte
<1>2. DecodeFixed(p, w) = Joined(p, n, b)
  BY DEF DecodeFixed, FixedLen
<1> HIDE DEF n, b
<1>3. n \in 0 .. n + 1 /\ n \in 0 .. n
  BY <1>1
<1>4. n <= Len(p)
  BY DEF n
<1>5. ASSUME NEW j \in 1 .. n PROVE p[j] \in Nat
  <2>1. p[j] \in Byte
    BY <1>1, <1>4
  <2> QED
    BY <1>1, <2>1
<1>6. DecodeFixed(p, w) \in Nat
  BY <1>1, <1>2, <1>3, <1>5, JoinedSteps
<1>7. FixedLen(w) \in Nat
  BY <1>1 DEF n
<1> QED
  BY <1>6, <1>7 DEF FixedResult, Outcomes

(* Every Get returns what its bytes give, and uses no more of them. *)
LEMMA ReadsReturn ==
  ASSUME CodingInv, Reads
  PROVE  \E op \in Ops, r \in Outcomes :
           /\ Get(op, r) /\ IsResult(op, Input, r) /\ r.used <= Len(Input)
           /\ ~r.ok /\ r.used # 0 =>
                /\ op = "string"
                /\ GetVarint32Ptr(Input).ok /\ GetVarint32Ptr(Input).used = r.used
                /\ GetVarint32Ptr(Input).value > Len(Input) - r.used
<1>0. Width32 \in Widths /\ Width64 \in Widths
  BY DEF Widths
<1>1. data # -1
  BY DEF Reads, GetVarint32, GetVarint64, GetLengthPrefixedSlice, GetLengthPrefixedSlicePtr,
         GetFixed, Get
<1>2. Input \in Seq(Byte) /\ Len(Input) = size
  BY <1>1, InputFacts
<1>3. Failure.used = 0
  BY DEF Failure
<1>4. CASE GetVarint32
  <2> DEFINE r == GetVarint32Ptr(Input)
  <2>1. r \in Outcomes /\ r.used <= Len(Input) /\ (~r.ok => r = Failure)
    BY <1>0, <1>2, FastPathIsLoop, LoopIsContained
  <2>2. Get("varint32", r) /\ IsResult("varint32", Input, r) /\ "varint32" \in Ops
    BY <1>4 DEF GetVarint32, IsResult, Ops
  <2>3. r.used # 0 => r.ok
    BY <1>3, <2>1
  <2> HIDE DEF r
  <2> QED
    BY <2>1, <2>2, <2>3
<1>5. CASE GetVarint64
  <2> DEFINE r == GetVarint64Ptr(Input)
  <2>1. r \in Outcomes /\ r.used <= Len(Input) /\ (~r.ok => r = Failure)
    BY <1>0, <1>2, LoopIsContained DEF GetVarint64Ptr
  <2>2. Get("varint64", r) /\ IsResult("varint64", Input, r) /\ "varint64" \in Ops
    BY <1>5 DEF GetVarint64, IsResult, Ops
  <2>3. r.used # 0 => r.ok
    BY <1>3, <2>1
  <2> HIDE DEF r
  <2> QED
    BY <2>1, <2>2, <2>3
<1>6. CASE GetLengthPrefixedSlice \/ GetLengthPrefixedSlicePtr
  <2>1. PICK r \in {GetPrefixed(Input), GetPrefixedPtr(Input)} : Get("string", r)
    BY <1>6 DEF GetLengthPrefixedSlice, GetLengthPrefixedSlicePtr
  <2>2. IsResult("string", Input, r) /\ "string" \in Ops
    BY DEF IsResult, Ops
  <2>3. /\ r \in Outcomes /\ r.used <= Len(Input)
        /\ ~r.ok /\ r.used # 0 =>
             /\ GetVarint32Ptr(Input).ok /\ GetVarint32Ptr(Input).used = r.used
             /\ GetVarint32Ptr(Input).value > Len(Input) - r.used
    BY <1>2, PrefixedIsContained
  <2> QED
    BY <2>1, <2>2, <2>3
<1>7. CASE GetFixed("fixed32", Width32)
  <2> DEFINE r == FixedResult(Input, Width32)
  <2>1. Get("fixed32", r) /\ size >= FixedLen(Width32)
    BY <1>7 DEF GetFixed, FixedResult, FixedLen
  <2>2. FixedLen(Width32) <= Len(Input)
    BY <1>0, <1>1, <1>2, <2>1, WidthFacts, InputFacts DEF FixedLen
  <2>3. r \in Outcomes /\ r.used <= Len(Input) /\ r.ok
    BY <1>0, <1>2, <2>2, FixedIsContained DEF FixedResult
  <2>4. IsResult("fixed32", Input, r) /\ "fixed32" \in Ops
    BY <2>2 DEF IsResult, Ops
  <2> HIDE DEF r
  <2> QED
    BY <2>1, <2>3, <2>4
<1>8. CASE GetFixed("fixed64", Width64)
  <2> DEFINE r == FixedResult(Input, Width64)
  <2>1. Get("fixed64", r) /\ size >= FixedLen(Width64)
    BY <1>8 DEF GetFixed, FixedResult, FixedLen
  <2>2. FixedLen(Width64) <= Len(Input)
    BY <1>0, <1>1, <1>2, <2>1, WidthFacts, InputFacts DEF FixedLen
  <2>3. r \in Outcomes /\ r.used <= Len(Input) /\ r.ok
    BY <1>0, <1>2, <2>2, FixedIsContained DEF FixedResult
  <2>4. IsResult("fixed64", Input, r) /\ "fixed64" \in Ops
    BY <2>2 DEF IsResult, Ops
  <2> HIDE DEF r
  <2> QED
    BY <2>1, <2>3, <2>4
<1> QED
  BY <1>4, <1>5, <1>6, <1>7, <1>8 DEF Reads

(* The invariant is inductive. *)
LEMMA CodingStep == CodingInv /\ [Next]_vars => CodingInv'
<1> SUFFICES ASSUME CodingInv, [Next]_vars PROVE CodingInv'
  OBVIOUS
<1>1. CASE UNCHANGED vars
  <2>1. dst' = dst /\ puts' = puts /\ data' = data /\ size' = size /\ got' = got
    BY <1>1 DEF vars
  <2>2. CursorOK'
    BY <2>1 DEF CodingInv, CursorOK, Received, Limit, IsResult, FixedResult, FixedLen
  <2> QED
    BY <2>1, <2>2, PutsStay DEF CodingInv
<1>2. ASSUME NEW v \in Values32, PutFixed32(v) \/ PutVarint32(v) PROVE CodingInv'
  <2>1. PICK op \in {"fixed32", "varint32"} : Put(op, v, BytesOf(op, v))
    BY <1>2 DEF PutFixed32, PutVarint32, BytesOf
  <2>2. Written(op, v) /\ op \in Ops
    BY DEF Written, Ops
  <2> QED
    BY <2>1, <2>2, PutKeeps
<1>3. ASSUME NEW v \in Values64, PutFixed64(v) \/ PutVarint64(v) PROVE CodingInv'
  <2>1. PICK op \in {"fixed64", "varint64"} : Put(op, v, BytesOf(op, v))
    BY <1>3 DEF PutFixed64, PutVarint64, BytesOf
  <2>2. Written(op, v) /\ op \in Ops
    BY DEF Written, Ops
  <2> QED
    BY <2>1, <2>2, PutKeeps
<1>4. ASSUME NEW s \in Strings, PutLengthPrefixedSlice(s) PROVE CodingInv'
  <2>1. Put("string", s, BytesOf("string", s)) /\ Written("string", s)
    BY <1>4 DEF PutLengthPrefixedSlice, BytesOf, Written
  <2>2. "string" \in Ops
    BY DEF Ops
  <2> QED
    BY <2>1, <2>2, PutKeeps
<1>5. ASSUME NEW from \in 0 .. Len(dst), NEW n \in 0 .. Len(dst) - from, Open(from, n)
      PROVE  CodingInv'
  BY <1>5, OpenKeeps
<1>6. CASE Reads
  <2>1. PICK op \in Ops, r \in Outcomes :
          Get(op, r) /\ IsResult(op, Input, r) /\ r.used <= Len(Input)
    BY <1>6, ReadsReturn
  <2> QED
    BY <2>1, GetKeeps
<1> QED
  BY <1>1, <1>2, <1>3, <1>4, <1>5, <1>6 DEF Next, Reads

(* The inductive invariant holds in every state. *)
THEOREM CodingInvariance == Spec => []CodingInv
BY CodingInit, CodingStep, PTL DEF Spec

(* A Get stays in its input, and one that fails leaves it as it was, but   *)
(* for the length of a string that has not arrived.                        *)
LEMMA ReadsAreContained ==
  ASSUME CodingInv, Reads
  PROVE  /\ data <= data' /\ 0 <= size' /\ data' + size' = Limit
         /\ ~got'.ok /\ data # data' =>
              LET length == GetVarint32Ptr(SubSeq(dst, data + 1, data'))
              IN  /\ got'.op = "string"
                  /\ length.ok /\ length.used = data' - data
                  /\ length.value > size'
<1>1. PICK op \in Ops, r \in Outcomes :
        /\ Get(op, r) /\ IsResult(op, Input, r) /\ r.used <= Len(Input)
        /\ ~r.ok /\ r.used # 0 =>
             /\ op = "string"
             /\ GetVarint32Ptr(Input).ok /\ GetVarint32Ptr(Input).used = r.used
             /\ GetVarint32Ptr(Input).value > Len(Input) - r.used
  BY ReadsReturn
<1>2. /\ data' = data + r.used /\ data <= data' /\ 0 <= size' /\ data' + size' = Limit
      /\ got'.op = op /\ got'.ok = r.ok
  BY <1>1, GetKeeps
<1>3. data # -1 /\ size' = size - r.used
  BY <1>1 DEF Get
<1>4. /\ Input \in Seq(Byte) /\ Len(Input) = size /\ data \in Nat /\ size \in Nat
      /\ Limit <= Len(dst) /\ Limit = data + size
      /\ \A j \in 1 .. size : Input[j] = dst[data + j]
      /\ dst \in Seq(Byte)
  BY <1>3, InputFacts DEF Limit, CodingInv
<1> DEFINE u == r.used
           q == SubSeq(dst, data + 1, data')
           len == GetVarint32Ptr(Input)
<1>5. u \in 0 .. size
  BY <1>1, <1>4 DEF Outcomes
<1>6. ASSUME ~got'.ok, data # data'
      PROVE  /\ got'.op = "string"
             /\ GetVarint32Ptr(q).ok /\ GetVarint32Ptr(q).used = data' - data
             /\ GetVarint32Ptr(q).value > size'
  <2>1. ~r.ok /\ u # 0
    BY <1>2, <1>4, <1>5, <1>6
  <2>2. op = "string" /\ len.ok /\ len.used = u /\ len.value > size - u
    BY <1>1, <1>4, <2>1
  <2>3. q \in Seq(Byte) /\ Len(q) = u /\ \A j \in 1 .. u : q[j] = Input[j]
    <3>1. data' = data + u
      BY <1>2
    <3> HIDE DEF u
    <3>2. data + 1 \in 1 .. Len(dst) + 1 /\ data + u <= Len(dst) /\ data \in Nat /\ u \in Nat
      BY <1>4, <1>5
    <3>3. q = SubSeq(dst, data + 1, data + u)
      BY <3>1
    <3> HIDE DEF q
    <3>4. q \in Seq(Byte) /\ Len(q) = u /\ \A j \in 1 .. u : q[j] = dst[data + j]
      <4>1. dst \in Seq(Byte) /\ data \in Nat /\ u \in Nat /\ data + u <= Len(dst)
        BY <1>4, <3>2
      <4> QED
        BY <4>1, <3>3, PartOfSequence
    <3>5. \A j \in 1 .. u : j \in 1 .. size
      BY <1>4, <1>5
    <3> QED
      BY <1>4, <3>4, <3>5
  <2> HIDE DEF u, q, len
  <2>4. Width32 \in Widths
    BY DEF Widths
  <2>5. GetVarintLoop(q, Width32) = len
    <3>1. len = GetVarintLoop(Input, Width32)
      BY <1>4, FastPathIsLoop DEF len
    <3>2. Len(q) = len.used /\ \A j \in 1 .. len.used : q[j] = Input[j]
      BY <2>2, <2>3
    <3>3. len.ok => \A s \in Seq(Byte) :
            Len(s) = len.used /\ (\A j \in 1 .. len.used : s[j] = Input[j]) =>
              GetVarintLoop(s, Width32) = len
      BY <1>4, <2>4, <3>1, LoopIsContained
    <3> QED
      BY <2>2, <2>3, <3>2, <3>3
  <2>6. GetVarint32Ptr(q) = len
    BY <2>3, <2>5, FastPathIsLoop
  <2>7. data' - data = u /\ size' = size - u
    BY <1>2, <1>3, <1>4, <1>5 DEF u
  <2> QED
    BY <1>2, <2>2, <2>6, <2>7
<1> QED
  BY <1>2, <1>6

(* Every Get stays in its input.                                           *)
THEOREM GetsStayInside == Spec => GetsContained
<1>1. CodingInv /\ [Next]_vars =>
        [data # -1 =>
           /\ data <= data' /\ 0 <= size' /\ data' + size' = Limit
           /\ ~got'.ok /\ data # data' =>
                LET length == GetVarint32Ptr(SubSeq(dst, data + 1, data'))
                IN  /\ got'.op = "string"
                    /\ length.ok /\ length.used = data' - data
                    /\ length.value > size']_vars
  <2> SUFFICES ASSUME CodingInv, Next, data # -1
               PROVE  /\ data <= data' /\ 0 <= size' /\ data' + size' = Limit
                      /\ ~got'.ok /\ data # data' =>
                           LET length == GetVarint32Ptr(SubSeq(dst, data + 1, data'))
                           IN  /\ got'.op = "string"
                               /\ length.ok /\ length.used = data' - data
                               /\ length.value > size'
    OBVIOUS
  <2>1. Reads
    BY DEF Next, Reads, PutFixed32, PutFixed64, PutVarint32, PutVarint64, PutLengthPrefixedSlice,
           Put, Open
  <2> QED
    BY <2>1, ReadsAreContained
<1> QED
  BY <1>1, CodingInvariance, PTL DEF Spec, GetsContained

-----------------------------------------------------------------------------
(* What is read of what was written. *)

(* The bytes of a value that a Get finds where it begins. *)
LEMMA BytesArrive ==
  ASSUME CodingInv, NEW i \in DOMAIN puts, NEW p, p = puts[i], got.at = p.begin,
         NEW s, s = BytesOf(p.op, p.value)
  PROVE  /\ Written(p.op, p.value) /\ s \in Seq(Byte) /\ Received \in Seq(Byte)
         /\ p.end <= Limit <=> Len(s) <= Len(Received)
         /\ \A j \in 1 .. Len(s) : j <= Len(Received) => Received[j] = s[j]
         /\ \E r \in Outcomes :
              /\ IsResult(got.op, Received, r) /\ got.ok = r.ok /\ got.value = r.value
              /\ r.used = Len(s) => data = p.end
<1>1. /\ Written(p.op, p.value) /\ p.end = p.begin + Len(s)
      /\ \A j \in 1 .. Len(s) : dst[p.begin + j] = s[j]
  BY DEF CodingInv, PutsOK
<1>2. p.begin \in Nat
  <2> DEFINE R == [op : Ops, value : Values32 \cup Values64 \cup Strings,
                    begin : Nat, end : Nat]
  <2>1. puts \in Seq(R)
    BY DEF CodingInv, PutsOK
  <2> HIDE DEF R
  <2>2. p \in R
    BY <2>1
  <2>3. p \in [op : Ops, value : Values32 \cup Values64 \cup Strings, begin : Nat, end : Nat]
    BY <2>2 DEF R
  <2> QED
    BY <2>3
<1>3. s \in Seq(Byte) /\ Len(s) \in Nat
  BY <1>1, BytesAreBytes
<1>4. got # Nothing
  BY <1>2 DEF Nothing
<1>5. /\ Limit \in Nat /\ Limit <= Len(dst) /\ got.at \in 0 .. Limit /\ dst \in Seq(Byte)
      /\ \E r \in Outcomes :
           /\ IsResult(got.op, Received, r) /\ got.ok = r.ok /\ got.value = r.value
           /\ data = got.at + r.used
  BY <1>4 DEF CodingInv, CursorOK, Limit
<1> DEFINE a == got.at
           n == Limit - a
<1>6. a \in Nat /\ n \in Nat /\ a + n = Limit
  BY <1>5
<1> HIDE DEF a, n
<1>7. Received = SubSeq(dst, a + 1, a + n)
  BY <1>6 DEF Received, a
<1>8. Received \in Seq(Byte) /\ Len(Received) = n /\ \A j \in 1 .. n : Received[j] = dst[a + j]
  <2>1. dst \in Seq(Byte) /\ a \in Nat /\ n \in Nat /\ a + n <= Len(dst)
    BY <1>5, <1>6
  <2> QED
    BY <1>7, <2>1, PartOfSequence
<1>9. p.begin = a
  BY DEF a
<1>10. p.end <= Limit <=> Len(s) <= Len(Received)
  BY <1>1, <1>3, <1>6, <1>8, <1>9
<1>11. ASSUME NEW j \in 1 .. Len(s), j <= Len(Received) PROVE Received[j] = s[j]
  <2>1. j \in 1 .. n
    BY <1>3, <1>6, <1>8, <1>11
  <2> QED
    BY <1>1, <1>8, <1>9, <2>1
<1>12. \E r \in Outcomes :
         /\ IsResult(got.op, Received, r) /\ got.ok = r.ok /\ got.value = r.value
         /\ r.used = Len(s) => data = p.end
  BY <1>1, <1>5
<1> QED
  BY <1>1, <1>3, <1>8, <1>10, <1>11, <1>12

(* A varint read by a reader of any width. *)
LEMMA VarintIsRead ==
  ASSUME NEW op \in {"varint32", "varint64"}, NEW v, Written(op, v),
         NEW s, s = BytesOf(op, v), NEW w \in Widths,
         NEW p \in Seq(Byte), \A j \in 1 .. Len(s) : j <= Len(p) => p[j] = s[j],
         NEW r, r = GetVarintLoop(p, w)
  PROVE  /\ r.ok <=> VarintLength[v] <= Groups(w) /\ Len(s) <= Len(p)
         /\ r.ok => r.value = v % 2^w /\ r.used = Len(s)
<1>1. PICK x \in Widths : \E n \in 1 .. Groups(x) : IsVarint(s, v, n) /\ VarintLength[v] = n
  <2>1. CASE op = "varint32"
    <3>1. s = EncodeVarint32(v) /\ v \in Values32
      BY <2>1 DEF BytesOf, Written
    <3>2. v \in 0 .. 2^Width32 - 1 /\ Width32 \in Widths
      BY <3>1, CodingAssumption DEF Widths
    <3>3. \E n \in 1 .. Groups(Width32) : IsVarint(s, v, n) /\ VarintLength[v] = n
      BY <3>1, <3>2, Varints32
    <3> QED
      BY <3>2, <3>3
  <2>2. CASE op = "varint64"
    <3>1. s = EncodeVarint64[v] /\ v \in Values64
      BY <2>2 DEF BytesOf, Written
    <3>2. v \in 0 .. 2^Width64 - 1 /\ Width64 \in Widths
      BY <3>1, CodingAssumption DEF Widths
    <3>3. \E n \in 1 .. Groups(Width64) : IsVarint(s, v, n) /\ VarintLength[v] = n
      BY <3>1, <3>2, Varints64
    <3> QED
      BY <3>2, <3>3
  <2> QED
    BY <2>1, <2>2
<1>2. PICK n \in 1 .. Groups(x) : IsVarint(s, v, n) /\ VarintLength[v] = n
  BY <1>1
<1>3. v \in Nat
  <2>1. v \in 0 .. 2^Width32 - 1 \/ v \in 0 .. 2^Width64 - 1
    BY CodingAssumption DEF Written
  <2>2. 2^Width32 \in Nat /\ 2^Width64 \in Nat
    BY WidthFacts DEF Widths
  <2> QED
    BY <2>1, <2>2
<1>4. Len(s) = n
  BY <1>2 DEF IsVarint
<1>5. r = IF n <= Groups(w) /\ n <= Len(p)
          THEN [ok |-> TRUE, value |-> v % 2^w, used |-> n] ELSE Failure
  BY <1>2, <1>3, <1>4, VarintDecodes
<1>6. ~Failure.ok
  BY DEF Failure
<1> QED
  BY <1>2, <1>4, <1>5, <1>6

(* A string behind its length. *)
LEMMA StringIsRead ==
  ASSUME NEW v \in Strings, NEW s, s = BytesOf("string", v),
         NEW p \in Seq(Byte), \A j \in 1 .. Len(s) : j <= Len(p) => p[j] = s[j],
         NEW r, r \in {GetPrefixed(p), GetPrefixedPtr(p)}
  PROVE  /\ r.ok <=> Len(s) <= Len(p)
         /\ r.ok => r.value = v /\ r.used = Len(s)
<1> DEFINE n == Len(v)
           t == EncodeVarint32(n)
           len == GetVarint32Ptr(p)
<1>0. Width32 \in Widths
  BY DEF Widths
<1>1. /\ v \in Seq(Byte) /\ n \in Nat /\ Len(p) \in Nat
      /\ n < 2^Width32 /\ 2^Width32 \in Nat
  BY <1>0, WidthFacts, CodingAssumption, StringsAssumption
<1>2. n \in 0 .. 2^Width32 - 1 /\ n % 2^Width32 = n
  BY <1>1, DivSmall
<1>3. s = t \o v
  <2>1. BytesOf("string", v) = EncodeVarint32(n % 2^Width32) \o v
    BY DEF BytesOf
  <2> QED
    BY <1>2, <2>1
<1> HIDE DEF n
<1>4. PICK g \in 1 .. Groups(Width32) : IsVarint(t, n, g)
  BY <1>2, Varints32
<1>5. t \in Seq(Byte) /\ Len(t) = g /\ g \in Nat
  BY <1>4 DEF IsVarint
<1> HIDE DEF t
<1>6. /\ Len(s) = g + n
      /\ \A j \in 1 .. g : s[j] = t[j] /\ j \in 1 .. Len(s)
      /\ \A j \in 1 .. n : s[g + j] = v[j] /\ g + j \in 1 .. Len(s)
  <2>1. Len(v) = n /\ Len(t) = g /\ v \in Seq(Byte) /\ t \in Seq(Byte)
    BY <1>1, <1>5 DEF n
  <2>2. Len(s) = g + n /\ \A i \in 1 .. g + n : s[i] = IF i <= g THEN t[i] ELSE v[i - g]
    BY <1>3, <2>1, ConcatProperties
  <2>3. \A j \in 1 .. g : s[j] = t[j] /\ j \in 1 .. Len(s)
    BY <1>1, <1>5, <2>2
  <2>4. ASSUME NEW j \in 1 .. n PROVE s[g + j] = v[j] /\ g + j \in 1 .. Len(s)
    <3>1. (g + j) - g = j /\ g + j \in 1 .. g + n /\ ~(g + j <= g)
      BY <1>1, <1>5
    <3> QED
      BY <2>2, <3>1
  <2> QED
    BY <2>2, <2>3, <2>4
<1>7. \A j \in 1 .. g : j <= Len(p) => p[j] = t[j]
  BY <1>6
<1>8. len = IF g <= Len(p) THEN [ok |-> TRUE, value |-> n, used |-> g] ELSE Failure
  <2>1. len = GetVarintLoop(p, Width32)
    BY FastPathIsLoop
  <2>2. g <= Groups(Width32)
    BY <1>4
  <2> QED
    BY <1>0, <1>1, <1>2, <1>4, <1>7, <2>1, <2>2, VarintDecodes
<1>9. GetPrefixed(p) =
        IF ~len.ok THEN Failure
        ELSE IF Len(p) - len.used >= len.value
        THEN [ok |-> TRUE, value |-> SubSeq(p, len.used + 1, len.used + len.value),
              used |-> len.used + len.value]
        ELSE [Failure EXCEPT !.used = len.used]
  BY DEF GetPrefixed
<1>10. GetPrefixedPtr(p) = IF GetPrefixed(p).ok THEN GetPrefixed(p) ELSE Failure
  BY DEF GetPrefixedPtr
<1>11. ~Failure.ok /\ \A u : ~[Failure EXCEPT !.used = u].ok
  BY DEF Failure
<1> HIDE DEF len
<1>12. CASE Len(s) <= Len(p)
  <2>1. g <= Len(p) /\ g + n <= Len(p) /\ Len(p) - g >= n
    BY <1>1, <1>5, <1>6, <1>12
  <2>2. len.ok /\ len.value = n /\ len.used = g
    BY <1>8, <2>1
  <2>3. GetPrefixed(p) = [ok |-> TRUE, value |-> SubSeq(p, g + 1, g + n), used |-> g + n]
    BY <1>9, <2>1, <2>2
  <2>4. SubSeq(p, g + 1, g + n) = v
    <3> DEFINE q == SubSeq(p, g + 1, g + n)
    <3>1. q \in Seq(Byte) /\ Len(q) = n /\ \A j \in 1 .. n : q[j] = p[g + j]
      <4>1. p \in Seq(Byte) /\ g \in Nat /\ n \in Nat /\ g + n <= Len(p)
        BY <1>1, <1>5, <2>1
      <4> QED
        BY <4>1, PartOfSequence
    <3> HIDE DEF q
    <3>2. ASSUME NEW j \in 1 .. n PROVE q[j] = v[j]
      <4>1. g + j \in 1 .. Len(s) /\ s[g + j] = v[j]
        BY <1>6
      <4>2. g + j <= Len(p)
        BY <1>1, <1>5, <2>1
      <4>3. p[g + j] = s[g + j]
        BY <4>1, <4>2
      <4> QED
        BY <3>1, <4>1, <4>3
    <3>3. q = v
      BY <1>1, <3>1, <3>2, SeqEqual DEF n
    <3> QED
      BY <3>3 DEF q
  <2>5. r = [ok |-> TRUE, value |-> v, used |-> g + n]
    <3>1. GetPrefixed(p).ok
      BY <2>3
    <3>2. r = GetPrefixed(p)
      BY <1>10, <3>1
    <3> QED
      BY <2>3, <2>4, <3>2
  <2> QED
    BY <1>6, <1>12, <2>5
<1>13. CASE ~(Len(s) <= Len(p))
  <2>1. ~GetPrefixed(p).ok
    <3>1. CASE g <= Len(p)
      <4>1. len.ok /\ len.value = n /\ len.used = g
        BY <1>8, <3>1
      <4>2. ~(Len(p) - g >= n)
        BY <1>1, <1>5, <1>6, <1>13
      <4> QED
        BY <1>9, <1>11, <4>1, <4>2
    <3>2. CASE ~(g <= Len(p))
      BY <1>8, <1>9, <1>11, <3>2
    <3> QED
      BY <3>1, <3>2
  <2> QED
    BY <1>10, <1>11, <1>13, <2>1
<1> QED
  BY <1>12, <1>13

(* A reader of the writer's kind gets the value if it is all there. *)
LEMMA ValueIsRead ==
  ASSUME NEW op, NEW v, Written(op, v), NEW s, s = BytesOf(op, v),
         NEW p \in Seq(Byte), \A j \in 1 .. Len(s) : j <= Len(p) => p[j] = s[j],
         NEW r, IsResult(op, p, r)
  PROVE  /\ r.ok <=> Len(s) <= Len(p)
         /\ r.ok => r.value = v /\ r.used = Len(s)
<1>0. Width32 \in Widths /\ Width64 \in Widths
  BY DEF Widths
<1>1. ASSUME NEW w \in Widths, NEW k, op = k, k \in {"varint32", "varint64"},
             r = GetVarintLoop(p, w), v \in 0 .. 2^w - 1
      PROVE  /\ r.ok <=> Len(s) <= Len(p)
             /\ r.ok => r.value = v /\ r.used = Len(s)
  <2>1. VarintLength[v] <= Groups(w)
    <3>1. PICK n \in 1 .. Groups(w) : Fits(v, n)
      BY <1>1, NumbersFit
    <3>2. v \in Nat
      BY <1>1, WidthFacts
    <3>3. VarintLength[v] = n
      BY <3>1, <3>2, LoopsMakeVarints
    <3> QED
      BY <3>3
  <2>2. v % 2^w = v
    <3>1. v \in Nat /\ 2^w \in Nat /\ v < 2^w
      BY <1>1, WidthFacts
    <3> QED
      BY <3>1, DivSmall
  <2>3. /\ r.ok <=> VarintLength[v] <= Groups(w) /\ Len(s) <= Len(p)
        /\ r.ok => r.value = v % 2^w /\ r.used = Len(s)
    BY <1>1, VarintIsRead
  <2> QED
    BY <2>1, <2>2, <2>3
<1>2. ASSUME NEW w \in Widths, s = EncodeFixed(v, w), v \in 0 .. 2^w - 1,
             FixedLen(w) <= Len(p), r = FixedResult(p, w)
      PROVE  r.ok /\ Len(s) <= Len(p) /\ r.value = v /\ r.used = Len(s)
  <2>1. Len(s) = FixedLen(w) /\ FixedLen(w) \in Nat
    BY <1>2, FixedBytes, WidthFacts DEF FixedLen
  <2>2. \A j \in 1 .. w \div (GroupBits + 1) : p[j] = EncodeFixed(v, w)[j]
    <3>1. \A j \in 1 .. FixedLen(w) : p[j] = s[j]
      BY <1>2, <2>1
    <3> QED
      BY <1>2, <3>1 DEF FixedLen
  <2>3. DecodeFixed(p, w) = v
    BY <1>2, <2>2, FixedReadBack
  <2> QED
    BY <1>2, <2>1, <2>3 DEF FixedResult
<1>3. CASE op = "varint32"
  <2>1. v \in 0 .. 2^Width32 - 1
    BY <1>3, CodingAssumption DEF Written
  <2>2. r = GetVarintLoop(p, Width32)
    BY <1>3, FastPathIsLoop DEF IsResult
  <2> QED
    BY <1>0, <1>1, <1>3, <2>1, <2>2
<1>4. CASE op = "varint64"
  <2>1. v \in 0 .. 2^Width64 - 1
    BY <1>4, CodingAssumption DEF Written
  <2>2. r = GetVarintLoop(p, Width64)
    BY <1>4 DEF IsResult, GetVarint64Ptr
  <2> QED
    BY <1>0, <1>1, <1>4, <2>1, <2>2
<1>5. CASE op = "fixed32"
  <2>1. v \in 0 .. 2^Width32 - 1
    BY <1>5, CodingAssumption DEF Written
  <2>2. s = EncodeFixed(v, Width32)
    BY <1>5 DEF BytesOf
  <2>3. FixedLen(Width32) <= Len(p) /\ r = FixedResult(p, Width32)
    BY <1>5 DEF IsResult
  <2> QED
    BY <1>0, <1>2, <2>1, <2>2, <2>3
<1>6. CASE op = "fixed64"
  <2>1. v \in 0 .. 2^Width64 - 1
    BY <1>6, CodingAssumption DEF Written
  <2>2. s = EncodeFixed(v, Width64)
    BY <1>6 DEF BytesOf
  <2>3. FixedLen(Width64) <= Len(p) /\ r = FixedResult(p, Width64)
    BY <1>6 DEF IsResult
  <2> QED
    BY <1>0, <1>2, <2>1, <2>2, <2>3
<1>7. CASE op = "string"
  <2>1. v \in Strings
    BY <1>7 DEF Written
  <2>2. r \in {GetPrefixed(p), GetPrefixedPtr(p)}
    BY <1>7 DEF IsResult
  <2>3. s = BytesOf("string", v)
    BY <1>7
  <2> QED
    BY <2>1, <2>2, <2>3, StringIsRead
<1> QED
  BY <1>3, <1>4, <1>5, <1>6, <1>7 DEF Written

(* A Get that starts where a value of its kind was put returns it and      *)
(* moves past it, if and only if all its bytes have arrived.               *)
THEOREM ReadBackHolds == Spec => []ReadBack
<1>1. CodingInv => ReadBack
  <2> SUFFICES ASSUME CodingInv, NEW i \in DOMAIN puts, NEW p, p = puts[i],
                      got.at = p.begin, got.op = p.op
               PROVE  /\ got.ok <=> p.end <= Limit
                      /\ got.ok => got.value = p.value /\ data = p.end
    BY DEF ReadBack
  <2> DEFINE s == BytesOf(p.op, p.value)
  <2>1. /\ Written(p.op, p.value) /\ s \in Seq(Byte) /\ Received \in Seq(Byte)
        /\ p.end <= Limit <=> Len(s) <= Len(Received)
        /\ \A j \in 1 .. Len(s) : j <= Len(Received) => Received[j] = s[j]
        /\ \E r \in Outcomes :
             /\ IsResult(got.op, Received, r) /\ got.ok = r.ok /\ got.value = r.value
             /\ r.used = Len(s) => data = p.end
    BY BytesArrive
  <2>2. PICK r \in Outcomes :
          /\ IsResult(p.op, Received, r) /\ got.ok = r.ok /\ got.value = r.value
          /\ r.used = Len(s) => data = p.end
    BY <2>1
  <2>3. /\ r.ok <=> Len(s) <= Len(Received)
        /\ r.ok => r.value = p.value /\ r.used = Len(s)
    BY <2>1, <2>2, ValueIsRead
  <2> QED
    BY <2>1, <2>2, <2>3
<1> QED
  BY <1>1, CodingInvariance, PTL

(* A varint written for one width and read for the other: refused if it is *)
(* longer than the reader's longest, cut to the reader's width otherwise.  *)
THEOREM WidthsMixHolds == Spec => []WidthsMix
<1>0. Width32 \in Widths /\ Width64 \in Widths
  BY DEF Widths
<1>1. CodingInv => WidthsMix
  <2> SUFFICES ASSUME CodingInv, NEW i \in DOMAIN puts, NEW p, p = puts[i],
                      got.at = p.begin, {got.op, p.op} = {"varint32", "varint64"},
                      NEW w, w = IF got.op = "varint32" THEN Width32 ELSE Width64
               PROVE  /\ got.ok <=> VarintLength[p.value] <= Groups(w) /\ p.end <= Limit
                      /\ got.ok => got.value = p.value % 2^w /\ data = p.end
    BY Zenon DEF WidthsMix
  <2> DEFINE s == BytesOf(p.op, p.value)
  <2>1. /\ Written(p.op, p.value) /\ s \in Seq(Byte) /\ Received \in Seq(Byte)
        /\ p.end <= Limit <=> Len(s) <= Len(Received)
        /\ \A j \in 1 .. Len(s) : j <= Len(Received) => Received[j] = s[j]
        /\ \E r \in Outcomes :
             /\ IsResult(got.op, Received, r) /\ got.ok = r.ok /\ got.value = r.value
             /\ r.used = Len(s) => data = p.end
    BY BytesArrive
  <2>2. PICK r \in Outcomes :
          /\ IsResult(got.op, Received, r) /\ got.ok = r.ok /\ got.value = r.value
          /\ r.used = Len(s) => data = p.end
    BY <2>1
  <2>3. got.op \in {"varint32", "varint64"} /\ p.op \in {"varint32", "varint64"}
    OBVIOUS
  <2>4. w \in Widths /\ r = GetVarintLoop(Received, w)
    <3>1. CASE got.op = "varint32"
      BY <1>0, <2>1, <2>2, <3>1, FastPathIsLoop DEF IsResult
    <3>2. CASE got.op = "varint64"
      BY <1>0, <2>2, <3>2 DEF IsResult, GetVarint64Ptr
    <3> QED
      BY <2>3, <3>1, <3>2
  <2>5. /\ r.ok <=> VarintLength[p.value] <= Groups(w) /\ Len(s) <= Len(Received)
        /\ r.ok => r.value = p.value % 2^w /\ r.used = Len(s)
    BY <2>1, <2>3, <2>4, VarintIsRead
  <2> QED
    BY <2>1, <2>2, <2>5
<1> QED
  BY <1>1, CodingInvariance, PTL

-----------------------------------------------------------------------------
(* The generator of random numbers.                                        *)

(* The high part of the product is less than A, so that the sum needs at   *)
(* most one subtraction and fits into 32 bits; it leaves the same          *)
(* remainder as the product because M + 1 leaves 1.                        *)
LEMMA NextSeedIsRemainder ==
  ASSUME NEW s \in 1 .. M - 1
  PROVE  NextSeed(s) = (s * A) % M /\ NextSeed(s) \in 1 .. M - 1
<1> DEFINE p == s * A
           q == p \div (M + 1)
           r == p % (M + 1)
           z == p % M
<1>1. M \in Nat /\ M > 1 /\ A \in 1 .. M - 1 /\ z # 0
  BY RandomAssumption
<1>2. p \in Nat /\ p <= M * (M - 1)
  <2>1. PICK d \in Nat : s + 1 + d = M
    BY <1>1
  <2>2. PICK c \in Nat : A + 1 + c = M
    BY <1>1
  <2>3. s * A \in Nat /\ s * M = s * A + s + s * c /\ s * c \in Nat
    BY <2>2, <1>1
  <2>4. M * (M - 1) = (s * M) + d * M /\ d * M \in Nat
    BY <2>1, <1>1
  <2> QED
    BY <2>3, <2>4, <1>1
<1>3. q \in Nat /\ r \in 0 .. M /\ p = (M + 1) * q + r
  BY <1>1, <1>2
<1>4. z \in 1 .. M - 1 /\ p \div M \in Nat /\ p = M * (p \div M) + z
  BY <1>1, <1>2
<1> HIDE DEF p, q, r, z
<1>5. q <= M - 1
  <2>1. CASE q >= M
    <3>1. PICK d \in Nat : q = M + d
      BY <1>1, <1>3, <2>1
    <3>2. (M + 1) * q = M * M + M * d + M + d /\ M * d \in Nat /\ M * (M - 1) = M * M - M
      BY <3>1, <1>1
    <3>3. M * M \in Nat
      BY <1>1
    <3> QED
      BY <3>2, <3>3, <1>1, <1>2, <1>3
  <2> QED
    BY <1>1, <1>3, <2>1
<1>6. (q + r) % (2 * (M + 1)) = q + r
  BY <1>1, <1>3, <1>5, DivUnique
<1>7. p = M * q + (q + r) /\ M * q \in Nat
  BY <1>1, <1>3
<1>8. q + r # 0 /\ q + r # M
  <2>1. ASSUME q + r = 0 PROVE FALSE
    BY <2>1, <1>1, <1>2, <1>3, <1>4, <1>7, DivUnique DEF z
  <2>2. ASSUME q + r = M PROVE FALSE
    <3>1. p = M * (q + 1) + 0
      BY <2>2, <1>1, <1>3, <1>7
    <3> QED
      BY <3>1, <1>1, <1>2, <1>3, <1>4, DivUnique DEF z
  <2> QED
    BY <2>1, <2>2
<1>9. NextSeed(s) = IF q + r > M THEN q + r - M ELSE q + r
  <2>1. NextSeed(s) = IF ((q + r) % (2 * (M + 1))) > M
                      THEN ((q + r) % (2 * (M + 1))) - M
                      ELSE (q + r) % (2 * (M + 1))
    BY Zenon DEF NextSeed, p, q, r
  <2> QED
    BY <2>1, <1>1, <1>3, <1>6
<1>10. CASE q + r > M
  <2>1. q + r - M \in 1 .. M - 1
    BY <1>1, <1>3, <1>5, <1>10
  <2>2. p = M * (q + 1) + (q + r - M)
    BY <1>1, <1>3, <1>7
  <2>3. PICK n, k : n = q + r - M /\ k = q + 1
    OBVIOUS
  <2>4. n \in 0 .. M - 1 /\ p = M * k + n /\ M \in Nat \ {0} /\ p \in Nat /\ k \in Nat
    BY <2>1, <2>2, <2>3, <1>1, <1>2, <1>3
  <2>5. z = n
    BY <2>4, DivUnique, Zenon DEF z
  <2>6. z = q + r - M
    BY <2>3, <2>5
  <2> QED
    BY <2>1, <2>6, <1>9, <1>10 DEF p, z
<1>11. CASE ~(q + r > M)
  <2>1. q + r \in 1 .. M - 1
    BY <1>1, <1>3, <1>8, <1>11
  <2>2. PICK n : n = q + r
    OBVIOUS
  <2>3. n \in 0 .. M - 1 /\ p = M * q + n /\ M \in Nat \ {0} /\ p \in Nat /\ q \in Nat
    BY <2>1, <2>2, <1>1, <1>2, <1>3, <1>7
  <2>4. z = q + r
    BY <2>2, <2>3, DivUnique, Zenon DEF z
  <2> QED
    BY <2>1, <2>4, <1>9, <1>11 DEF p, z
<1> QED
  BY <1>10, <1>11

-----------------------------------------------------------------------------
(* The constructor yields a seed between 1 and M - 1. *)
LEMMA SeedsInit == RandomInit => seed \in Seeds
<1>1. ASSUME NEW x \in UInt32 PROVE Sanitised(x) \in Seeds
  <2>1. x % (M + 1) \in 0 .. M /\ M \in Nat /\ M > 1
    BY RandomAssumption DEF UInt32
  <2> QED
    BY <2>1 DEF Sanitised, Seeds
<1> QED
  BY <1>1 DEF RandomInit

(* Every call draws once, Skewed twice. *)
LEMMA Draws ==
  ASSUME seed \in Seeds, RandomNext
  PROVE  seed' = IF result'.call = "Skewed" THEN NextSeed(NextSeed(seed)) ELSE NextSeed(seed)
<1>1. CASE Next_
  BY <1>1 DEF Next_
<1>2. ASSUME NEW n \in Bounds, Uniform(n)
      PROVE  seed' = NextSeed(seed) /\ result'.call # "Skewed"
  BY <1>2 DEF Uniform
<1>3. ASSUME NEW n \in Bounds, OneIn(n)
      PROVE  seed' = NextSeed(seed) /\ result'.call # "Skewed"
  BY <1>3 DEF OneIn
<1>4. ASSUME NEW max_log \in MaxLogs, Skewed(max_log)
      PROVE  seed' = NextSeed(NextSeed(seed)) /\ result'.call = "Skewed"
  BY <1>4 DEF Skewed
<1> QED
  BY <1>1, <1>2, <1>3, <1>4 DEF RandomNext

(* A call keeps the seed in range. *)
LEMMA SeedsStep == seed \in Seeds /\ [RandomNext]_random_vars => (seed \in Seeds)'
BY Draws, NextSeedIsRemainder DEF random_vars, Seeds

(* Whatever the constructor is given, the seed is never 0 or M, where the  *)
(* generator would return the same number for ever.                        *)
THEOREM NeverStuck == RandomSpec => [](seed \in Seeds)
BY SeedsInit, SeedsStep, PTL DEF RandomSpec

(* The shift, the mask and the subtraction compute the remainder of the    *)
(* product modulo M, once in every call and twice in Skewed.               *)
THEOREM IsLehmer == RandomSpec => Lehmer
<1> DEFINE Multiplied == seed' = IF result'.call = "Skewed" THEN Product(Product(seed))
                                 ELSE Product(seed)
<1>1. seed \in Seeds /\ [RandomNext]_random_vars => [Multiplied]_random_vars
  <2> SUFFICES ASSUME seed \in Seeds, RandomNext PROVE Multiplied
    OBVIOUS
  <2>1. NextSeed(seed) = Product(seed) /\ NextSeed(seed) \in 1 .. M - 1
    BY NextSeedIsRemainder DEF Seeds, Product
  <2>2. NextSeed(Product(seed)) = Product(Product(seed))
    BY <2>1, NextSeedIsRemainder DEF Product
  <2> QED
    BY <2>1, <2>2, Draws
<1> QED
  BY <1>1, NeverStuck, PTL DEF RandomSpec, Lehmer

-----------------------------------------------------------------------------
(* What the calls return.                                                  *)

ResultOK == result \in [call : Calls, value : Nat, max : Nat] /\ result.value <= result.max

(* A remainder is below what was divided by. *)
LEMMA BelowDivisor ==
  ASSUME NEW s \in Nat, NEW n \in Nat \ {0}
  PROVE  s % n \in Nat /\ s % n <= n - 1 /\ n - 1 \in Nat
OBVIOUS

(* A result is in range as soon as its two fields are. *)
LEMMA InRange ==
  ASSUME NEW c \in Calls, NEW v \in Nat, NEW x \in Nat, v <= x,
         result' = [call |-> c, value |-> v, max |-> x]
  PROVE  ResultOK'
BY DEF ResultOK

(* Skewed draws below a power of two that is itself at most 2^max_log. *)
LEMMA SkewedInRange ==
  ASSUME seed \in Seeds, NEW m \in MaxLogs, Skewed(m)
  PROVE  ResultOK'
<1> DEFINE s == NextSeed(seed)
           z == NextSeed(s)
           log == s % (m + 1)
<1>1. s \in 1 .. M - 1 /\ M \in Nat /\ m \in Nat
  BY NextSeedIsRemainder, RandomAssumption DEF Seeds
<1>2. z \in 1 .. M - 1
  BY <1>1, NextSeedIsRemainder
<1>3. result' = [call |-> "Skewed", value |-> z % 2^log, max |-> 2^m - 1]
  BY DEF Skewed
<1> HIDE DEF s, z
<1>4. log \in 0 .. m
  BY <1>1
<1> HIDE DEF log
<1>5. 2^log \in 1 .. 2^m /\ 2^m \in 1 .. M + 1
  BY <1>4, PowersGrow, RandomAssumption
<1> DEFINE a == 2^log
           b == 2^m
<1>6. a \in 1 .. b /\ b \in 1 .. M + 1
  BY <1>5
<1>7. result' = [call |-> "Skewed", value |-> z % a, max |-> b - 1]
  BY <1>3
<1> HIDE DEF a, b
<1>8. z \in Nat /\ a \in Nat \ {0} /\ b \in Nat /\ a <= b
  BY <1>1, <1>2, <1>6
<1>9. z % a \in Nat /\ z % a <= a - 1
  BY <1>8, BelowDivisor
<1>10. z % a <= b - 1 /\ b - 1 \in Nat
  BY <1>8, <1>9
<1> QED
  BY <1>7, <1>9, <1>10, InRange DEF Calls

(* Every call returns what it may. *)
LEMMA ResultStep ==
  ASSUME seed \in Seeds, ResultOK, [RandomNext]_random_vars
  PROVE  ResultOK'
<1>1. NextSeed(seed) \in 1 .. M - 1 /\ M \in Nat
  BY NextSeedIsRemainder, RandomAssumption DEF Seeds
<1>2. CASE UNCHANGED random_vars
  BY <1>2 DEF random_vars, ResultOK
<1>3. CASE Next_
  BY <1>1, <1>3, InRange DEF Next_, Calls
<1>4. ASSUME NEW n \in Bounds, Uniform(n) PROVE ResultOK'
  <2>1. n \in Nat \ {0} /\ seed' \in Nat
    BY <1>1, <1>4, RandomAssumption DEF UInt32, Uniform
  <2>2. seed' % n \in Nat /\ seed' % n <= n - 1 /\ n - 1 \in Nat
    BY <2>1, BelowDivisor
  <2> QED
    BY <1>4, <2>2, InRange DEF Uniform, Calls
<1>5. ASSUME NEW n \in Bounds, OneIn(n) PROVE ResultOK'
  <2>1. PICK v \in {0, 1} : result' = [call |-> "OneIn", value |-> v, max |-> 1]
    BY <1>5 DEF OneIn
  <2> QED
    BY <2>1, InRange DEF Calls
<1> QED
  BY <1>2, <1>3, <1>4, <1>5, SkewedInRange DEF RandomNext

(* The seed never leaves 1 .. M - 1, and no call returns more than it may: *)
(* Uniform(n) stays below n and Skewed(m) below 2^m.                       *)
THEOREM CallsStayInRange == RandomSpec => []TypeOK
<1>1. RandomInit => ResultOK
  BY DEF RandomInit, ResultOK, Calls
<1>2. seed \in Seeds /\ ResultOK => TypeOK
  BY DEF TypeOK, ResultOK
<1> QED
  BY <1>1, <1>2, ResultStep, NeverStuck, PTL DEF RandomSpec
===============================================================================
