------------------------------ MODULE DataLemmas ------------------------------
(***************************************************************************)
(* Facts about data the proofs share: least natural numbers and induction  *)
(* over a set, sums of the values of a function over a finite set, and     *)
(* what unlinking, appending and taking the head do to a list without      *)
(* repetitions.                                                            *)
(***************************************************************************)
EXTENDS Integers, Sequences, FiniteSets, SequencesExt, SequenceTheorems,
        FiniteSetTheorems, WellFoundedInduction, TLAPS

(* Every set of natural numbers that is not empty has a least element.     *)
LEMMA LeastNatural ==
  ASSUME NEW S, S \subseteq Nat, S # {}
  PROVE  \E n \in S : \A m \in S : n <= m
<1> DEFINE R == OpToRel(<, Nat)
<1>1. \A x, y \in Nat : <<x, y>> \in R <=> x < y
  BY DEF OpToRel
<1>2. IsWellFoundedOn(R, Nat)
  BY NatLessThanWellFounded
<1> HIDE DEF R
<1>3. PICK n \in S : \A m \in S : ~ (<<m, n>> \in R)
  BY <1>2, WFMin
<1>4. ASSUME NEW m \in S PROVE n <= m
  <2>1. m \in Nat /\ n \in Nat /\ ~ (<<m, n>> \in R)
    BY <1>3
  <2>2. ~ (m < n)
    BY <1>1, <2>1
  <2> QED
    BY <2>1, <2>2
<1> QED
  BY <1>4

(* Induction over the natural numbers, for a set instead of a property.    *)
LEMMA NaturalsBySteps ==
  ASSUME NEW S, 0 \in S, \A n \in Nat : n \in S => n + 1 \in S
  PROVE  Nat \subseteq S
<1> SUFFICES ASSUME ~(Nat \subseteq S) PROVE FALSE
  OBVIOUS
<1> DEFINE T == Nat \ S
<1>1. T \subseteq Nat /\ T # {}
  OBVIOUS
<1> HIDE DEF T
<1>2. PICK n \in T : \A m \in T : n <= m
  BY <1>1, LeastNatural
<1>3. n \in Nat /\ n \notin S /\ n # 0
  BY <1>2 DEF T
<1>4. n - 1 \in Nat /\ n - 1 \notin T
  BY <1>2, <1>3
<1> QED
  BY <1>3, <1>4 DEF T

(***************************************************************************)
(* Sums over finite sets, of the community module Functions.               *)
(***************************************************************************)

(* A property of subsets of a finite set that each of them has when the    *)
(* smaller ones do, all of them have.                                      *)
LEMMA SubsetsBySteps ==
  ASSUME NEW S, IsFiniteSet(S), NEW U,
         \A s \in SUBSET S : (\A x \in s : s \ {x} \in U) => s \in U
  PROVE  SUBSET S \subseteq U
<1> DEFINE N == {n \in Nat : \A s \in SUBSET S : Cardinality(s) = n => s \in U}
<1>1. \A s \in SUBSET S : IsFiniteSet(s) /\ Cardinality(s) \in Nat
  BY FS_Subset, FS_CardinalityType
<1>2. 0 \in N
  <2>1. \A s \in SUBSET S : Cardinality(s) = 0 => s = {}
    BY <1>1, FS_EmptySet
  <2> QED
    BY <2>1
<1>3. ASSUME NEW n \in Nat, n \in N PROVE n + 1 \in N
  <2> SUFFICES ASSUME NEW s \in SUBSET S, Cardinality(s) = n + 1 PROVE s \in U
    OBVIOUS
  <2>1. ASSUME NEW x \in s PROVE s \ {x} \in U
    <3>1. Cardinality(s \ {x}) = Cardinality(s) - 1
      BY <1>1, FS_RemoveElement
    <3> QED
      BY <3>1, <1>3
  <2> QED
    BY <2>1
<1> HIDE DEF N
<1>4. Nat \subseteq N
  BY <1>2, <1>3, NaturalsBySteps
<1> QED
  BY <1>1, <1>4 DEF N

Picked(s) == CHOOSE x \in s : TRUE

(* g is what SumFunctionOnSet(f, S) computes on the way, for each subset.  *)
Sums(g, f, S) ==
  /\ g = [s \in SUBSET S |-> g[s]]
  /\ \A s \in SUBSET S : g[s] = IF s = {} THEN 0 ELSE f[Picked(s)] + g[s \ {Picked(s)}]

(* A function as Sums describes it exists for every finite set.            *)
LEMMA SumsExist ==
  ASSUME NEW f, NEW S, IsFiniteSet(S)
  PROVE  \E g : Sums(g, f, S)
<1> DEFINE Upto(g, n) == \A s \in SUBSET S : Cardinality(s) <= n =>
                           g[s] = IF s = {} THEN 0 ELSE f[Picked(s)] + g[s \ {Picked(s)}]
           N == {n \in Nat : \E g : g = [s \in SUBSET S |-> g[s]] /\ Upto(g, n)}
<1>1. \A s \in SUBSET S : IsFiniteSet(s) /\ Cardinality(s) \in Nat /\ Cardinality(s) <= Cardinality(S)
  BY FS_Subset, FS_CardinalityType
<1>2. 0 \in N
  <2> DEFINE g == [s \in SUBSET S |-> 0]
  <2>1. \A s \in SUBSET S : Cardinality(s) <= 0 => s = {}
    BY <1>1, FS_EmptySet
  <2>2. g = [s \in SUBSET S |-> g[s]] /\ Upto(g, 0)
    BY <2>1
  <2> QED
    BY <2>2
<1>3. ASSUME NEW n \in Nat, n \in N PROVE n + 1 \in N
  <2>1. PICK g : g = [s \in SUBSET S |-> g[s]] /\ Upto(g, n)
    BY <1>3
  <2> DEFINE k == [s \in SUBSET S |-> IF Cardinality(s) <= n THEN g[s]
                                      ELSE f[Picked(s)] + g[s \ {Picked(s)}]]
  <2>2. k = [s \in SUBSET S |-> k[s]]
    OBVIOUS
  <2>3. ASSUME NEW s \in SUBSET S, Cardinality(s) <= n + 1
        PROVE  k[s] = IF s = {} THEN 0 ELSE f[Picked(s)] + k[s \ {Picked(s)}]
    <3>1. CASE s = {}
      <4>1. Cardinality(s) = 0
        BY <3>1, FS_EmptySet
      <4>2. g[s] = 0 /\ k[s] = g[s]
        <5>1. Cardinality(s) <= n
          BY <4>1
        <5> QED
          BY <5>1, <3>1, <2>1
      <4> QED
        BY <4>2, <3>1
    <3>2. CASE s # {}
      <4> DEFINE p == s \ {Picked(s)}
      <4>1. Picked(s) \in s
        BY <3>2 DEF Picked
      <4>2. p \in SUBSET S /\ Cardinality(p) = Cardinality(s) - 1
        BY <4>1, <1>1, FS_RemoveElement
      <4>3. Cardinality(p) <= n
        BY <4>2, <2>3, <1>1
      <4> HIDE DEF p
      <4>4. k[p] = g[p]
        BY <4>2, <4>3
      <4>5. k[s] = f[Picked(s)] + g[p]
        BY <2>1, <2>3, <3>2 DEF p
      <4> QED
        BY <4>4, <4>5, <3>2 DEF p
    <3> QED
      BY <3>1, <3>2
  <2> HIDE DEF k
  <2>4. Upto(k, n + 1)
    BY <2>3
  <2>5. \E q : q = [s \in SUBSET S |-> q[s]] /\ Upto(q, n + 1)
    <3> HIDE DEF Upto
    <3> QED
      BY <2>2, <2>4
  <2> HIDE DEF Upto
  <2> QED
    BY <2>5
<1> HIDE DEF N
<1>4. Nat \subseteq N
  BY <1>2, <1>3, NaturalsBySteps
<1>5. PICK g : g = [s \in SUBSET S |-> g[s]] /\ Upto(g, Cardinality(S))
  BY <1>1, <1>4 DEF N
<1> QED
  BY <1>1, <1>5 DEF Sums

(* SumFunctionOnSet adds the values up in such a function.                 *)
LEMMA SumIsSums ==
  ASSUME NEW f, NEW S, IsFiniteSet(S)
  PROVE  \E g : Sums(g, f, S) /\ SumFunctionOnSet(f, S) = g[S]
<1> DEFINE Body(g) == [s \in SUBSET S |-> IF s = {} THEN 0
                                         ELSE f[Picked(s)] + g[s \ {Picked(s)}]]
           it == CHOOSE g : g = Body(g)
<1>1. SumFunctionOnSet(f, S) = it[S]
  BY DEF SumFunctionOnSet, FoldFunctionOnSet, MapThenFoldSet, Picked
<1>2. PICK g : Sums(g, f, S)
  BY SumsExist
<1>3. g = Body(g)
  BY <1>2 DEF Sums
<1>4. it = Body(it)
  BY <1>3
<1>5. Sums(it, f, S)
  BY <1>4 DEF Sums
<1> QED
  BY <1>1, <1>5

(* The sum of a subset does not depend on the set the summing began with,  *)
(* nor on what the function is elsewhere.                                  *)
LEMMA SumsAgree ==
  ASSUME NEW f, NEW g, NEW S, NEW T, IsFiniteSet(S), S \subseteq T,
         \A x \in S : f[x] = g[x],
         NEW a, Sums(a, f, S), NEW b, Sums(b, g, T)
  PROVE  a[S] = b[S]
<1> DEFINE U == {s \in SUBSET S : a[s] = b[s]}
<1>1. ASSUME NEW s \in SUBSET S, \A x \in s : s \ {x} \in U
      PROVE  s \in U
  <2>1. CASE s = {}
    BY <2>1 DEF Sums
  <2>2. CASE s # {}
    <3> DEFINE p == s \ {Picked(s)}
    <3>1. Picked(s) \in s
      BY <2>2 DEF Picked
    <3>2. p \in U /\ f[Picked(s)] = g[Picked(s)]
      BY <3>1, <1>1
    <3>3. a[s] = f[Picked(s)] + a[p] /\ b[s] = g[Picked(s)] + b[p]
      BY <2>2 DEF Sums
    <3> QED
      BY <3>2, <3>3
  <2> QED
    BY <2>1, <2>2
<1> HIDE DEF U
<1>2. SUBSET S \subseteq U
  BY <1>1, SubsetsBySteps
<1> QED
  BY <1>2 DEF U

(* Integers add up to integers, for every part of the set.                 *)
LEMMA SumsAreInt ==
  ASSUME NEW f, NEW S, IsFiniteSet(S), \A x \in S : f[x] \in Int, NEW g, Sums(g, f, S)
  PROVE  \A s \in SUBSET S : g[s] \in Int
<1> DEFINE U == {s \in SUBSET S : g[s] \in Int}
<1>1. ASSUME NEW s \in SUBSET S, \A x \in s : s \ {x} \in U
      PROVE  s \in U
  <2>1. CASE s = {}
    <3>1. g[s] = 0
      BY <2>1 DEF Sums
    <3> QED
      BY <3>1
  <2>2. CASE s # {}
    <3>1. Picked(s) \in s
      BY <2>2 DEF Picked
    <3>2. g[s \ {Picked(s)}] \in Int /\ f[Picked(s)] \in Int
      BY <3>1, <1>1
    <3>3. g[s] = f[Picked(s)] + g[s \ {Picked(s)}]
      BY <2>2 DEF Sums
    <3> QED
      BY <3>2, <3>3
  <2> QED
    BY <2>1, <2>2
<1> HIDE DEF U
<1>2. SUBSET S \subseteq U
  BY <1>1, SubsetsBySteps
<1> QED
  BY <1>2 DEF U

(* Any element may be taken first.                                         *)
LEMMA SumsTakeAny ==
  ASSUME NEW f, NEW S, IsFiniteSet(S), \A x \in S : f[x] \in Int, NEW g, Sums(g, f, S)
  PROVE  \A s \in SUBSET S : \A x \in s : g[s] = f[x] + g[s \ {x}]
<1> DEFINE U == {s \in SUBSET S : \A x \in s : g[s] = f[x] + g[s \ {x}]}
<1>0. \A s \in SUBSET S : g[s] \in Int
  BY SumsAreInt
<1>1. ASSUME NEW s \in SUBSET S, \A x \in s : s \ {x} \in U
      PROVE  s \in U
  <2> SUFFICES ASSUME NEW x \in s PROVE g[s] = f[x] + g[s \ {x}]
    OBVIOUS
  <2> DEFINE c == Picked(s)
  <2>1. c \in s
    BY DEF Picked
  <2>2. g[s] = f[c] + g[s \ {c}]
    BY DEF Sums
  <2> HIDE DEF c
  <2>3. CASE x # c
    <3>1. g[s \ {c}] = f[x] + g[(s \ {c}) \ {x}]
      BY <1>1, <2>1, <2>3
    <3>2. g[s \ {x}] = f[c] + g[(s \ {x}) \ {c}]
      BY <1>1, <2>1, <2>3
    <3>3. (s \ {c}) \ {x} = (s \ {x}) \ {c} /\ (s \ {c}) \ {x} \in SUBSET S
      OBVIOUS
    <3> DEFINE m == g[(s \ {c}) \ {x}]  u == f[x]  v == f[c]
    <3>4. m \in Int /\ u \in Int /\ v \in Int
      BY <3>3, <1>0, <2>1
    <3>5. g[s] = v + (u + m) /\ g[s \ {x}] = v + m
      BY <2>2, <3>1, <3>2, <3>3
    <3> HIDE DEF m, u, v
    <3>6. g[s] = u + g[s \ {x}]
      BY <3>4, <3>5
    <3> QED
      BY <3>6 DEF u
  <2> QED
    BY <2>2, <2>3
<1> HIDE DEF U
<1>2. SUBSET S \subseteq U
  BY <1>1, SubsetsBySteps
<1> QED
  BY <1>2 DEF U

(* Nothing adds up to 0.                                                   *)
LEMMA SumOfNothing == ASSUME NEW f PROVE SumFunctionOnSet(f, {}) = 0
BY SumIsSums, FS_EmptySet DEF Sums

(* Natural numbers add up to a natural number.                             *)
LEMMA SumIsNat ==
  ASSUME NEW f, NEW S, IsFiniteSet(S), \A x \in S : f[x] \in Nat
  PROVE  SumFunctionOnSet(f, S) \in Nat
<1>1. PICK g : Sums(g, f, S) /\ SumFunctionOnSet(f, S) = g[S]
  BY SumIsSums
<1> DEFINE U == {s \in SUBSET S : g[s] \in Nat}
<1>2. ASSUME NEW s \in SUBSET S, \A x \in s : s \ {x} \in U
      PROVE  s \in U
  <2>1. CASE s = {}
    <3>1. g[s] = 0
      BY <2>1, <1>1 DEF Sums
    <3> QED
      BY <3>1
  <2>2. CASE s # {}
    <3>1. Picked(s) \in s
      BY <2>2 DEF Picked
    <3>2. g[s \ {Picked(s)}] \in Nat /\ f[Picked(s)] \in Nat
      BY <3>1, <1>2
    <3>3. g[s] = f[Picked(s)] + g[s \ {Picked(s)}]
      BY <2>2, <1>1 DEF Sums
    <3> QED
      BY <3>2, <3>3
  <2> QED
    BY <2>1, <2>2
<1> HIDE DEF U
<1>3. SUBSET S \subseteq U
  BY <1>2, SubsetsBySteps
<1> QED
  BY <1>1, <1>3 DEF U

(* The sum depends on the values of the function on the set only.          *)
LEMMA SumsEqual ==
  ASSUME NEW f, NEW g, NEW S, IsFiniteSet(S), \A x \in S : f[x] = g[x]
  PROVE  SumFunctionOnSet(f, S) = SumFunctionOnSet(g, S)
<1>1. PICK a : Sums(a, f, S) /\ SumFunctionOnSet(f, S) = a[S]
  BY SumIsSums
<1>2. PICK b : Sums(b, g, S) /\ SumFunctionOnSet(g, S) = b[S]
  BY SumIsSums
<1> QED
  BY <1>1, <1>2, SumsAgree

(* An element adds its value.                                              *)
LEMMA SumTakesOut ==
  ASSUME NEW f, NEW S, IsFiniteSet(S), \A x \in S : f[x] \in Int, NEW e \in S
  PROVE  SumFunctionOnSet(f, S) = f[e] + SumFunctionOnSet(f, S \ {e})
<1>1. PICK a : Sums(a, f, S) /\ SumFunctionOnSet(f, S) = a[S]
  BY SumIsSums
<1> DEFINE T == S \ {e}
<1>2. IsFiniteSet(T) /\ T \subseteq S
  BY FS_Subset
<1> HIDE DEF T
<1>3. PICK b : Sums(b, f, T) /\ SumFunctionOnSet(f, T) = b[T]
  BY <1>2, SumIsSums
<1>4. b[T] = a[T]
  BY <1>1, <1>2, <1>3, SumsAgree
<1>5. a[S] = f[e] + a[S \ {e}]
  BY <1>1, SumsTakeAny
<1> QED
  BY <1>1, <1>3, <1>4, <1>5 DEF T

(* An element that was not among them adds its value.                      *)
LEMMA SumTakesIn ==
  ASSUME NEW f, NEW S, IsFiniteSet(S), NEW e, e \notin S, \A x \in S \cup {e} : f[x] \in Int
  PROVE  SumFunctionOnSet(f, S \cup {e}) = f[e] + SumFunctionOnSet(f, S)
<1> DEFINE T == S \cup {e}
<1>1. IsFiniteSet(T) /\ e \in T /\ (\A x \in T : f[x] \in Int) /\ T \ {e} = S
  BY FS_AddElement
<1> HIDE DEF T
<1>2. SumFunctionOnSet(f, T) = f[e] + SumFunctionOnSet(f, T \ {e})
  BY <1>1, SumTakesOut
<1> QED
  BY <1>1, <1>2 DEF T

(***************************************************************************)
(* Lists without repetitions.                                              *)
(***************************************************************************)

(* Unlinking an element that is on the list: the result has every other    *)
(* element, in the same order.                                             *)
LEMMA RemoveFirstIndex ==
  ASSUME NEW S, NEW s \in Seq(S), IsInjective(s), NEW i \in 1..Len(s)
  PROVE  RemoveFirst(s, s[i]) = SubSeq(s, 1, i-1) \o SubSeq(s, i+1, Len(s))
<1> DEFINE I == {j \in 1..Len(s) : s[j] = s[i]}
<1>1. I = {i}
  BY DEF IsInjective
<1>2. Min(I) = i
  BY <1>1 DEF Min
<1>3. SelectInSeq(s, LAMBDA v : v = s[i]) = i
  BY <1>1, <1>2 DEF SelectInSeq
<1> QED
  BY <1>3 DEF RemoveFirst, RemoveAt

(* Position by position: what comes after the element moves up by one. *)
LEMMA RemoveFirstElements ==
  ASSUME NEW S, NEW s \in Seq(S), IsInjective(s), NEW i \in 1..Len(s)
  PROVE  /\ RemoveFirst(s, s[i]) \in Seq(S)
         /\ Len(RemoveFirst(s, s[i])) = Len(s) - 1
         /\ \A j \in 1..(Len(s) - 1) :
              RemoveFirst(s, s[i])[j] = IF j < i THEN s[j] ELSE s[j+1]
<1> DEFINE a == SubSeq(s, 1, i-1)
           b == SubSeq(s, i+1, Len(s))
<1>1. a \in Seq(S) /\ Len(a) = i-1 /\ \A j \in 1..(i-1) : a[j] = s[j]
  BY SubSeqProperties, LenProperties
<1>2. b \in Seq(S) /\ Len(b) = Len(s) - i /\ \A j \in 1..(Len(s) - i) : b[j] = s[j+i]
  BY SubSeqProperties, LenProperties
<1>3. RemoveFirst(s, s[i]) = a \o b
  BY RemoveFirstIndex
<1> HIDE DEF a, b
<1> QED
  BY <1>1, <1>2, <1>3, ConcatProperties, LenProperties

(* Unlinking what is not on the list changes nothing. *)
LEMMA RemoveFirstAbsent ==
  ASSUME NEW S, NEW s \in Seq(S), NEW e, e \notin ToSet(s)
  PROVE  RemoveFirst(s, e) = s
BY LenProperties DEF RemoveFirst, ToSet

(* Unlinking, whether or not the element is there. *)
LEMMA RemoveFirstProperties ==
  ASSUME NEW S, NEW s \in Seq(S), IsInjective(s), NEW e
  PROVE  /\ RemoveFirst(s, e) \in Seq(S)
         /\ IsInjective(RemoveFirst(s, e))
         /\ ToSet(RemoveFirst(s, e)) = ToSet(s) \ {e}
<1>1. CASE e \notin ToSet(s)
  BY <1>1, RemoveFirstAbsent
<1>2. CASE e \in ToSet(s)
  <2>1. PICK i \in 1..Len(s) : e = s[i]
    BY <1>2, LenProperties DEF ToSet
  <2> DEFINE r == RemoveFirst(s, s[i])
  <2>2. /\ r \in Seq(S) /\ Len(r) = Len(s) - 1 /\ DOMAIN r = 1..(Len(s) - 1)
        /\ \A j \in 1..(Len(s) - 1) : r[j] = IF j < i THEN s[j] ELSE s[j+1]
    BY RemoveFirstElements, LenProperties
  <2> HIDE DEF r
  <2>3. DOMAIN s = 1..Len(s) /\ Len(s) \in Nat
    BY LenProperties
  <2>4. \A a, b \in 1..Len(s) : s[a] = s[b] => a = b
    BY <2>3 DEF IsInjective
  <2>5. IsInjective(r)
    <3> SUFFICES ASSUME NEW a \in 1..(Len(s) - 1), NEW b \in 1..(Len(s) - 1),
                        r[a] = r[b]
                 PROVE  a = b
      BY <2>2 DEF IsInjective
    <3> QED
      BY <2>2, <2>3, <2>4
  <2>6. ToSet(r) \subseteq ToSet(s) \ {e}
    <3> SUFFICES ASSUME NEW j \in 1..(Len(s) - 1)
                 PROVE  r[j] \in ToSet(s) \ {e}
      BY <2>2 DEF ToSet
    <3>1. PICK n \in 1..Len(s) : n # i /\ r[j] = s[n]
      BY <2>2, <2>3
    <3> QED
      BY <3>1, <2>1, <2>3, <2>4 DEF ToSet
  <2>7. ToSet(s) \ {e} \subseteq ToSet(r)
    <3> SUFFICES ASSUME NEW n \in 1..Len(s), s[n] # e
                 PROVE  s[n] \in ToSet(r)
      BY <2>3 DEF ToSet
    <3>1. PICK j \in 1..(Len(s) - 1) : r[j] = s[n]
      <4>1. CASE n < i
        BY <4>1, <2>2, <2>3
      <4>2. CASE n > i
        <5>1. n-1 \in 1..(Len(s) - 1) /\ ~(n-1 < i) /\ (n-1)+1 = n
          BY <4>2, <2>3
        <5> QED
          BY <5>1, <2>2
      <4> QED
        BY <4>1, <4>2, <2>1
    <3> QED
      BY <3>1, <2>2 DEF ToSet
  <2> QED
    BY <2>1, <2>2, <2>5, <2>6, <2>7 DEF r
<1> QED
  BY <1>1, <1>2

(* Linking a new element at the newest end. *)
LEMMA AppendNewProperties ==
  ASSUME NEW S, NEW s \in Seq(S), IsInjective(s), NEW e \in S, e \notin ToSet(s)
  PROVE  /\ Append(s, e) \in Seq(S)
         /\ IsInjective(Append(s, e))
         /\ ToSet(Append(s, e)) = ToSet(s) \cup {e}
<1> DEFINE r == Append(s, e)
<1>1. /\ r \in Seq(S) /\ Len(r) = Len(s) + 1 /\ DOMAIN r = 1..(Len(s) + 1)
      /\ (\A i \in 1..Len(s) : r[i] = s[i]) /\ r[Len(s) + 1] = e
  BY AppendProperties, LenProperties
<1>2. DOMAIN s = 1..Len(s) /\ Len(s) \in Nat
  BY LenProperties
<1> HIDE DEF r
<1>3. \A i \in 1..Len(s) : s[i] # e
  BY <1>2 DEF ToSet
<1>4. IsInjective(r)
  BY <1>1, <1>2, <1>3 DEF IsInjective
<1>5. ToSet(r) = ToSet(s) \cup {e}
  BY <1>1, <1>2 DEF ToSet
<1> QED
  BY <1>1, <1>4, <1>5 DEF r

(* The oldest element, and the list without it. *)
LEMMA HeadTailInjective ==
  ASSUME NEW S, NEW s \in Seq(S), IsInjective(s), s # <<>>
  PROVE  /\ Head(s) \in ToSet(s) /\ Head(s) \in S
         /\ Tail(s) \in Seq(S)
         /\ IsInjective(Tail(s))
         /\ ToSet(Tail(s)) = ToSet(s) \ {Head(s)}
<1> DEFINE r == Tail(s)
<1>1. /\ r \in Seq(S) /\ Len(r) = Len(s) - 1 /\ DOMAIN r = 1..(Len(s) - 1)
      /\ \A i \in 1..(Len(s) - 1) : r[i] = s[i+1]
  BY HeadTailProperties, LenProperties
<1>2. DOMAIN s = 1..Len(s) /\ Len(s) \in Nat \ {0} /\ Head(s) = s[1] /\ s[1] \in S
  BY LenProperties, EmptySeq, ElementOfSeq
<1> HIDE DEF r
<1>3. \A a, b \in 1..Len(s) : s[a] = s[b] => a = b
  BY <1>2 DEF IsInjective
<1>4. IsInjective(r)
  <2> SUFFICES ASSUME NEW a \in 1..(Len(s) - 1), NEW b \in 1..(Len(s) - 1),
                      r[a] = r[b]
               PROVE  a = b
    BY <1>1 DEF IsInjective
  <2>1. s[a+1] = s[b+1] /\ a+1 \in 1..Len(s) /\ b+1 \in 1..Len(s)
    BY <1>1, <1>2
  <2> QED
    BY <2>1, <1>3
<1>5. ToSet(r) \subseteq ToSet(s) \ {Head(s)}
  <2> SUFFICES ASSUME NEW j \in 1..(Len(s) - 1)
               PROVE  r[j] \in ToSet(s) \ {s[1]}
    BY <1>1, <1>2 DEF ToSet
  <2>1. j+1 \in 1..Len(s) /\ j+1 # 1 /\ r[j] = s[j+1]
    BY <1>1, <1>2
  <2> QED
    BY <2>1, <1>2, <1>3 DEF ToSet
<1>6. ToSet(s) \ {Head(s)} \subseteq ToSet(r)
  <2> SUFFICES ASSUME NEW n \in 1..Len(s), s[n] # s[1]
               PROVE  s[n] \in ToSet(r)
    BY <1>2 DEF ToSet
  <2>1. n-1 \in 1..(Len(s) - 1) /\ (n-1)+1 = n
    BY <1>2
  <2>2. r[n-1] = s[n]
    BY <2>1, <1>1
  <2> QED
    BY <2>1, <2>2, <1>1 DEF ToSet
<1>7. Head(s) \in ToSet(s)
  BY <1>2 DEF ToSet
<1> QED
  BY <1>1, <1>2, <1>4, <1>5, <1>6, <1>7 DEF r

(* Dropping the n oldest elements. *)
LEMMA SuffixProperties ==
  ASSUME NEW S, NEW s \in Seq(S), IsInjective(s), NEW n \in 0 .. Len(s)
  PROVE  LET r == SubSeq(s, n + 1, Len(s))
         IN  /\ r \in Seq(S)
             /\ IsInjective(r)
             /\ ToSet(r) = ToSet(s) \ ToSet(SubSeq(s, 1, n))
             /\ ToSet(SubSeq(s, 1, n)) \subseteq ToSet(s)
<1> DEFINE p == SubSeq(s, 1, n)
           r == SubSeq(s, n + 1, Len(s))
<1>1. p \in Seq(S) /\ DOMAIN p = 1..n /\ \A j \in 1..n : p[j] = s[j]
  BY SubSeqProperties, LenProperties
<1>2. r \in Seq(S) /\ DOMAIN r = 1..(Len(s) - n) /\ \A j \in 1..(Len(s) - n) : r[j] = s[j+n]
  BY SubSeqProperties, LenProperties
<1>3. DOMAIN s = 1..Len(s) /\ Len(s) \in Nat
  BY LenProperties
<1>4. \A a, b \in 1..Len(s) : s[a] = s[b] => a = b
  BY <1>3 DEF IsInjective
<1> HIDE DEF p, r
<1>5. IsInjective(r)
  BY <1>2, <1>3, <1>4 DEF IsInjective
<1>6. ToSet(p) = {s[j] : j \in 1..n}
  BY <1>1 DEF ToSet
<1>7. ToSet(r) = {s[j] : j \in n+1..Len(s)}
  <2>1. \A j \in n+1..Len(s) : j-n \in 1..(Len(s) - n) /\ r[j-n] = s[j]
    BY <1>2, <1>3
  <2>2. \A j \in 1..(Len(s) - n) : j+n \in n+1..Len(s) /\ r[j] = s[j+n]
    BY <1>2, <1>3
  <2>3. ToSet(r) = {r[j] : j \in 1..(Len(s) - n)}
    BY <1>2 DEF ToSet
  <2> QED
    BY <2>1, <2>2, <2>3
<1>8. ToSet(s) = {s[j] : j \in 1..Len(s)}
  BY <1>3 DEF ToSet
<1>9. ToSet(r) = ToSet(s) \ ToSet(p) /\ ToSet(p) \subseteq ToSet(s)
  BY <1>3, <1>4, <1>6, <1>7, <1>8
<1> QED
  BY <1>2, <1>5, <1>9 DEF p, r

-----------------------------------------------------------------------------
(* The order of the elements that r shares with s, and of all others       *)
(* before them, is that of s.                                              *)
SameOrder(r, s) ==
  \A i, j \in DOMAIN r : i < j /\ r[j] \in ToSet(s) =>
    \E m, n \in DOMAIN s : m < n /\ s[m] = r[i] /\ s[n] = r[j]

(* Unlinking reorders nothing. *)
LEMMA RemoveFirstOrder ==
  ASSUME NEW S, NEW s \in Seq(S), IsInjective(s), NEW e
  PROVE  SameOrder(RemoveFirst(s, e), s)
<1>1. CASE e \notin ToSet(s)
  BY <1>1, RemoveFirstAbsent DEF SameOrder
<1>2. CASE e \in ToSet(s)
  <2>1. PICK p \in 1..Len(s) : e = s[p]
    BY <1>2, LenProperties DEF ToSet
  <2> DEFINE r == RemoveFirst(s, s[p])
  <2>2. /\ DOMAIN r = 1..(Len(s) - 1)
        /\ \A j \in 1..(Len(s) - 1) : r[j] = IF j < p THEN s[j] ELSE s[j+1]
    BY RemoveFirstElements, LenProperties
  <2>3. DOMAIN s = 1..Len(s) /\ Len(s) \in Nat
    BY LenProperties
  <2> HIDE DEF r
  <2>4. ASSUME NEW i \in DOMAIN r, NEW j \in DOMAIN r, i < j
        PROVE  \E m, n \in DOMAIN s : m < n /\ s[m] = r[i] /\ s[n] = r[j]
    <3>1. PICK m \in DOMAIN s : s[m] = r[i] /\ m = IF i < p THEN i ELSE i+1
      BY <2>2, <2>3
    <3>2. PICK n \in DOMAIN s : s[n] = r[j] /\ n = IF j < p THEN j ELSE j+1
      BY <2>2, <2>3
    <3>3. m < n
      BY <2>2, <2>3, <2>4, <3>1, <3>2
    <3> QED
      BY <3>1, <3>2, <3>3
  <2>5. SameOrder(r, s)
    BY <2>4 DEF SameOrder
  <2> QED
    BY <2>1, <2>5 DEF r
<1> QED
  BY <1>1, <1>2

(* A newcomer at the end comes before no one. *)
LEMMA AppendNewOrder ==
  ASSUME NEW S, NEW s \in Seq(S), NEW e \in S, e \notin ToSet(s)
  PROVE  SameOrder(Append(s, e), s)
<1> DEFINE r == Append(s, e)
<1>1. /\ DOMAIN r = 1..(Len(s) + 1)
      /\ (\A i \in 1..Len(s) : r[i] = s[i]) /\ r[Len(s) + 1] = e
  BY AppendProperties, LenProperties
<1>2. DOMAIN s = 1..Len(s) /\ Len(s) \in Nat
  BY LenProperties
<1> HIDE DEF r
<1>3. ASSUME NEW i \in DOMAIN r, NEW j \in DOMAIN r, i < j, r[j] \in ToSet(s)
      PROVE  \E m, n \in DOMAIN s : m < n /\ s[m] = r[i] /\ s[n] = r[j]
  <2>1. i \in DOMAIN s /\ j \in DOMAIN s
    BY <1>1, <1>2, <1>3
  <2> QED
    BY <1>1, <1>2, <1>3, <2>1
<1>4. SameOrder(r, s)
  BY <1>3 DEF SameOrder
<1> QED
  BY <1>4 DEF r

(* Dropping the head reorders nothing. *)
LEMMA TailOrder ==
  ASSUME NEW S, NEW s \in Seq(S), s # <<>>
  PROVE  SameOrder(Tail(s), s)
<1> DEFINE r == Tail(s)
<1>1. /\ DOMAIN r = 1..(Len(s) - 1)
      /\ \A i \in 1..(Len(s) - 1) : r[i] = s[i+1]
  BY HeadTailProperties, LenProperties
<1>2. DOMAIN s = 1..Len(s) /\ Len(s) \in Nat
  BY LenProperties
<1> HIDE DEF r
<1>3. ASSUME NEW i \in DOMAIN r, NEW j \in DOMAIN r, i < j
      PROVE  \E m, n \in DOMAIN s : m < n /\ s[m] = r[i] /\ s[n] = r[j]
  <2>1. i+1 \in DOMAIN s /\ j+1 \in DOMAIN s /\ i+1 < j+1
    BY <1>1, <1>2, <1>3
  <2> QED
    BY <1>1, <2>1
<1>4. SameOrder(r, s)
  BY <1>3 DEF SameOrder
<1> QED
  BY <1>4 DEF r
=============================================================================
