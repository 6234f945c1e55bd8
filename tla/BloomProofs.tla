------------------------------- MODULE BloomProofs ----------------------------
(***************************************************************************)
(* A Bloom filter never denies one of its keys, for every hash function,   *)
(* any keys, parameters and word width, wherever in a string it is stored. *)
(***************************************************************************)
EXTENDS Bloom, SequenceTheorems, TLAPS

-----------------------------------------------------------------------------
(* Arithmetic.                                                             *)

(* A number of eight bits is the sum of its bits. *)
LEMMA SumOfBits ==
  ASSUME NEW n \in 0 .. 255
  PROVE  n = (n % 2) + 2 * ((n \div 2) % 2) + 4 * ((n \div 4) % 2)
             + 8 * ((n \div 8) % 2) + 16 * ((n \div 16) % 2)
             + 32 * ((n \div 32) % 2) + 64 * ((n \div 64) % 2)
             + 128 * ((n \div 128) % 2)
OBVIOUS

(* What is stored in a char can be read back. *)
LEMMA CharReadBack ==
  ASSUME NEW n \in 0 .. 255
  PROVE  FromChar(ToChar(n)) = n
<1>1. ASSUME NEW m \in 0 .. 255, ToChar(m) = ToChar(n) PROVE m = n
  <2>1. ASSUME NEW b \in 0 .. 7
        PROVE  (m \div Weight[b + 1]) % 2 = (n \div Weight[b + 1]) % 2
    <3>1. Weight[b + 1] \in Nat \ {0}
      BY DEF Weight
    <3>2. (m \div Weight[b + 1]) % 2 = 1 <=> (n \div Weight[b + 1]) % 2 = 1
      BY <1>1 DEF ToChar
    <3>3. PICK w \in Nat \ {0} : w = Weight[b + 1]
      BY <3>1
    <3>4. (m \div w) % 2 \in {0, 1} /\ (n \div w) % 2 \in {0, 1}
      OBVIOUS
    <3> QED
      BY <3>2, <3>3, <3>4
  <2> DEFINE Same(w) == (m \div w) % 2 = (n \div w) % 2
  <2>2. Same(Weight[0 + 1]) /\ Same(Weight[1 + 1]) /\ Same(Weight[2 + 1])
        /\ Same(Weight[3 + 1]) /\ Same(Weight[4 + 1]) /\ Same(Weight[5 + 1])
        /\ Same(Weight[6 + 1]) /\ Same(Weight[7 + 1])
    BY <2>1
  <2> HIDE DEF Same
  <2>3. Same(1) /\ Same(2) /\ Same(4) /\ Same(8) /\ Same(16) /\ Same(32) /\ Same(64) /\ Same(128)
    BY <2>2 DEF Weight
  <2>4. m \div 1 = m /\ n \div 1 = n
    OBVIOUS
  <2> QED
    <3>1. Same(1) => m % 2 = n % 2
      BY <2>4 DEF Same
    <3> QED
      BY <2>3, <3>1, SumOfBits, SMTT(60) DEF Same
<1>2. \E m \in 0 .. 255 : ToChar(m) = ToChar(n)
  OBVIOUS
<1>3. FromChar(ToChar(n)) \in 0 .. 255 /\ ToChar(FromChar(ToChar(n))) = ToChar(n)
  BY <1>2 DEF FromChar
<1> QED
  BY <1>1, <1>3

(* The length and the last element of a part of a string. *)
LEMMA LastOfSubSeq ==
  ASSUME NEW s \in Seq(Char), NEW m \in 1 .. Len(s), NEW n \in m .. Len(s)
  PROVE  /\ Len(SubSeq(s, m, n)) = n - m + 1
         /\ SubSeq(s, m, n)[n - m + 1] = s[n]
<1>1. \A i \in m .. n : s[i] \in Char
  OBVIOUS
<1>2. /\ Len(SubSeq(s, m, n)) = IF m <= n THEN n - m + 1 ELSE 0
      /\ \A i \in 1 .. n - m + 1 : SubSeq(s, m, n)[i] = s[m + i - 1]
  BY <1>1, SubSeqProperties
<1>3. n - m + 1 \in 1 .. n - m + 1 /\ m + (n - m + 1) - 1 = n /\ m <= n
  OBVIOUS
<1> QED
  BY <1>2, <1>3

(* There are at least eight bytes. *)
LEMMA EightBytes ==
  ASSUME NEW n \in Nat, NEW bpk \in Nat
  PROVE  Bytes(n, bpk) \in Nat /\ Bytes(n, bpk) >= 8
<1>1. n * bpk \in Nat
  OBVIOUS
<1>2. PICK bits \in Nat : bits >= 64 /\ bits = IF n * bpk < 64 THEN 64 ELSE n * bpk
  BY <1>1
<1>3. (bits + 7) \div 8 \in Nat /\ (bits + 7) \div 8 >= 8
  BY <1>2
<1> QED
  BY <1>2, <1>3 DEF Bytes

(* The loops only touch bits of the array. *)
LEMMA BitPosInArray ==
  ASSUME NEW h \in Word, NEW j \in Nat, NEW bits \in Nat \ {0}
  PROVE  BitPos(h, j, bits) \in 0 .. bits - 1
<1>1. Low \in Nat \ {0} /\ High \in Nat \ {0} /\ h \in Nat
  BY BloomAssumption DEF Word
<1>2. h \div Low \in Nat /\ h % Low \in Nat
  BY <1>1
<1>3. (h % Low) * High \in Nat /\ Low * High \in Nat \ {0}
  BY <1>1, <1>2
<1>4. Delta(h) \in Nat
  BY <1>2, <1>3 DEF Delta
<1>5. h + (j * Delta(h)) \in Nat
  BY <1>1, <1>4
<1> DEFINE x == (h + (j * Delta(h))) % (Low * High)
<1>6. x \in Nat
  BY <1>3, <1>5
<1> HIDE DEF x
<1>7. x % bits \in 0 .. bits - 1
  BY <1>6
<1> QED
  BY <1>7 DEF BitPos, x

-----------------------------------------------------------------------------
(* A filter alone: the array with the bits of set set, and the number of   *)
(* probes.  CreateFilter appends it, CreatedIsFilter below.                *)
Filter(keys, bits_per_key) ==
  LET k   == Probes(bits_per_key)
      set == BitsSet(keys, Bits(Len(keys), bits_per_key), k)
  IN  Append([p \in 1 .. Bytes(Len(keys), bits_per_key) |->
                {b \in 0 .. 7 : 8 * (p - 1) + b \in set}],
             ToChar(k))

(* What a filter is made of: chars, the last of which says how many probes *)
(* there are; the others hold as many bits as CreateFilter reckoned with,  *)
(* and those are one that a probe of a key has set.                        *)
LEMMA FilterShape ==
  ASSUME NEW keys \in Seq(Keys), NEW bpk \in Nat
  PROVE  LET f    == Filter(keys, bpk)
             bits == Bits(Len(keys), bpk)
             k    == Probes(bpk)
         IN  /\ f \in Seq(Char) /\ Len(f) >= 2
             /\ bits \in Nat \ {0} /\ (Len(f) - 1) * 8 = bits
             /\ k \in 1 .. 30 /\ FromChar(f[Len(f)]) = k
             /\ \A x \in 0 .. bits - 1 :
                  x % 8 \in f[(x \div 8) + 1] <=> x \in BitsSet(keys, bits, k)
<1> DEFINE n == Len(keys)
           bytes == Bytes(n, bpk)
           k == Probes(bpk)
           set == BitsSet(keys, Bits(n, bpk), k)
           arr == [p \in 1 .. bytes |-> {b \in 0 .. 7 : 8 * (p - 1) + b \in set}]
           f == Filter(keys, bpk)
<1>1. n \in Nat
  OBVIOUS
<1>2. bytes \in Nat /\ bytes >= 8
  BY <1>1, EightBytes
<1>3. k \in 1 .. 30
  BY DEF Probes
<1> HIDE DEF n, bytes, k, set
<1>4. arr \in Seq(Char) /\ Len(arr) = bytes
  BY <1>2 DEF Char
<1>5. ToChar(k) \in Char
  BY DEF ToChar, Char
<1>6. f = Append(arr, ToChar(k))
  BY Zenon DEF Filter, n, bytes, k, set
<1> HIDE DEF arr, f
<1>7. /\ f \in Seq(Char) /\ Len(f) = bytes + 1 /\ f[Len(f)] = ToChar(k)
      /\ \A p \in 1 .. bytes : f[p] = arr[p]
  BY <1>2, <1>4, <1>5, <1>6
<1>8. Bits(n, bpk) = bytes * 8 /\ (Len(f) - 1) * 8 = bytes * 8 /\ bytes * 8 \in Nat \ {0}
  BY <1>2, <1>7 DEF Bits, bytes
<1>9. FromChar(f[Len(f)]) = k
  <2>1. k \in 0 .. 255
    BY <1>3
  <2> QED
    BY <2>1, <1>7, CharReadBack
<1>10. ASSUME NEW x \in 0 .. (bytes * 8) - 1
       PROVE  x % 8 \in f[(x \div 8) + 1] <=> x \in set
  <2> DEFINE p == (x \div 8) + 1
  <2>1. p \in 1 .. bytes /\ x % 8 \in 0 .. 7 /\ 8 * (p - 1) + (x % 8) = x
    BY <1>2
  <2> HIDE DEF p
  <2>2. arr[p] = {b \in 0 .. 7 : 8 * (p - 1) + b \in set}
    BY <2>1 DEF arr
  <2>3. x % 8 \in arr[p] <=> x \in set
    BY <2>1, <2>2
  <2> QED
    BY <1>7, <2>1, <2>3 DEF p
<1>11. Len(f) >= 2
  BY <1>2, <1>7
<1> QED
  BY <1>3, <1>7, <1>8, <1>9, <1>10, <1>11 DEF f, k, set, n

(* A filter is asked for the bits that a key probes, and says yes if all   *)
(* of them are set.                                                        *)
LEMMA Asked ==
  ASSUME BloomHash \in [Keys -> Word], NEW keys \in Seq(Keys), NEW bpk \in Nat,
         NEW key \in Keys
  PROVE  KeyMayMatch(key, Filter(keys, bpk)) <=>
           \A j \in 0 .. Probes(bpk) - 1 :
             BitPos(BloomHash[key], j, Bits(Len(keys), bpk))
               \in BitsSet(keys, Bits(Len(keys), bpk), Probes(bpk))
<1> DEFINE f == Filter(keys, bpk)
           bits == Bits(Len(keys), bpk)
           k == Probes(bpk)
           set == BitsSet(keys, bits, k)
<1>1. /\ Len(f) >= 2 /\ bits \in Nat \ {0} /\ (Len(f) - 1) * 8 = bits
      /\ k \in 1 .. 30 /\ FromChar(f[Len(f)]) = k
      /\ \A x \in 0 .. bits - 1 : x % 8 \in f[(x \div 8) + 1] <=> x \in set
  BY FilterShape
<1> HIDE DEF f, bits, k, set
<1>2. \A j \in 0 .. k - 1 : BitPos(BloomHash[key], j, bits) \in 0 .. bits - 1
  <2> SUFFICES ASSUME NEW j \in 0 .. k - 1
               PROVE  BitPos(BloomHash[key], j, bits) \in 0 .. bits - 1
    OBVIOUS
  <2>1. j \in Nat /\ BloomHash[key] \in Word
    BY <1>1
  <2> QED
    BY <2>1, <1>1, BitPosInArray
<1>3. KeyMayMatch(key, f) <=>
        \A j \in 0 .. k - 1 :
          BitPos(BloomHash[key], j, bits) % 8
            \in f[(BitPos(BloomHash[key], j, bits) \div 8) + 1]
  BY <1>1 DEF KeyMayMatch
<1>4. KeyMayMatch(key, f) <=>
        \A j \in 0 .. k - 1 : BitPos(BloomHash[key], j, bits) \in set
  BY <1>1, <1>2, <1>3
<1> QED
  BY <1>4 DEF f, bits, k, set

(* The bits that the loops set are bits of the array. *)
LEMMA SetInArray ==
  ASSUME BloomHash \in [Keys -> Word], NEW keys \in Seq(Keys), NEW bits \in Nat \ {0},
         NEW k \in Nat
  PROVE  BitsSet(keys, bits, k) \subseteq 0 .. bits - 1
<1> SUFFICES ASSUME NEW i \in DOMAIN keys, NEW j \in 0 .. k - 1
             PROVE  BitPos(BloomHash[keys[i]], j, bits) \in 0 .. bits - 1
  BY DEF BitsSet
<1>1. BloomHash[keys[i]] \in Word /\ j \in Nat
  OBVIOUS
<1> QED
  BY <1>1, BitPosInArray

(* Bits that are set through a pointer behind an old string change nothing *)
(* of the old string, and nothing behind the array.                        *)
LEMMA MarkedBehind ==
  ASSUME NEW str \in Seq(Char), NEW bytes \in Nat, NEW k,
         ToChar(k) \in Char, NEW set \in SUBSET (0 .. bytes * 8 - 1)
  PROVE  Marked(Grown(str, bytes, k), Len(str), set)
           = str \o Append([p \in 1 .. bytes |-> {b \in 0 .. 7 : 8 * (p - 1) + b \in set}],
                           ToChar(k))
<1> DEFINE zeros == [p \in 1 .. bytes |-> {}]
           arr   == [p \in 1 .. bytes |-> {b \in 0 .. 7 : 8 * (p - 1) + b \in set}]
           old   == str \o zeros
           grown == Append(old, ToChar(k))
           new   == Append(arr, ToChar(k))
           made  == [p \in 1 .. Len(grown) |->
                       grown[p] \cup {b \in 0 .. 7 : 8 * (p - 1 - Len(str)) + b \in set}]
           n     == Len(str)
<1>1. n \in Nat /\ {} \in Char
  BY DEF Char
<1>2. zeros \in Seq(Char) /\ Len(zeros) = bytes /\ \A p \in 1 .. bytes : zeros[p] = {}
  BY <1>1
<1>3. /\ arr \in Seq(Char) /\ Len(arr) = bytes
      /\ \A p \in 1 .. bytes : arr[p] = {b \in 0 .. 7 : 8 * (p - 1) + b \in set}
  BY DEF Char
<1> HIDE DEF zeros, arr
<1>4. /\ old \in Seq(Char) /\ Len(old) = n + bytes
      /\ \A p \in 1 .. n + bytes : old[p] = IF p <= n THEN str[p] ELSE zeros[p - n]
  BY <1>2, ConcatProperties
<1> HIDE DEF old
<1>5. /\ grown \in Seq(Char) /\ Len(grown) = n + bytes + 1
      /\ grown[n + bytes + 1] = ToChar(k)
      /\ \A p \in 1 .. n + bytes : grown[p] = old[p]
  BY <1>1, <1>4
<1>6. /\ new \in Seq(Char) /\ Len(new) = bytes + 1
      /\ new[bytes + 1] = ToChar(k)
      /\ \A p \in 1 .. bytes : new[p] = arr[p]
  BY <1>3
<1> HIDE DEF grown, new
<1>7. /\ str \o new \in Seq(Char) /\ Len(str \o new) = n + bytes + 1
      /\ \A p \in 1 .. n + bytes + 1 :
           (str \o new)[p] = IF p <= n THEN str[p] ELSE new[p - n]
  <2>1. /\ str \o new \in Seq(Char) /\ Len(str \o new) = Len(str) + Len(new)
        /\ \A p \in 1 .. Len(str) + Len(new) :
             (str \o new)[p] = IF p <= Len(str) THEN str[p] ELSE new[p - Len(str)]
    BY <1>6, ConcatProperties
  <2>2. Len(str) + Len(new) = n + bytes + 1
    BY <1>1, <1>6
  <2> QED
    BY <2>1, <2>2
<1>8. ASSUME NEW p \in 1 .. n + bytes + 1
      PROVE  grown[p] \cup {b \in 0 .. 7 : 8 * (p - 1 - n) + b \in set} = (str \o new)[p]
  <2>1. CASE p <= n
    <3>1. {b \in 0 .. 7 : 8 * (p - 1 - n) + b \in set} = {}
      <4>1. \A b \in 0 .. 7 : 8 * (p - 1 - n) + b < 0
        BY <1>1, <2>1
      <4> QED
        BY <4>1
    <3>2. grown[p] = str[p] /\ (str \o new)[p] = str[p]
      BY <1>1, <1>4, <1>5, <1>7, <2>1
    <3> QED
      BY <3>1, <3>2
  <2>2. CASE p > n /\ p <= n + bytes
    <3>1. PICK q \in 1 .. bytes : q = p - n
      BY <1>1, <2>2
    <3>2. grown[p] = {} /\ (str \o new)[p] = arr[q]
      BY <1>1, <1>2, <1>4, <1>5, <1>6, <1>7, <2>2, <3>1
    <3>3. p - 1 - n = q - 1
      BY <1>1, <3>1
    <3> QED
      BY <1>3, <3>1, <3>2, <3>3
  <2>3. CASE p = n + bytes + 1
    <3>1. {b \in 0 .. 7 : 8 * (p - 1 - n) + b \in set} = {}
      <4>1. \A b \in 0 .. 7 : 8 * (p - 1 - n) + b >= bytes * 8
        BY <1>1, <2>3
      <4> QED
        BY <4>1
    <3>2. grown[p] = ToChar(k) /\ (str \o new)[p] = ToChar(k)
      BY <1>1, <1>5, <1>6, <1>7, <2>3
    <3> QED
      BY <3>1, <3>2
  <2>4. p <= n \/ (p > n /\ p <= n + bytes) \/ p = n + bytes + 1
    BY <1>1
  <2> QED
    BY <2>1, <2>2, <2>3, <2>4
<1>9. made = [p \in 1 .. n + bytes + 1 |-> (str \o new)[p]]
  BY <1>5, <1>8
<1> HIDE DEF made
<1>10. str \o new = [p \in 1 .. n + bytes + 1 |-> (str \o new)[p]]
  <2>1. str \o new \in [1 .. n + bytes + 1 -> Char]
    BY <1>7, LenProperties
  <2> QED
    BY <2>1
<1>11. made = str \o new
  BY <1>9, <1>10
<1> QED
  BY <1>11 DEF made, grown, old, zeros, new, arr, Marked, Grown

(* CreateFilter leaves what is in the string, and appends a filter. *)
LEMMA CreatedIsFilter ==
  ASSUME BloomHash \in [Keys -> Word], dst \in Seq(Char),
         NEW keys \in Seq(Keys), NEW bpk \in Nat, CreateFilter(keys, bpk)
  PROVE  dst' = dst \o Filter(keys, bpk)
<1> DEFINE n == Len(keys)
           bytes == Bytes(n, bpk)
           k == Probes(bpk)
           set == BitsSet(keys, Bits(n, bpk), k)
<1>1. n \in Nat
  OBVIOUS
<1>2. bytes \in Nat /\ bytes >= 8
  BY <1>1, EightBytes
<1>3. k \in 1 .. 30 /\ ToChar(k) \in Char
  BY DEF Probes, ToChar, Char
<1>4. Bits(n, bpk) = bytes * 8
  BY DEF Bits
<1>5. dst' = Marked(Grown(dst, bytes, k), Len(dst), set)
  BY Zenon DEF CreateFilter, Array
<1>6. Filter(keys, bpk)
        = Append([p \in 1 .. bytes |-> {b \in 0 .. 7 : 8 * (p - 1) + b \in set}], ToChar(k))
  BY Zenon DEF Filter
<1>7. set \in SUBSET (0 .. bytes * 8 - 1)
  <2> HIDE DEF n, bytes, k
  <2>1. bytes * 8 \in Nat \ {0} /\ k \in Nat
    BY <1>2, <1>3
  <2> QED
    BY <1>4, <2>1, SetInArray
<1> HIDE DEF n, bytes, k, set
<1>8. Marked(Grown(dst, bytes, k), Len(dst), set)
        = dst \o Append([p \in 1 .. bytes |-> {b \in 0 .. 7 : 8 * (p - 1) + b \in set}],
                        ToChar(k))
  BY <1>2, <1>3, <1>7, MarkedBehind
<1> QED
  BY <1>5, <1>6, <1>8, Zenon

-----------------------------------------------------------------------------
(* Every filter is still in dst where CreateFilter appended it. *)
Intact(f) ==
  /\ f.begin \in Nat /\ f.end \in f.begin + 1 .. Len(dst) /\ f.keys \in Seq(Keys)
  /\ \E bpk \in Nat : Stored(f) = Filter(f.keys, bpk)

IInv ==
  /\ BloomHash \in [Keys -> Word]
  /\ dst \in Seq(Char)
  /\ \E m \in Nat : DOMAIN filters = 1 .. m /\ Len(filters) = m
  /\ \A i \in DOMAIN filters : Intact(filters[i])

(* An empty string holds no filter. *)
LEMMA IInvInit == Init => IInv
BY BloomAssumption DEF Init, IInv

(* Appending a filter leaves the earlier ones where they are. *)
LEMMA IInvStep == IInv /\ [Next]_vars => IInv'
<1> SUFFICES ASSUME IInv, [Next]_vars PROVE IInv'
  OBVIOUS
<1>1. CASE UNCHANGED vars
  <2>1. \A keys, b : Filter(keys, b)' = Filter(keys, b)
    BY <1>1 DEF vars, Filter, BitsSet
  <2>2. \A f : Intact(f)' <=> Intact(f)
    BY <1>1, <2>1 DEF vars, Intact, Stored
  <2> QED
    BY <1>1, <2>2 DEF vars, IInv
<1>2. CASE Clear
  BY <1>2 DEF Clear, IInv
<1>3. ASSUME NEW n \in 0 .. MaxKeys, NEW bpk \in BitsPerKey,
             NEW keys \in [1 .. n -> Keys], CreateFilter(keys, bpk)
      PROVE  IInv'
  <2> DEFINE g == Filter(keys, bpk)
             new == [begin |-> Len(dst), end |-> Len(dst'), keys |-> keys]
  <2>1. bpk \in Nat /\ n \in Nat /\ keys \in Seq(Keys)
    BY BloomAssumption
  <2>2. g \in Seq(Char) /\ Len(g) > 0 /\ dst \in Seq(Char)
    BY <2>1, FilterShape DEF IInv
  <2>3. dst' = dst \o g /\ filters' = Append(filters, new) /\ BloomHash' = BloomHash
    <3>1. dst' = dst \o g
      BY <1>3, <2>1, CreatedIsFilter DEF IInv
    <3> QED
      BY <1>3, <3>1 DEF CreateFilter
  <2>4. Filter(keys, bpk)' = g
    BY <2>3 DEF Filter, BitsSet
  <2> HIDE DEF g
  <2>5. dst' \in Seq(Char) /\ Len(dst') = Len(dst) + Len(g) /\ Len(dst) \in Nat /\ Len(g) \in Nat
    BY <2>2, <2>3
  <2>6. ASSUME NEW f, Intact(f) PROVE Intact(f)'
    <3>1. /\ f.begin \in Nat /\ f.end \in f.begin + 1 .. Len(dst)
          /\ SubSeq(dst', f.begin + 1, f.end) = SubSeq(dst, f.begin + 1, f.end)
      <4>1. f.begin \in Nat /\ f.end \in f.begin + 1 .. Len(dst) /\ Len(dst) \in Nat
        BY <2>5, <2>6 DEF Intact
      <4>2. f.begin + 1 \in 1 .. Len(dst) /\ f.end \in 1 .. Len(dst)
        BY <4>1
      <4> QED
        BY <2>2, <2>3, <4>1, <4>2, SubSeqOfConcat1
    <3>2. Stored(f)' = Stored(f)
      BY <3>1 DEF Stored
    <3>3. PICK b \in Nat : Stored(f) = Filter(f.keys, b)
      BY <2>6 DEF Intact
    <3>4. Filter(f.keys, b)' = Filter(f.keys, b)
      BY <2>3 DEF Filter, BitsSet
    <3> QED
      BY <2>5, <2>6, <3>1, <3>2, <3>3, <3>4 DEF Intact
  <2>7. PICK c : c = new /\ c.begin = Len(dst) /\ c.end = Len(dst') /\ c.keys = keys
    <3>1. new.begin = Len(dst) /\ new.end = Len(dst') /\ new.keys = keys
      OBVIOUS
    <3> HIDE DEF new
    <3> QED
      BY <3>1
  <2> HIDE DEF new
  <2>8. Intact(c)'
    <3>1. SubSeq(dst', Len(dst) + 1, Len(dst')) = g
      BY <2>2, <2>3, <2>5, SubSeqOfConcat2, SubSeqFull
    <3>2. SubSeq(dst', c.begin + 1, c.end) = Filter(keys, bpk)'
      BY <2>4, <2>7, <3>1
    <3> QED
      BY <2>1, <2>2, <2>5, <2>7, <3>2 DEF Intact, Stored
  <2>9. filters' = Append(filters, c)
    BY <2>3, <2>7
  <2>10. \E m \in Nat : DOMAIN filters' = 1 .. m /\ Len(filters') = m
    BY <2>9 DEF IInv
  <2>11. \A i \in DOMAIN filters' : Intact(filters[i])'
    <3>1. ASSUME NEW i \in DOMAIN filters'
          PROVE  filters'[i] = c \/ \E j \in DOMAIN filters : filters'[i] = filters[j]
      BY <2>9 DEF IInv
    <3>2. \A f : Intact(f) => Intact(f)'
      BY <2>6
    <3>3. \A j \in DOMAIN filters : Intact(filters[j])
      BY DEF IInv
    <3>4. ASSUME NEW i \in DOMAIN filters' PROVE Intact(filters[i])'
      <4>1. PICK f : f = filters'[i]
        OBVIOUS
      <4>2. Intact(f)'
        BY <2>8, <3>1, <3>2, <3>3, <4>1
      <4> QED
        BY <4>1, <4>2 DEF Intact, Stored
    <3> QED
      BY <3>4
  <2> QED
    BY <2>3, <2>5, <2>10, <2>11 DEF IInv
<1> QED
  BY <1>1, <1>2, <1>3 DEF Next

(* The inductive invariant holds in every reachable state. *)
LEMMA Invariance == Spec => []IInv
BY IInvInit, IInvStep, PTL DEF Spec

(* No call of CreateFilter, whose loops write through a pointer into the   *)
(* string, changes a char that was there before it.                        *)
THEOREM OldBytesStay == Spec => [][Clear \/ \E g \in Seq(Char) : dst' = dst \o g]_vars
<1>1. ASSUME IInv, Next
      PROVE  Clear \/ \E g \in Seq(Char) : dst' = dst \o g
  <2> SUFFICES ASSUME NEW n \in 0 .. MaxKeys, NEW bpk \in BitsPerKey,
                      NEW keys \in [1 .. n -> Keys], CreateFilter(keys, bpk)
               PROVE  \E g \in Seq(Char) : dst' = dst \o g
    BY <1>1 DEF Next
  <2>1. bpk \in Nat /\ n \in Nat /\ keys \in Seq(Keys)
    BY BloomAssumption
  <2>2. Filter(keys, bpk) \in Seq(Char)
    BY <2>1, FilterShape
  <2>3. dst' = dst \o Filter(keys, bpk)
    BY <1>1, <2>1, CreatedIsFilter DEF IInv
  <2> QED
    BY <2>2, <2>3
<1>2. IInv /\ [Next]_vars => [Clear \/ \E g \in Seq(Char) : dst' = dst \o g]_vars
  BY <1>1
<1> QED
  BY <1>2, Invariance, PTL DEF Spec

(* The key of a filter is never denied: neither by the policy that made    *)
(* the filter nor by one with other parameters, whatever the hash function *)
(* and however much was appended to the string before or after.            *)
THEOREM NeverDenied == Spec => []NoFalseNegative
<1>1. IInv => NoFalseNegative
  <2> SUFFICES ASSUME IInv, NEW i \in DOMAIN filters, NEW j \in DOMAIN filters[i].keys
               PROVE  KeyMayMatch(filters[i].keys[j], Stored(filters[i]))
    BY DEF NoFalseNegative
  <2>1. Intact(filters[i])
    BY DEF IInv
  <2>2. PICK bpk \in Nat : Stored(filters[i]) = Filter(filters[i].keys, bpk)
    BY <2>1 DEF Intact
  <2>3. PICK keys \in Seq(Keys) : keys = filters[i].keys
    BY <2>1 DEF Intact
  <2>4. KeyMayMatch(keys[j], Filter(keys, bpk))
    <3>1. keys[j] \in Keys
      BY <2>3
    <3> QED
      BY <2>3, <3>1, Asked DEF IInv, BitsSet
  <2> QED
    BY <2>2, <2>3, <2>4
<1> QED
  BY <1>1, Invariance, PTL

(* Whatever a filter confirms, its own keys have set every bit of it that  *)
(* was probed: nothing of what is around the filter in the string, and no  *)
(* bit beyond its probes, takes part.                                      *)
THEOREM OnlyOwnBits == Spec => []NoStrayBits
<1>1. ASSUME IInv, NEW f, Intact(f), NEW key \in Keys, KeyMayMatch(key, Stored(f))
      PROVE  LET bits == (f.end - f.begin - 1) * 8
                 probes(x) == {BitPos(BloomHash[x], j, bits) :
                                 j \in 0 .. FromChar(dst[f.end]) - 1}
             IN  probes(key) \subseteq UNION {probes(f.keys[i]) : i \in DOMAIN f.keys}
  <2>1. PICK keys \in Seq(Keys) : keys = f.keys
    BY <1>1 DEF Intact
  <2>2. PICK bpk \in Nat : Stored(f) = Filter(keys, bpk)
    BY <1>1, <2>1 DEF Intact
  <2>3. f.begin \in Nat /\ f.end \in f.begin + 1 .. Len(dst) /\ dst \in Seq(Char)
    BY <1>1 DEF Intact, IInv
  <2>4. Len(Stored(f)) = f.end - f.begin /\ Stored(f)[f.end - f.begin] = dst[f.end]
    <3>1. PICK b \in Nat, e \in Nat : b = f.begin /\ e = f.end /\ b + 1 <= e /\ e <= Len(dst)
      BY <2>3
    <3>2. Len(SubSeq(dst, b + 1, e)) = e - b /\ SubSeq(dst, b + 1, e)[e - b] = dst[e]
      <4>1. b + 1 \in 1 .. Len(dst) /\ e \in b + 1 .. Len(dst) /\ e - (b + 1) + 1 = e - b
        BY <2>3, <3>1
      <4> QED
        BY <2>3, <4>1, LastOfSubSeq
    <3> QED
      BY <3>1, <3>2 DEF Stored
  <2> DEFINE bits == Bits(Len(keys), bpk)
             k == Probes(bpk)
  <2>5. bits = (f.end - f.begin - 1) * 8 /\ k = FromChar(dst[f.end])
    BY <2>2, <2>4, FilterShape
  <2>6. \A j \in 0 .. k - 1 : BitPos(BloomHash[key], j, bits) \in BitsSet(keys, bits, k)
    BY <1>1, <2>2, Asked DEF IInv
  <2> HIDE DEF bits, k
  <2> QED
    BY <2>1, <2>5, <2>6 DEF BitsSet
<1>2. IInv => NoStrayBits
  <2> SUFFICES ASSUME IInv, NEW f \in {filters[i] : i \in DOMAIN filters}, NEW key \in Keys,
                      KeyMayMatch(key, Stored(f))
               PROVE  LET bits == (f.end - f.begin - 1) * 8
                          probes(x) == {BitPos(BloomHash[x], j, bits) :
                                          j \in 0 .. FromChar(dst[f.end]) - 1}
                      IN  probes(key) \subseteq UNION {probes(f.keys[i]) : i \in DOMAIN f.keys}
    BY Zenon DEF NoStrayBits
  <2>1. Intact(f)
    BY DEF IInv
  <2> QED
    BY <1>1, <2>1
<1> QED
  BY <1>2, Invariance, PTL
===============================================================================
