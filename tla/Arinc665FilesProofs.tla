------------------------ MODULE Arinc665FilesProofs -------------------------
(***************************************************************************)
(* Theorems about the files of ARINC 665, for all contents, bytes of any   *)
(* size, check values of any length and any load CRC and damage.           *)
(* What is read where words stand in a file is stated for every field,     *)
(* entry, section and kind of file, from the inside out; the invariant     *)
(* says of which words the stored file consists at each moment.            *)
(***************************************************************************)
EXTENDS Arinc665Files, SequenceTheorems, WellFoundedInduction, TLAPS

-----------------------------------------------------------------------------
(* Induction over numbers.                                                 *)

(* Induction with a set of numbers in place of a predicate.                *)
LEMMA Induction ==
  ASSUME NEW S \in SUBSET Nat, 0 \in S, \A n \in S : n + 1 \in S
  PROVE  \A n \in Nat : n \in S
<1> SUFFICES ASSUME NEW n \in Nat, n \notin S
             PROVE  FALSE
  OBVIOUS
<1>1. PICK m \in Nat \ S : \A k \in Nat \ S : ~ (<<k, m>> \in OpToRel(<, Nat))
  <2>1. Nat \ S \subseteq Nat /\ Nat \ S # {}
    OBVIOUS
  <2> QED BY <2>1, WFMin, NatLessThanWellFounded
<1>2. \A k \in Nat \ S : ~ (k < m)
  BY <1>1 DEF OpToRel
<1>3. m # 0 /\ m - 1 \in S
  BY <1>2
<1> QED BY <1>3

(* A sequence of values, each made from the one before it.                 *)
Steps(n, V, base, step) == n \in Nat /\ base \in V /\ step \in [1 .. n -> [V -> V]]
Follows(f, n, V, base, step) ==
  f \in [0 .. n -> V] /\ f[0] = base /\ \A i \in 1 .. n : f[i] = step[i][f[i - 1]]

LEMMA Recursion ==
  ASSUME NEW n, NEW V, NEW base, NEW step, Steps(n, V, base, step)
  PROVE  \E f : Follows(f, n, V, base, step)
<1> DEFINE S == {k \in Nat : k <= n => \E f : Follows(f, k, V, base, step)}
<1>1. 0 \in S
  <2>1. Follows([i \in 0 .. 0 |-> base], 0, V, base, step)
    BY DEF Steps, Follows
  <2> QED BY <2>1
<1>2. ASSUME NEW k \in S
      PROVE  k + 1 \in S
  <2>1. SUFFICES ASSUME k + 1 <= n
                 PROVE  \E f : Follows(f, k + 1, V, base, step)
    OBVIOUS
  <2>2. k \in Nat /\ k <= n /\ k + 1 \in 1 .. n
    BY <2>1 DEF Steps
  <2>3. PICK f : Follows(f, k, V, base, step)
    BY <2>2
  <2> DEFINE g == [i \in 0 .. k + 1 |-> IF i <= k THEN f[i] ELSE step[k + 1][f[k]]]
  <2>4. g \in [0 .. k + 1 -> V] /\ g[0] = base
    BY <2>2, <2>3 DEF Steps, Follows
  <2>5. \A i \in 1 .. k + 1 : g[i] = step[i][g[i - 1]]
    <3> SUFFICES ASSUME NEW i \in 1 .. k + 1
                 PROVE  g[i] = step[i][g[i - 1]]
      OBVIOUS
    <3>1. CASE i <= k
      <4>1. g[i] = f[i] /\ g[i - 1] = f[i - 1]
        BY <2>2, <3>1
      <4> QED BY <2>3, <3>1, <4>1 DEF Follows
    <3>2. CASE i = k + 1
      <4>1. g[i] = step[k + 1][f[k]] /\ g[i - 1] = f[k]
        BY <2>2, <3>2
      <4> QED BY <3>2, <4>1
    <3> QED BY <2>2, <3>1, <3>2
  <2>6. Follows(g, k + 1, V, base, step)
    <3> HIDE DEF g
    <3> QED BY <2>4, <2>5 DEF Follows
  <2> QED BY <2>6
<1>3. n \in S
  <2> HIDE DEF S
  <2>1. S \in SUBSET Nat
    BY DEF S
  <2> QED BY <1>1, <1>2, <2>1, Induction DEF Steps
<1> QED BY <1>3 DEF Steps

(* Checksum is a sum, made word by word.                                   *)
LEMMA ChecksumSteps ==
  ASSUME NEW words \in Seq(Word), WordBase \in Nat, WordBase > 0
  PROVE  \E sum \in [0 .. Len(words) -> Word] :
           /\ sum[0] = 0
           /\ \A i \in 1 .. Len(words) : sum[i] = (sum[i - 1] + words[i]) % WordBase
           /\ Checksum(words) = sum[Len(words)]
<1> DEFINE n == Len(words)
           step == [i \in 1 .. n |-> [w \in Word |-> (w + words[i]) % WordBase]]
           Next2(f) == [i \in 0 .. n |-> IF i = 0 THEN 0 ELSE (f[i - 1] + words[i]) % WordBase]
           sum == CHOOSE f : f = Next2(f)
<1>1. n \in Nat
  OBVIOUS
<1>2. 0 \in Word
  BY DEF Word
<1>3. step \in [1 .. n -> [Word -> Word]]
  <2>1. \A s, w \in Word : (s + w) % WordBase \in Word
    BY DEF Word
  <2>2. \A i \in 1 .. n : words[i] \in Word
    OBVIOUS
  <2> QED BY <2>1, <2>2
<1>4. \E f : Follows(f, n, Word, 0, step)
  <2> HIDE DEF n, step
  <2> QED BY <1>1, <1>2, <1>3, Recursion DEF Steps
<1>5. PICK f : Follows(f, n, Word, 0, step)
  BY <1>4
<1>6. \A i \in 1 .. n : f[i] = (f[i - 1] + words[i]) % WordBase
  <2> SUFFICES ASSUME NEW i \in 1 .. n
               PROVE  f[i] = (f[i - 1] + words[i]) % WordBase
    OBVIOUS
  <2>1. f[i - 1] \in Word /\ f[i] = step[i][f[i - 1]]
    BY <1>5 DEF Follows
  <2> QED BY <2>1
<1>7. f = Next2(f)
  BY <1>5, <1>6 DEF Follows
<1>8. sum = Next2(sum)
  <2> HIDE DEF Next2
  <2> QED BY <1>7
<1>9. Checksum(words) = sum[n]
  BY DEF Checksum
<1>10. sum[0] = 0 /\ \A i \in 1 .. n : sum[i] = (sum[i - 1] + words[i]) % WordBase
  <2> HIDE DEF sum
  <2> QED BY <1>1, <1>8
<1>11. \A i \in 0 .. n : sum[i] = f[i]
  <2> HIDE DEF sum
  <2> DEFINE S == {i \in Nat : i \in 0 .. n => sum[i] = f[i]}
  <2>1. 0 \in S
    BY <1>5, <1>10 DEF Follows
  <2>2. ASSUME NEW i \in S
        PROVE  i + 1 \in S
    BY <1>6, <1>10
  <2>3. \A i \in Nat : i \in S
    <3> HIDE DEF S
    <3>1. S \in SUBSET Nat
      BY DEF S
    <3> QED BY <2>1, <2>2, <3>1, Induction
  <2> QED BY <2>3
<1> QED
  <2>1. f \in [0 .. n -> Word] /\ f[0] = 0
    BY <1>5 DEF Follows
  <2>2. Checksum(words) = f[n]
    BY <1>1, <1>9, <1>11
  <2> QED BY <1>6, <2>1, <2>2

-----------------------------------------------------------------------------
(* A list of sequences, one after the other.                               *)

(* The first i sequences, one after the other.                             *)
Prefix(ss, i) == FlattenSeq(SubSeq(ss, 1, i))

(* Words that stand in a file from a place on.                             *)
Holds(words, at, e) == at + Len(e) <= Len(words) /\ \A i \in 1 .. Len(e) : words[at + i] = e[i]

LEMMA PrefixFollows ==
  ASSUME NEW V, NEW ss \in Seq(Seq(V)), NEW f \in [0 .. Len(ss) -> Seq(V)], f[0] = <<>>,
         \A i \in 1 .. Len(ss) : f[i] = f[i - 1] \o ss[i], NEW k \in 0 .. Len(ss)
  PROVE  Prefix(ss, k) = f[k]
<1> DEFINE t == SubSeq(ss, 1, k)
<1>1. t \in Seq(Seq(V)) /\ Len(t) = k /\ \A i \in 1 .. k : t[i] = ss[i]
  OBVIOUS
<1>2. CASE k = 0
  <2>1. t = <<>>
    BY <1>1, <1>2
  <2> QED BY <1>2, <2>1 DEF Prefix, FlattenSeq
<1>3. CASE k > 0
  <2> HIDE DEF t
  <2> DEFINE Next2(g) == [i \in 1 .. Len(t) |-> IF i = 1 THEN t[i] ELSE g[i - 1] \o t[i]]
             flatten == CHOOSE g : g = Next2(g)
             g0 == [i \in 1 .. k |-> f[i]]
  <2>1. f[1] = t[1]
    <3>1. 1 \in 1 .. Len(ss) /\ 1 \in 1 .. k /\ 1 - 1 = 0
      BY <1>3
    <3>2. f[1] = f[1 - 1] \o ss[1]
      BY <3>1
    <3>3. ss[1] \in Seq(V)
      BY <3>1
    <3>4. <<>> \o ss[1] = ss[1]
      BY <3>3, ConcatEmptySeq
    <3> QED BY <1>1, <3>1, <3>2, <3>4
  <2>2. g0 = Next2(g0)
    <3> SUFFICES ASSUME NEW i \in 1 .. k
                 PROVE  f[i] = IF i = 1 THEN t[i] ELSE g0[i - 1] \o t[i]
      BY <1>1
    <3>1. CASE i = 1
      BY <2>1, <3>1
    <3>2. CASE i > 1
      <4>1. g0[i - 1] = f[i - 1]
        BY <3>2
      <4>2. i \in 1 .. Len(ss)
        OBVIOUS
      <4>3. f[i] = f[i - 1] \o ss[i]
        BY <4>2
      <4>4. t[i] = ss[i]
        BY <1>1
      <4> HIDE DEF g0
      <4>5. i # 1
        BY <3>2
      <4>6. f[i] = g0[i - 1] \o t[i]
        BY <4>1, <4>3, <4>4, Zenon
      <4> QED BY <4>5, <4>6, Zenon
    <3> QED BY <3>1, <3>2
  <2>3. flatten = Next2(flatten)
    <3> HIDE DEF Next2, g0
    <3> QED BY <2>2
  <2>4. FlattenSeq(t) = flatten[k]
    BY <1>1, <1>3 DEF FlattenSeq
  <2>5. flatten[1] = t[1] /\ \A i \in 2 .. k : flatten[i] = flatten[i - 1] \o t[i]
    <3> HIDE DEF flatten
    <3>1. \A i \in 1 .. k : flatten[i] = IF i = 1 THEN t[i] ELSE flatten[i - 1] \o t[i]
      BY <1>1, <2>3
    <3>2. 1 \in 1 .. k /\ \A i \in 2 .. k : i \in 1 .. k /\ i # 1
      BY <1>3
    <3> QED BY <3>1, <3>2
  <2> HIDE DEF flatten
  <2> DEFINE S == {i \in Nat : i + 1 \in 1 .. k => flatten[i + 1] = f[i + 1]}
  <2>6. 0 \in S
    BY <2>1, <2>5
  <2>7. ASSUME NEW i \in S
        PROVE  i + 1 \in S
    <3>1. CASE i + 2 \in 1 .. k
      <4>1. flatten[i + 1] = f[i + 1] /\ i \in Nat
        BY <3>1
      <4> DEFINE j == i + 2
      <4>2. j \in 2 .. k /\ j \in 1 .. Len(ss) /\ j \in 1 .. k /\ j - 1 = i + 1 /\ j = (i + 1) + 1
        BY <3>1, <4>1
      <4> HIDE DEF j
      <4>3. flatten[j] = flatten[j - 1] \o t[j]
        BY <2>5, <4>2
      <4>4. f[j] = f[j - 1] \o ss[j]
        BY <4>2
      <4>5. flatten[(i + 1) + 1] = f[(i + 1) + 1]
        BY <1>1, <4>1, <4>2, <4>3, <4>4
      <4> QED BY <4>1, <4>5
    <3> QED BY <3>1
  <2>8. \A i \in Nat : i \in S
    <3> HIDE DEF S
    <3>1. S \in SUBSET Nat
      BY DEF S
    <3> QED BY <2>6, <2>7, <3>1, Induction
  <2>9. k - 1 \in Nat /\ (k - 1) + 1 = k /\ k \in 1 .. k
    BY <1>3
  <2>10. flatten[k] = f[k]
    BY <2>8, <2>9
  <2> QED BY <2>4, <2>10 DEF t, Prefix
<1> QED BY <1>2, <1>3

(* FlattenSeq joins one sequence after the other.                          *)
LEMMA Flatten ==
  ASSUME NEW V, NEW ss \in Seq(Seq(V))
  PROVE  /\ \A i \in 0 .. Len(ss) : Prefix(ss, i) \in Seq(V)
         /\ Prefix(ss, 0) = <<>>
         /\ \A i \in 1 .. Len(ss) : Prefix(ss, i) = Prefix(ss, i - 1) \o ss[i]
         /\ FlattenSeq(ss) = Prefix(ss, Len(ss))
<1> DEFINE n == Len(ss)
           VV == Seq(V)
           step == [i \in 1 .. n |-> [s \in VV |-> s \o ss[i]]]
<1>1. n \in Nat /\ <<>> \in VV /\ step \in [1 .. n -> [VV -> VV]]
  <2>1. \A i \in 1 .. n, s \in VV : s \o ss[i] \in VV
    BY ConcatProperties
  <2> HIDE DEF VV
  <2>2. \A i \in 1 .. n : [s \in VV |-> s \o ss[i]] \in [VV -> VV]
    BY <2>1
  <2> QED BY <2>2 DEF VV
<1>2. PICK f : Follows(f, n, VV, <<>>, step)
  <2> HIDE DEF n, VV, step
  <2> QED BY <1>1, Recursion DEF Steps
<1>3. f \in [0 .. n -> Seq(V)] /\ f[0] = <<>> /\ \A i \in 1 .. n : f[i] = f[i - 1] \o ss[i]
  <2>1. f \in [0 .. n -> VV] /\ f[0] = <<>>
    BY <1>2 DEF Follows
  <2>2. ASSUME NEW i \in 1 .. n
        PROVE  f[i] = f[i - 1] \o ss[i]
    <3>1. i - 1 \in 0 .. n
      OBVIOUS
    <3>2. f[i] = step[i][f[i - 1]]
      BY <1>2 DEF Follows
    <3> QED BY <2>1, <3>1, <3>2
  <2> QED BY <2>1, <2>2
<1>4. \A k \in 0 .. n : Prefix(ss, k) = f[k]
  BY <1>3, PrefixFollows
<1>5. SubSeq(ss, 1, n) = ss
  BY SubSeqFull
<1>6. FlattenSeq(ss) = Prefix(ss, n)
  BY <1>5 DEF Prefix
<1>7. \A i \in 1 .. n : i - 1 \in 0 .. n /\ i \in 0 .. n
  OBVIOUS
<1> HIDE DEF step
<1> QED BY <1>3, <1>4, <1>6, <1>7

LEMMA HoldsJoined ==
  ASSUME NEW words, Len(words) \in Nat, NEW at \in Nat, NEW s \in Seq(Word), NEW t \in Seq(Word)
  PROVE  Holds(words, at, s \o t) <=> Holds(words, at, s) /\ Holds(words, at + Len(s), t)
<1>1. Len(s \o t) = Len(s) + Len(t) /\ Len(s) \in Nat /\ Len(t) \in Nat
  OBVIOUS
<1>2. ASSUME Holds(words, at, s \o t)
      PROVE  Holds(words, at, s) /\ Holds(words, at + Len(s), t)
  <2>1. ASSUME NEW i \in 1 .. Len(s)
        PROVE  words[at + i] = s[i]
    <3>1. (s \o t)[i] = s[i] /\ i \in 1 .. Len(s \o t)
      BY <1>1
    <3> QED BY <1>2, <3>1 DEF Holds
  <2>2. ASSUME NEW i \in 1 .. Len(t)
        PROVE  words[at + Len(s) + i] = t[i]
    <3>1. (s \o t)[Len(s) + i] = t[i] /\ Len(s) + i \in 1 .. Len(s \o t)
      BY <1>1
    <3>2. words[at + (Len(s) + i)] = (s \o t)[Len(s) + i]
      BY <1>2, <3>1 DEF Holds
    <3>3. at + (Len(s) + i) = at + Len(s) + i
      BY <1>1
    <3> QED BY <3>1, <3>2, <3>3
  <2> QED BY <1>1, <1>2, <2>1, <2>2 DEF Holds
<1>3. ASSUME Holds(words, at, s), Holds(words, at + Len(s), t)
      PROVE  Holds(words, at, s \o t)
  <2>1. ASSUME NEW i \in 1 .. Len(s) + Len(t)
        PROVE  words[at + i] = (s \o t)[i]
    <3>1. CASE i <= Len(s)
      <4>1. (s \o t)[i] = s[i]
        BY <3>1
      <4> QED BY <1>1, <1>3, <3>1, <4>1 DEF Holds
    <3>2. CASE i > Len(s)
      <4>1. (s \o t)[i] = t[i - Len(s)] /\ i - Len(s) \in 1 .. Len(t)
        BY <1>1, <3>2
      <4>2. words[at + Len(s) + (i - Len(s))] = t[i - Len(s)]
        BY <1>3, <4>1 DEF Holds
      <4>3. at + Len(s) + (i - Len(s)) = at + i
        BY <1>1
      <4> QED BY <4>1, <4>2, <4>3
    <3> QED BY <1>1, <3>1, <3>2
  <2> QED BY <1>1, <1>3, <2>1 DEF Holds
<1> QED BY <1>2, <1>3

(* Where each of the flattened sequences stands.                           *)
LEMMA HoldsFlattened ==
  ASSUME NEW words, Len(words) \in Nat, NEW at \in Nat, NEW ss \in Seq(Seq(Word)),
         Holds(words, at, FlattenSeq(ss))
  PROVE  \A i \in 1 .. Len(ss) : Holds(words, at + Len(Prefix(ss, i - 1)), ss[i])
<1> DEFINE n == Len(ss)
           S == {j \in Nat : j <= n => Holds(words, at, Prefix(ss, n - j))}
<1>1. n \in Nat
  OBVIOUS
<1>2. \A k \in 0 .. n : Prefix(ss, k) \in Seq(Word)
  BY Flatten
<1>3. \A k \in 1 .. n : Prefix(ss, k) = Prefix(ss, k - 1) \o ss[k]
  BY Flatten
<1>4. ASSUME NEW k \in 1 .. n, Holds(words, at, Prefix(ss, k))
      PROVE  Holds(words, at, Prefix(ss, k - 1)) /\ Holds(words, at + Len(Prefix(ss, k - 1)), ss[k])
  <2>1. k - 1 \in 0 .. n /\ ss[k] \in Seq(Word)
    OBVIOUS
  <2>2. Prefix(ss, k - 1) \in Seq(Word)
    BY <1>2, <2>1
  <2>3. Holds(words, at, Prefix(ss, k - 1) \o ss[k])
    BY <1>3, <1>4
  <2> QED BY <2>1, <2>2, <2>3, HoldsJoined
<1>5. 0 \in S
  <2>1. FlattenSeq(ss) = Prefix(ss, n)
    BY Flatten
  <2>2. n - 0 = n
    BY <1>1
  <2> QED BY <2>1, <2>2
<1>6. ASSUME NEW j \in S
      PROVE  j + 1 \in S
  <2>1. CASE j + 1 <= n
    <3>1. Holds(words, at, Prefix(ss, n - j)) /\ n - j \in 1 .. n /\ n - (j + 1) = (n - j) - 1
      BY <1>1, <2>1
    <3>2. Holds(words, at, Prefix(ss, (n - j) - 1))
      BY <1>4, <3>1
    <3> QED BY <3>1, <3>2
  <2> QED BY <2>1
<1>7. \A j \in Nat : j \in S
  <2> HIDE DEF S
  <2>1. S \in SUBSET Nat
    BY DEF S
  <2> QED BY <1>5, <1>6, <2>1, Induction
<1>8. \A k \in 1 .. n : Holds(words, at, Prefix(ss, k))
  <2> SUFFICES ASSUME NEW k \in 1 .. n
               PROVE  Holds(words, at, Prefix(ss, k))
    OBVIOUS
  <2>1. n - k \in S /\ n - k <= n /\ n - (n - k) = k
    BY <1>1, <1>7
  <2> QED BY <2>1
<1> QED BY <1>4, <1>8

-----------------------------------------------------------------------------
(* Numbers of several digits.                                              *)

LEMMA Bases ==
  /\ ByteBase \in Nat /\ ByteBase > 2
  /\ WordBase \in Nat /\ WordBase > 8
  /\ DoubleBase \in Nat /\ DoubleBase > 8
<1>1. ByteBase \in Nat /\ ByteBase > 2
  BY FilesAssumption DEF FilesAssumption
<1>2. \A b \in Nat : b > 2 => b * b \in Nat /\ b * b > 8
  OBVIOUS
<1>3. WordBase \in Nat /\ WordBase > 8
  BY <1>1, <1>2 DEF WordBase
<1> QED BY <1>1, <1>2, <1>3 DEF DoubleBase

(* A number of two digits.                                                 *)
LEMMA Digits ==
  ASSUME NEW b \in Nat, b > 0
  PROVE  /\ \A h \in 0 .. b - 1, l \in 0 .. b - 1 :
              /\ h * b + l \in 0 .. b * b - 1
              /\ (h * b + l) \div b = h /\ (h * b + l) % b = l
         /\ \A d \in 0 .. b * b - 1 :
              /\ d \div b \in 0 .. b - 1 /\ d % b \in 0 .. b - 1
              /\ (d \div b) * b + (d % b) = d
<1>1. ASSUME NEW h \in 0 .. b - 1, NEW l \in 0 .. b - 1
      PROVE  /\ h * b + l \in 0 .. b * b - 1
             /\ (h * b + l) \div b = h /\ (h * b + l) % b = l
  <2>1. h * b + l \in 0 .. b * b - 1
    OBVIOUS
  <2>2. h \in Nat
    OBVIOUS
  <2>3. (h * b + l) \div b = h /\ (h * b + l) % b = l
    BY <2>2
  <2> QED BY <2>1, <2>3
<1>2. ASSUME NEW d \in 0 .. b * b - 1
      PROVE  /\ d \div b \in 0 .. b - 1 /\ d % b \in 0 .. b - 1
             /\ (d \div b) * b + (d % b) = d
  <2>1. d \in Nat /\ d < b * b
    OBVIOUS
  <2>2. d \div b \in Nat /\ d % b \in 0 .. b - 1 /\ (d \div b) * b + (d % b) = d
    BY <2>1
  <2> DEFINE q == d \div b
             r == d % b
  <2>3. q \in Nat /\ r \in Nat /\ q * b + r < b * b
    BY <2>1, <2>2
  <2>4. q < b
    <3> HIDE DEF q, r
    <3>1. \A m \in Nat : m >= b => m * b >= b * b
      OBVIOUS
    <3> QED BY <2>3, <3>1
  <2> QED BY <2>2, <2>3, <2>4
<1> QED BY <1>1, <1>2

LEMMA Remainders ==
  ASSUME NEW w \in Nat, w > 0, NEW a \in 0 .. w - 1, NEW d \in 0 .. w - 1
  PROVE  a % w = a /\ (a + d) % w = IF a + d < w THEN a + d ELSE a + d - w
<1>1. \A x \in Nat : x % w \in 0 .. w - 1 /\ x \div w \in Nat /\ x = w * (x \div w) + (x % w)
  OBVIOUS
<1>2. a % w = a
  OBVIOUS
<1>3. CASE a + d < w
  OBVIOUS
<1>4. CASE a + d >= w
  OBVIOUS
<1> QED BY <1>2, <1>3, <1>4

LEMMA ByteDigits ==
  \A b, c \in Byte : /\ b * ByteBase + c \in Word
                     /\ (b * ByteBase + c) \div ByteBase = b /\ (b * ByteBase + c) % ByteBase = c
BY Bases, Digits DEF Byte, Word, WordBase

LEMMA DoubleDigits ==
  ASSUME NEW d \in DoubleWord
  PROVE  /\ Double(d) \in Seq(Word) /\ Len(Double(d)) = 2
         /\ Double(d)[1] * WordBase + Double(d)[2] = d
         /\ Double(d)[1] = High(d) /\ Double(d)[2] = Low(d)
<1>1. High(d) \in Word /\ Low(d) \in Word /\ High(d) * WordBase + Low(d) = d
  BY Bases, Digits DEF DoubleWord, Word, DoubleBase, High, Low
<1> QED BY <1>1 DEF Double

LEMMA QuadDigits ==
  ASSUME NEW q \in FileLength
  PROVE  /\ q \div DoubleBase \in DoubleWord /\ q % DoubleBase \in DoubleWord
         /\ (q \div DoubleBase) * DoubleBase + (q % DoubleBase) = q
         /\ Quad(q) \in Seq(Word) /\ Len(Quad(q)) = 4
<1>1. q \in 0 .. DoubleBase * DoubleBase - 1
  BY Bases DEF FileLength
<1>2. /\ q \div DoubleBase \in DoubleWord /\ q % DoubleBase \in DoubleWord
      /\ (q \div DoubleBase) * DoubleBase + (q % DoubleBase) = q
  BY <1>1, Bases, Digits DEF DoubleWord
<1>3. /\ Double(q \div DoubleBase) \in Seq(Word) /\ Len(Double(q \div DoubleBase)) = 2
      /\ Double(q % DoubleBase) \in Seq(Word) /\ Len(Double(q % DoubleBase)) = 2
  BY <1>2, DoubleDigits
<1>4. Quad(q) \in Seq(Word) /\ Len(Quad(q)) = 4
  <2> DEFINE h == Double(q \div DoubleBase)
             l == Double(q % DoubleBase)
  <2>1. h \in Seq(Word) /\ l \in Seq(Word) /\ Len(h) = 2 /\ Len(l) = 2
    BY <1>3
  <2> HIDE DEF h, l
  <2>2. h \o l \in Seq(Word) /\ Len(h \o l) = Len(h) + Len(l)
    BY ONLY <2>1, ConcatProperties
  <2>3. Len(h \o l) = 4
    BY ONLY <2>1, <2>2
  <2> QED BY <2>2, <2>3 DEF Quad, h, l
<1> QED BY <1>2, <1>4

-----------------------------------------------------------------------------
(* Strings.                                                                *)

LEMMA Halved ==
  ASSUME NEW n \in Nat
  PROVE  /\ n \div 2 \in Nat /\ n % 2 \in {0, 1} /\ n = 2 * (n \div 2) + (n % 2)
         /\ (n + 1) \div 2 \in Nat /\ 2 * ((n + 1) \div 2) = n + (n % 2)
OBVIOUS

LEMMA PaddedText ==
  ASSUME NEW s \in Text
  PROVE  /\ Padded(s) \in Text /\ Len(Padded(s)) = Len(s) + (Len(s) % 2)
         /\ \A i \in 1 .. Len(s) : Padded(s)[i] = s[i]
         /\ Len(s) % 2 = 1 => Padded(s)[Len(s) + 1] = 0
         /\ Len(Padded(s)) \div 2 = (Len(s) + 1) \div 2
         /\ Len(Padded(s)) % 2 = 0
<1>1. s \in Seq(Byte) /\ Len(s) \in Nat /\ 0 \in Byte
  BY Bases DEF Text, Byte
<1>2. Len(s) % 2 \in {0, 1}
  BY <1>1, Halved
<1>3. CASE Len(s) % 2 = 0
  <2>1. Padded(s) = s
    BY <1>3 DEF Padded
  <2>2. Len(s) \div 2 = (Len(s) + 1) \div 2
    BY <1>1, <1>3
  <2> QED BY <1>1, <1>3, <2>1, <2>2 DEF Text
<1>4. CASE Len(s) % 2 = 1
  <2>1. Padded(s) = Append(s, 0)
    BY <1>4 DEF Padded
  <2>2. /\ Append(s, 0) \in Seq(Byte) /\ Len(Append(s, 0)) = Len(s) + 1
        /\ \A i \in 1 .. Len(s) : Append(s, 0)[i] = s[i]
        /\ Append(s, 0)[Len(s) + 1] = 0
    BY <1>1, AppendProperties
  <2>3. (Len(s) + 1) % 2 = 0
    BY <1>1, <1>4
  <2> QED BY <1>4, <2>1, <2>2, <2>3 DEF Text
<1> QED BY <1>2, <1>3, <1>4

LEMMA PackedWords ==
  ASSUME NEW s \in Text
  PROVE  /\ Packed(s) \in Seq(Word) /\ Len(Packed(s)) = (Len(s) + 1) \div 2
         /\ \A i \in 1 .. (Len(s) + 1) \div 2 :
              Packed(s)[i] = Padded(s)[2 * i - 1] * ByteBase + Padded(s)[2 * i]
<1> DEFINE n == (Len(s) + 1) \div 2
           b == Padded(s)
           w == [i \in 1 .. n |-> b[2 * i - 1] * ByteBase + b[2 * i]]
<1>1. n \in Nat /\ 2 * n = Len(b) /\ b \in Seq(Byte)
  <2>1. Len(s) \in Nat
    BY DEF Text
  <2> QED BY <2>1, Halved, PaddedText DEF Text
<1>2. Packed(s) = w
  BY PaddedText DEF Packed
<1>3. \A i \in 1 .. n : b[2 * i - 1] * ByteBase + b[2 * i] \in Word
  <2> SUFFICES ASSUME NEW i \in 1 .. n
               PROVE  b[2 * i - 1] * ByteBase + b[2 * i] \in Word
    OBVIOUS
  <2> HIDE DEF n, b
  <2>1. 2 * i - 1 \in 1 .. Len(b) /\ 2 * i \in 1 .. Len(b)
    BY <1>1
  <2>2. b[2 * i - 1] \in Byte /\ b[2 * i] \in Byte
    BY <1>1, <2>1, ElementOfSeq
  <2> QED BY <2>2, ByteDigits
<1>4. w \in Seq(Word) /\ Len(w) = n
  <2> HIDE DEF n, b
  <2> QED BY <1>1, <1>3
<1> QED BY <1>2, <1>4

LEMMA UnpackedPacked ==
  ASSUME NEW s \in Text, NEW e, e = Packed(s)
  PROVE  Unpacked(e, Len(s)) = s
<1> DEFINE n == Len(s)
<1>1. n \in Nat /\ s \in Seq(Byte)
  BY DEF Text
<1>2. ASSUME NEW i \in 1 .. n
      PROVE  s[i] = IF i % 2 = 1 THEN e[(i + 1) \div 2] \div ByteBase ELSE e[i \div 2] % ByteBase
  <2>1. i \in Nat /\ i % 2 \in {0, 1}
    OBVIOUS
  <2>2. (n + 1) \div 2 \in Nat /\ 2 * ((n + 1) \div 2) = n + (n % 2) /\ n % 2 \in {0, 1}
    BY <1>1, Halved
  <2>3. Padded(s) \in Seq(Byte) /\ Len(Padded(s)) = n + (n % 2) /\ Padded(s)[i] = s[i]
    BY PaddedText DEF Text
  <2>4. CASE i % 2 = 1
    <3> DEFINE j == (i + 1) \div 2
    <3>1. j \in Nat /\ 2 * j = i + 1
      BY <2>1, <2>4, Halved
    <3>2. j \in 1 .. (n + 1) \div 2 /\ 2 * j - 1 = i /\ i + 1 \in 1 .. Len(Padded(s))
      <4> HIDE DEF j
      <4> QED BY <2>1, <2>2, <2>3, <3>1, <1>1
    <3>3. e[j] = Padded(s)[i] * ByteBase + Padded(s)[i + 1]
      <4> HIDE DEF j
      <4> QED BY <3>1, <3>2, PackedWords
    <3>4. Padded(s)[i] \in Byte /\ Padded(s)[i + 1] \in Byte
      <4>1. i \in 1 .. Len(Padded(s))
        BY <2>2, <2>3
      <4> QED BY <2>3, <3>2, <4>1, ElementOfSeq
    <3> QED BY <2>3, <2>4, <3>3, <3>4, ByteDigits
  <2>5. CASE i % 2 = 0
    <3> DEFINE j == i \div 2
    <3>1. j \in Nat /\ 2 * j = i
      BY <2>1, <2>5, Halved
    <3>2. j \in 1 .. (n + 1) \div 2 /\ i - 1 \in 1 .. Len(Padded(s)) /\ i \in 1 .. Len(Padded(s))
      <4> HIDE DEF j
      <4> QED BY <2>1, <2>2, <2>3, <3>1, <1>1
    <3>3. e[j] = Padded(s)[i - 1] * ByteBase + Padded(s)[i]
      <4> HIDE DEF j
      <4> QED BY <3>1, <3>2, PackedWords
    <3>4. Padded(s)[i - 1] \in Byte /\ Padded(s)[i] \in Byte
      BY <2>3, <3>2, ElementOfSeq
    <3> QED BY <2>3, <2>5, <3>3, <3>4, ByteDigits
  <2> QED BY <2>1, <2>4, <2>5
<1>3. s = [i \in 1 .. n |-> s[i]]
  BY <1>1
<1> QED BY <1>2, <1>3 DEF Unpacked

LEMMA HeldRead ==
  ASSUME NEW words \in Seq(Word), NEW at \in Nat, NEW e \in Seq(Word), Holds(words, at, e)
  PROVE  Read(words, at, Len(e)) = e
<1> DEFINE r == SubSeq(words, at + 1, at + Len(e))
<1>1. \A i \in at + 1 .. at + Len(e) : words[i] \in Word
  BY DEF Holds
<1>2. r \in Seq(Word) /\ Len(r) = Len(e) /\ \A i \in 1 .. Len(e) : r[i] = words[at + i]
  BY <1>1
<1>3. \A i \in 1 .. Len(e) : r[i] = e[i]
  BY <1>2 DEF Holds
<1> HIDE DEF r
<1>4. r = e
  BY <1>2, <1>3, SeqEqual
<1> QED BY <1>4 DEF r, Read

LEMMA EncodedStringWords ==
  ASSUME NEW s \in Text, StringFits(s)
  PROVE  EncodedString(s) \in Seq(Word) /\ Len(EncodedString(s)) = 1 + (Len(s) + 1) \div 2
<1>1. <<Len(s)>> \in Seq(Word) /\ Len(<<Len(s)>>) = 1
  BY DEF StringFits
<1> QED BY <1>1, PackedWords, ConcatProperties DEF EncodedString

(* A string is read as it was written, whatever follows it.                *)
LEMMA StringDecoded ==
  ASSUME NEW words \in Seq(Word), NEW at \in Nat, NEW s \in Text, StringFits(s),
         Holds(words, at, EncodedString(s))
  PROVE  DecodedString(words, at) = Got(s, at + Len(EncodedString(s)))
<1> DEFINE n == Len(s)
           p == Packed(s)
           size == (n + 1) \div 2
<1>1. n \in Nat /\ size \in Nat /\ 2 * size = n + (n % 2)
  <2>1. n \in Nat
    BY DEF Text
  <2> QED BY <2>1, Halved
<1>2. p \in Seq(Word) /\ Len(p) = size /\ Len(EncodedString(s)) = 1 + size
  BY PackedWords, EncodedStringWords
<1>3. <<n>> \in Seq(Word) /\ Len(<<n>>) = 1
  BY DEF StringFits
<1>4. Holds(words, at, <<n>>) /\ Holds(words, at + 1, p)
  <2>1. Len(words) \in Nat
    OBVIOUS
  <2> QED BY <1>2, <1>3, <2>1, HoldsJoined DEF EncodedString
<1>5. words[at + 1] = n /\ Readable(words, at, 1) /\ Readable(words, at + 1, size)
  BY <1>1, <1>2, <1>3, <1>4 DEF Holds, Readable
<1>6. Read(words, at + 1, size) = p
  <2> DEFINE a == at + 1
             q == p
             l == size
  <2>1. words \in Seq(Word) /\ a \in Nat /\ q \in Seq(Word) /\ Len(q) = l /\ Holds(words, a, q)
    BY <1>2, <1>4
  <2> HIDE DEF a, q, l
  <2>2. Read(words, a, l) = q
    BY ONLY <2>1, HeldRead
  <2> QED BY <2>2 DEF a, q, l
<1>7. Unpacked(p, n) = s
  BY UnpackedPacked
<1>8. ASSUME n % 2 = 1
      PROVE  words[at + 1 + size] % ByteBase = 0
  <2>1. size \in 1 .. size /\ 2 * size - 1 = n /\ 2 * size = n + 1 /\ n \in 1 .. n
    <3> HIDE DEF size, n
    <3> QED BY <1>1, <1>8
  <2>2. words[at + 1 + size] = p[size]
    <3> HIDE DEF size, n, p
    <3> QED BY <1>2, <1>4, <2>1 DEF Holds
  <2>3. p[size] = Padded(s)[n] * ByteBase + Padded(s)[n + 1]
    <3>1. p[size] = Padded(s)[2 * size - 1] * ByteBase + Padded(s)[2 * size]
      BY <2>1, PackedWords
    <3> QED BY <2>1, <3>1
  <2>4. Padded(s)[n + 1] = 0 /\ Padded(s)[n] \in Byte /\ 0 \in Byte
    <3>1. Padded(s)[n] = s[n] /\ s \in Seq(Byte)
      BY <2>1, PaddedText DEF Text
    <3>2. s[n] \in Byte
      BY <2>1, <3>1, ElementOfSeq
    <3> QED BY <1>8, <3>1, <3>2, PaddedText, Bases DEF Byte
  <2> QED BY <2>2, <2>3, <2>4, ByteDigits
<1>9. at + 1 + size = at + Len(EncodedString(s))
  BY <1>1, <1>2
<1> HIDE DEF size, n, p
<1> QED BY <1>5, <1>6, <1>7, <1>8, <1>9 DEF DecodedString, size

-----------------------------------------------------------------------------
(* Single fields.                                                          *)

LEMMA GotFields ==
  ASSUME NEW value, NEW at
  PROVE  Got(value, at).ok /\ Got(value, at).value = value /\ Got(value, at).at = at
BY DEF Got

LEMMA WordDecoded ==
  ASSUME NEW words \in Seq(Word), NEW at \in Nat, NEW w \in Word, Holds(words, at, <<w>>)
  PROVE  /\ DecodedWord(words, at) = Got(w, at + 1)
         /\ w \in MediumNumber => DecodedMember(words, at) = Got(w, at + 1)
<1>1. Len(<<w>>) = 1 /\ <<w>>[1] = w
  OBVIOUS
<1>2. words[at + 1] = w /\ Readable(words, at, 1)
  BY <1>1 DEF Holds, Readable
<1> QED BY <1>2 DEF DecodedWord, DecodedMember

LEMMA DoubleRead ==
  ASSUME NEW words \in Seq(Word), NEW at \in Nat, NEW d \in DoubleWord, Holds(words, at, Double(d))
  PROVE  Readable(words, at, 2) /\ Pointer(words, at) = d
<1>1. words[at + 1] = Double(d)[1] /\ words[at + 2] = Double(d)[2] /\ at + 2 <= Len(words)
  BY DoubleDigits DEF Holds
<1> QED BY <1>1, DoubleDigits DEF Readable, Pointer

LEMMA DoubleDecoded ==
  ASSUME NEW words \in Seq(Word), NEW at \in Nat, NEW d \in DoubleWord, Holds(words, at, Double(d))
  PROVE  DecodedDouble(words, at) = Got(d, at + 2)
BY DoubleRead DEF DecodedDouble

LEMMA QuadDecoded ==
  ASSUME NEW words \in Seq(Word), NEW at \in Nat, NEW q \in FileLength, Holds(words, at, Quad(q))
  PROVE  DecodedQuad(words, at) = Got(q, at + 4)
<1> DEFINE h == q \div DoubleBase
           l == q % DoubleBase
<1>1. h \in DoubleWord /\ l \in DoubleWord /\ h * DoubleBase + l = q
  BY QuadDigits
<1> HIDE DEF h, l
<1>2. /\ Double(h) \in Seq(Word) /\ Len(Double(h)) = 2
      /\ Double(l) \in Seq(Word) /\ Len(Double(l)) = 2
  BY <1>1, DoubleDigits
<1>3. Quad(q) = Double(h) \o Double(l)
  BY DEF Quad, h, l
<1>4. Holds(words, at, Double(h)) /\ Holds(words, at + 2, Double(l))
  <2>1. Len(words) \in Nat
    OBVIOUS
  <2> QED BY <1>2, <1>3, <2>1, HoldsJoined
<1>5. Pointer(words, at) = h /\ Pointer(words, at + 2) = l /\ Readable(words, at + 2, 2)
  BY <1>1, <1>4, DoubleRead
<1>6. Readable(words, at, 4)
  BY <1>5 DEF Readable
<1> QED BY <1>1, <1>5, <1>6 DEF DecodedQuad

LEMMA CheckValueWordsTyped ==
  ASSUME NEW c \in CheckValue
  PROVE  /\ c.type \in CheckType /\ CheckSize[c.type] \in Nat
         /\ c = [type |-> c.type, value |-> c.value]
         /\ c.value \in Seq(Word) /\ Len(c.value) = CheckSize[c.type]
         /\ c.type = NotUsed => c = NoCheckValue /\ EncodedCheckValue(c) = <<0>>
         /\ c.type # NotUsed =>
              EncodedCheckValue(c) = <<4 + 2 * CheckSize[c.type], c.type>> \o c.value
         /\ EncodedCheckValue(c) \in Seq(Word) /\ Len(EncodedCheckValue(c)) \in Nat \ {0}
<1>1. PICK t \in CheckType : c \in [type : {t}, value : [1 .. CheckSize[t] -> Word]]
  BY DEF CheckValue
<1>2. c.type = t /\ c.value \in [1 .. CheckSize[t] -> Word] /\ c = [type |-> t, value |-> c.value]
  BY <1>1
<1>3. CheckSize[t] \in Nat /\ 4 + 2 * CheckSize[t] \in Word /\ t \in Word
  BY FilesAssumption DEF FilesAssumption
<1>4. c.value \in Seq(Word) /\ Len(c.value) = CheckSize[t]
  BY <1>2, <1>3
<1>5. CASE t = NotUsed
  <2>1. c.value = <<>>
    BY <1>4, <1>5, EmptySeq, FilesAssumption DEF FilesAssumption
  <2>2. EncodedCheckValue(c) = <<0>>
    BY <1>2, <1>5 DEF EncodedCheckValue
  <2>3. <<0>> \in Seq(Word) /\ Len(<<0>>) = 1
    BY Bases DEF Word
  <2>4. c = NoCheckValue
    BY <1>2, <1>5, <2>1 DEF NoCheckValue
  <2> QED BY <1>2, <1>3, <1>4, <1>5, <2>2, <2>3, <2>4
<1>6. CASE t # NotUsed
  <2> DEFINE h == <<4 + 2 * CheckSize[t], t>>
             v == c.value
  <2>1. EncodedCheckValue(c) = h \o v
    BY <1>2, <1>6 DEF EncodedCheckValue
  <2>2. h \in Seq(Word) /\ Len(h) = 2 /\ v \in Seq(Word) /\ Len(v) = CheckSize[t]
    BY <1>3, <1>4
  <2> HIDE DEF h, v
  <2>3. h \o v \in Seq(Word) /\ Len(h \o v) = 2 + CheckSize[t]
    <3>1. h \o v \in Seq(Word) /\ Len(h \o v) = Len(h) + Len(v)
      BY <2>2, ConcatProperties
    <3> QED BY <2>2, <3>1
  <2>4. 2 + CheckSize[t] \in Nat \ {0}
    BY <1>3
  <2> QED BY <1>2, <1>3, <1>4, <1>6, <2>1, <2>3, <2>4 DEF h, v
<1> QED BY <1>5, <1>6

(* So is a check value of any type.                                        *)
LEMMA CheckValueDecoded ==
  ASSUME NEW words \in Seq(Word), NEW at \in Nat, NEW c \in CheckValue,
         Holds(words, at, EncodedCheckValue(c))
  PROVE  DecodedCheckValue(words, at) = Got(c, at + Len(EncodedCheckValue(c)))
<1> DEFINE e == EncodedCheckValue(c)
           size == CheckSize[c.type]
<1>1. CASE c.type = NotUsed
  <2>1. e = <<0>> /\ c = NoCheckValue
    BY <1>1, CheckValueWordsTyped
  <2>3. Len(e) = 1 /\ e[1] = 0
    <3>1. Len(<<0>>) = 1 /\ <<0>>[1] = 0
      OBVIOUS
    <3> HIDE DEF e
    <3> QED BY <2>1, <3>1
  <2>2. words[at + 1] = 0 /\ Readable(words, at, 1)
    <3> HIDE DEF e
    <3>1. Holds(words, at, e)
      BY DEF e
    <3> QED BY <2>3, <3>1 DEF Holds, Readable
  <2>4. at + 1 = at + Len(e)
    BY <2>3
  <2> QED BY <2>1, <2>2, <2>4 DEF DecodedCheckValue
<1>2. CASE c.type # NotUsed
  <2> DEFINE t == c.type
             v == c.value
             a == 4 + 2 * size
             h == <<a, t>>
  <2>1. e = h \o v /\ size \in Nat /\ t \in CheckType /\ v \in Seq(Word) /\ Len(v) = size
        /\ c = [type |-> t, value |-> v]
    BY <1>2, CheckValueWordsTyped
  <2>2. a \in Word /\ t \in Word /\ a >= 4 /\ a # 0
    <3>1. t \in CheckType => a \in Word /\ t \in Word
      BY FilesAssumption DEF FilesAssumption
    <3> QED BY <2>1, <3>1
  <2>3. size = CheckSize[t] /\ a = 4 + 2 * CheckSize[t]
    OBVIOUS
  <2> HIDE DEF t, v, a, size
  <2>4. h \in Seq(Word) /\ Len(h) = 2 /\ h[1] = a /\ h[2] = t
    BY <2>2
  <2> HIDE DEF h, e
  <2>5. Holds(words, at, h) /\ Holds(words, at + 2, v) /\ Len(e) = 2 + size
    <3>1. Len(words) \in Nat
      OBVIOUS
    <3>2. Holds(words, at, h \o v)
      BY <2>1 DEF e
    <3>3. Len(h \o v) = Len(h) + Len(v)
      BY <2>1, <2>4, ConcatProperties
    <3> QED BY <2>1, <2>4, <3>1, <3>2, <3>3, HoldsJoined
  <2>6. words[at + 1] = a /\ words[at + 2] = t /\ Readable(words, at, 1) /\ Readable(words, at, 2)
    BY <2>4, <2>5 DEF Holds, Readable
  <2>7. Readable(words, at + 2, size)
    BY <2>1, <2>5 DEF Holds, Readable
  <2>8. Read(words, at + 2, size) = v
    BY <2>1, <2>5, HeldRead
  <2>9. at + 2 + size = at + Len(e)
    BY <2>1, <2>5
  <2>10. DecodedCheckValue(words, at) = Got([type |-> t, value |-> v], at + 2 + size)
    BY <2>1, <2>2, <2>3, <2>6, <2>7, <2>8 DEF DecodedCheckValue
  <2> QED BY <2>1, <2>9, <2>10 DEF e
<1> QED BY <1>1, <1>2

-----------------------------------------------------------------------------
(* Entries after their number.                                             *)

LEMMA ManyWords ==
  ASSUME NEW ents \in Seq(Seq(Word)), CountFits(ents)
  PROVE  /\ EncodedMany(ents) \in Seq(Word)
         /\ FlattenSeq(ents) \in Seq(Word)
         /\ Len(EncodedMany(ents)) = 1 + Len(FlattenSeq(ents))
<1>1. <<Len(ents)>> \in Seq(Word) /\ Len(<<Len(ents)>>) = 1
  BY DEF CountFits
<1>2. FlattenSeq(ents) \in Seq(Word)
  <2>1. Len(ents) \in 0 .. Len(ents)
    OBVIOUS
  <2> QED BY <2>1, Flatten
<1> QED BY <1>1, <1>2, ConcatProperties DEF EncodedMany

LEMMA ManyHeld ==
  ASSUME NEW words \in Seq(Word), NEW at \in Nat, NEW ents \in Seq(Seq(Word)), CountFits(ents),
         Holds(words, at, EncodedMany(ents))
  PROVE  /\ words[at + 1] = Len(ents) /\ Readable(words, at, 1)
         /\ \A i \in 0 .. Len(ents) :
              Len(Prefix(ents, i)) \in Nat /\ at + 1 + Len(Prefix(ents, i)) \in Places(words)
         /\ \A i \in 1 .. Len(ents) :
              /\ Holds(words, at + 1 + Len(Prefix(ents, i - 1)), ents[i])
              /\ Len(Prefix(ents, i)) = Len(Prefix(ents, i - 1)) + Len(ents[i])
              /\ Len(ents[i]) \in Nat
         /\ Prefix(ents, 0) = <<>>
         /\ Len(EncodedMany(ents)) = 1 + Len(Prefix(ents, Len(ents)))
<1> DEFINE n == Len(ents)
<1>1. n \in Nat /\ Len(words) \in Nat
  OBVIOUS
<1>2. <<n>> \in Seq(Word) /\ Len(<<n>>) = 1 /\ <<n>>[1] = n
  BY DEF CountFits
<1>3. FlattenSeq(ents) \in Seq(Word) /\ Len(EncodedMany(ents)) = 1 + Len(FlattenSeq(ents))
  BY ManyWords
<1>4. Holds(words, at, <<n>>) /\ Holds(words, at + 1, FlattenSeq(ents))
  BY <1>1, <1>2, <1>3, HoldsJoined DEF EncodedMany
<1>5. words[at + 1] = n /\ Readable(words, at, 1)
  BY <1>2, <1>4 DEF Holds, Readable
<1>6. \A i \in 1 .. n : Holds(words, at + 1 + Len(Prefix(ents, i - 1)), ents[i])
  <2>1. at + 1 \in Nat /\ Holds(words, at + 1, FlattenSeq(ents))
    BY <1>4
  <2> QED BY <1>1, <2>1, HoldsFlattened
<1>7. /\ \A i \in 0 .. n : Prefix(ents, i) \in Seq(Word)
      /\ Prefix(ents, 0) = <<>> /\ FlattenSeq(ents) = Prefix(ents, n)
      /\ \A i \in 1 .. n : Prefix(ents, i) = Prefix(ents, i - 1) \o ents[i]
  BY Flatten
<1>8. \A i \in 0 .. n : Len(Prefix(ents, i)) \in Nat
  BY <1>7
<1>9. ASSUME NEW i \in 1 .. n
      PROVE  /\ Len(Prefix(ents, i)) = Len(Prefix(ents, i - 1)) + Len(ents[i])
             /\ Len(ents[i]) \in Nat
  <2>1. i - 1 \in 0 .. n /\ ents[i] \in Seq(Word)
    OBVIOUS
  <2>2. Prefix(ents, i - 1) \in Seq(Word) /\ Prefix(ents, i) = Prefix(ents, i - 1) \o ents[i]
    BY <1>7, <2>1
  <2> QED BY <2>1, <2>2, ConcatProperties
<1>10. at + 1 + Len(Prefix(ents, n)) <= Len(words)
  BY <1>4, <1>7 DEF Holds
<1>11. ASSUME NEW i \in 0 .. n
       PROVE  at + 1 + Len(Prefix(ents, i)) \in Places(words)
  <2>1. CASE i = n
    <3>1. Len(Prefix(ents, n)) \in Nat
      BY <1>1, <1>8
    <3> QED BY <1>1, <1>10, <2>1, <3>1 DEF Places
  <2>2. CASE i < n
    <3>1. i + 1 \in 1 .. n /\ (i + 1) - 1 = i
      BY <2>2
    <3>2. Holds(words, at + 1 + Len(Prefix(ents, i)), ents[i + 1]) /\ Len(ents[i + 1]) \in Nat
      BY <1>6, <1>9, <3>1
    <3> DEFINE p == Len(Prefix(ents, i))
               l == Len(ents[i + 1])
    <3>4. at + 1 + p + l <= Len(words) /\ p \in Nat /\ l \in Nat
      BY <1>8, <3>2 DEF Holds
    <3>3. at + 1 + p <= Len(words) /\ p \in Nat
      <4> HIDE DEF p, l
      <4> QED BY <1>1, <3>4
    <3> QED BY <1>1, <3>3 DEF Places
  <2> QED BY <1>1, <2>1, <2>2
<1> QED BY <1>3, <1>5, <1>6, <1>7, <1>8, <1>9, <1>11

(* Entries are counted and read one after the other.                       *)
LEMMA ManyDecoded ==
  ASSUME NEW words \in Seq(Word), NEW at \in Nat, NEW ents \in Seq(Seq(Word)), CountFits(ents),
         Holds(words, at, EncodedMany(ents)),
         NEW V, NEW values \in Seq(V), Len(values) = Len(ents), NEW decoded,
         \A i \in 1 .. Len(ents), p \in Places(words) :
           Holds(words, p, ents[i]) => decoded[p] = Got(values[i], p + Len(ents[i]))
  PROVE  DecodedMany(decoded, words, at) = Got(values, at + Len(EncodedMany(ents)))
<1> DEFINE n == Len(ents)
           Place(i) == at + 1 + Len(Prefix(ents, i))
           Next2(f) ==
             [i \in 0 .. words[at + 1] |->
                IF i = 0 THEN Got(<<>>, at + 1)
                ELSE LET former == f[i - 1]
                         entry == decoded[former.at]
                     IN IF former.ok /\ entry.ok
                        THEN Got(Append(former.value, entry.value), entry.at) ELSE Failed]
           g == [i \in 0 .. n |-> Got(SubSeq(values, 1, i), Place(i))]
           entries == CHOOSE f : f = Next2(f)
<1>1. /\ n \in Nat /\ words[at + 1] = n /\ Readable(words, at, 1) /\ Prefix(ents, 0) = <<>>
      /\ Len(EncodedMany(ents)) = 1 + Len(Prefix(ents, n))
  <2>1. n \in Nat
    OBVIOUS
  <2> QED BY <2>1, ManyHeld
<1>0. /\ \A i \in 0 .. n : Len(Prefix(ents, i)) \in Nat /\ Place(i) \in Places(words)
      /\ \A i \in 1 .. n :
           /\ Holds(words, Place(i - 1), ents[i])
           /\ Len(Prefix(ents, i)) = Len(Prefix(ents, i - 1)) + Len(ents[i])
           /\ Len(ents[i]) \in Nat
  BY ManyHeld
<1>2. Place(0) = at + 1
  BY <1>1
<1>3. ASSUME NEW i \in 1 .. n
      PROVE  /\ decoded[Place(i - 1)] = Got(values[i], Place(i))
             /\ Append(SubSeq(values, 1, i - 1), values[i]) = SubSeq(values, 1, i)
  <2>0. i - 1 \in 0 .. n
    OBVIOUS
  <2>1. Place(i - 1) \in Places(words) /\ Holds(words, Place(i - 1), ents[i])
    <3> HIDE DEF Place
    <3> QED BY <1>0, <2>0
  <2>2. /\ Len(Prefix(ents, i)) = Len(Prefix(ents, i - 1)) + Len(ents[i])
        /\ Len(Prefix(ents, i - 1)) \in Nat /\ Len(ents[i]) \in Nat
    BY <1>0, <2>0
  <2>3. Place(i - 1) + Len(ents[i]) = Place(i)
    <3> DEFINE p == Len(Prefix(ents, i - 1))
               l == Len(ents[i])
               q == Len(Prefix(ents, i))
    <3>1. q = p + l /\ p \in Nat /\ l \in Nat
      BY <2>2
    <3>2. Place(i - 1) = at + 1 + p /\ Place(i) = at + 1 + q
      OBVIOUS
    <3> HIDE DEF p, l, q, Place
    <3>3. at + 1 + p + l = at + 1 + q
      BY <3>1
    <3> QED BY <3>2, <3>3 DEF l
  <2>4. decoded[Place(i - 1)] = Got(values[i], Place(i - 1) + Len(ents[i]))
    <3> HIDE DEF Place
    <3> QED BY <2>1
  <2>5. Append(SubSeq(values, 1, i - 1), values[i]) = SubSeq(values, 1, i)
    OBVIOUS
  <2> HIDE DEF Place
  <2> QED BY <2>3, <2>4, <2>5
<1> HIDE DEF Place
<1>4. g[0] = Got(<<>>, at + 1) /\ \A i \in 0 .. n : g[i] = Got(SubSeq(values, 1, i), Place(i))
  <2>1. SubSeq(values, 1, 0) = <<>>
    OBVIOUS
  <2>2. \A i \in 0 .. n : g[i] = Got(SubSeq(values, 1, i), Place(i))
    OBVIOUS
  <2>3. 0 \in 0 .. n
    BY <1>1
  <2> HIDE DEF g
  <2> QED BY <1>2, <2>1, <2>2, <2>3
<1>5. ASSUME NEW i \in 1 .. n, NEW f, f[i - 1] = g[i - 1]
      PROVE  Next2(f)[i] = g[i]
  <2>1. i - 1 \in 0 .. n /\ i \in 0 .. n /\ i # 0
    OBVIOUS
  <2>2. f[i - 1] = Got(SubSeq(values, 1, i - 1), Place(i - 1))
    BY <1>4, <1>5, <2>1
  <2>3. /\ f[i - 1].ok /\ f[i - 1].at = Place(i - 1) /\ f[i - 1].value = SubSeq(values, 1, i - 1)
    BY <2>2 DEF Got
  <2>4. /\ decoded[f[i - 1].at].ok
        /\ decoded[f[i - 1].at].value = values[i] /\ decoded[f[i - 1].at].at = Place(i)
    <3>1. decoded[f[i - 1].at] = Got(values[i], Place(i))
      BY <1>3, <2>3
    <3> QED BY <3>1 DEF Got
  <2>5. Next2(f)[i] = Got(Append(SubSeq(values, 1, i - 1), values[i]), Place(i))
    BY <1>1, <2>1, <2>3, <2>4
  <2> HIDE DEF Next2, g
  <2> QED BY <1>3, <1>4, <2>1, <2>5
<1>6. g = Next2(g)
  <2>1. \A i \in 0 .. n : g[i] = Next2(g)[i]
    <3> SUFFICES ASSUME NEW i \in 0 .. n
                 PROVE  g[i] = Next2(g)[i]
      OBVIOUS
    <3>1. CASE i = 0
      <4>1. Next2(g)[i] = Got(<<>>, at + 1)
        BY <1>1, <3>1
      <4> HIDE DEF Next2, g
      <4> QED BY <1>4, <3>1, <4>1
    <3>2. CASE i # 0
      <4> HIDE DEF Next2, g
      <4> QED BY <1>5, <3>2
    <3> QED BY <3>1, <3>2
  <2>2. g = [i \in 0 .. n |-> g[i]]
    OBVIOUS
  <2>3. Next2(g) = [i \in 0 .. n |-> Next2(g)[i]]
    <3>1. DOMAIN Next2(g) = 0 .. n
      BY <1>1
    <3>2. Next2(g) = [i \in DOMAIN Next2(g) |-> Next2(g)[i]]
      OBVIOUS
    <3> HIDE DEF Next2, g
    <3> QED BY <3>1, <3>2
  <2> HIDE DEF Next2, g
  <2> QED BY <2>1, <2>2, <2>3
<1>7. entries = Next2(entries)
  <2> HIDE DEF Next2, g
  <2> QED BY <1>6
<1>8. DecodedMany(decoded, words, at) = entries[n]
  BY <1>1 DEF DecodedMany
<1>9. entries[0] = g[0]
  <2>1. Next2(entries)[0] = Got(<<>>, at + 1)
    <3> HIDE DEF entries
    <3> QED BY <1>1
  <2> HIDE DEF Next2, g, entries
  <2> QED BY <1>4, <1>7, <2>1
<1>10. \A i \in 0 .. n : entries[i] = g[i]
  <2> HIDE DEF Next2, g, entries
  <2> DEFINE S == {i \in Nat : i <= n => entries[i] = g[i]}
  <2>1. 0 \in S
    BY <1>9
  <2>2. ASSUME NEW i \in S
        PROVE  i + 1 \in S
    <3>1. CASE i + 1 <= n
      <4>0. i \in Nat /\ n \in Nat /\ (i <= n => entries[i] = g[i])
        OBVIOUS
      <4>3. i <= n /\ i + 1 \in 1 .. n /\ (i + 1) - 1 = i
        BY <3>1, <4>0
      <4>1. entries[i] = g[i] /\ i + 1 \in 1 .. n /\ (i + 1) - 1 = i
        BY <4>0, <4>3
      <4>2. Next2(entries)[i + 1] = g[i + 1]
        BY <1>5, <4>1
      <4> QED BY <1>7, <4>2
    <3> QED BY <3>1
  <2>3. \A i \in Nat : i \in S
    <3> HIDE DEF S
    <3>1. S \in SUBSET Nat
      BY DEF S
    <3> QED BY <2>1, <2>2, <3>1, Induction
  <2> QED BY <2>3
<1>11. g[n] = Got(values, at + Len(EncodedMany(ents)))
  <2>1. SubSeq(values, 1, n) = values
    BY SubSeqFull
  <2>2. Place(n) = at + Len(EncodedMany(ents))
    <3>1. n \in 0 .. n
      BY <1>1
    <3>2. Len(Prefix(ents, n)) \in Nat
      BY <1>0, <3>1
    <3> QED BY <1>1, <3>2 DEF Place
  <2>3. n \in 0 .. n
    BY <1>1
  <2> HIDE DEF g
  <2> QED BY <1>4, <2>1, <2>2, <2>3
<1> HIDE DEF g, entries
<1>12. n \in 0 .. n
  BY <1>1
<1> QED BY <1>8, <1>10, <1>11, <1>12

-----------------------------------------------------------------------------
(* Lists of strings.                                                       *)

LEMMA StringsWords ==
  ASSUME NEW ss \in Seq(Text), StringsFit(ss)
  PROVE  LET ents == [i \in DOMAIN ss |-> EncodedString(ss[i])]
         IN /\ ents \in Seq(Seq(Word)) /\ Len(ents) = Len(ss) /\ CountFits(ents)
            /\ \A i \in 1 .. Len(ss) :
                 ents[i] = EncodedString(ss[i]) /\ ss[i] \in Text /\ StringFits(ss[i])
            /\ EncodedStrings(ss) = EncodedMany(ents)
            /\ EncodedStrings(ss) \in Seq(Word)
<1> DEFINE n == Len(ss)
           ents == [i \in 1 .. n |-> EncodedString(ss[i])]
<1>1. n \in Nat /\ DOMAIN ss = 1 .. n
  OBVIOUS
<1>2. ASSUME NEW i \in 1 .. n
      PROVE  ss[i] \in Text /\ StringFits(ss[i]) /\ EncodedString(ss[i]) \in Seq(Word)
  <2>1. ss[i] \in Text /\ StringFits(ss[i])
    BY DEF StringsFit
  <2> QED BY <2>1, EncodedStringWords
<1>3. ents \in Seq(Seq(Word)) /\ Len(ents) = n /\ \A i \in 1 .. n : ents[i] = EncodedString(ss[i])
  <2> DEFINE W == Seq(Word)
  <2>1. \A i \in 1 .. n : EncodedString(ss[i]) \in W
    BY <1>2
  <2> HIDE DEF W
  <2>2. ents \in Seq(W) /\ Len(ents) = n
    BY <1>1, <2>1
  <2> QED BY <2>2 DEF W
<1>4. ents = [i \in DOMAIN ss |-> EncodedString(ss[i])]
  BY <1>1
<1>5. EncodedStrings(ss) = EncodedMany(ents)
  BY <1>4 DEF EncodedStrings
<1> HIDE DEF ents
<1>6. CountFits(ents)
  BY <1>3 DEF CountFits, StringsFit
<1>7. EncodedMany(ents) \in Seq(Word)
  BY <1>3, <1>6, ManyWords
<1> QED BY <1>2, <1>3, <1>4, <1>5, <1>6, <1>7

LEMMA StringsDecoded ==
  ASSUME NEW words \in Seq(Word), NEW at \in Nat, NEW ss \in Seq(Text), StringsFit(ss),
         Holds(words, at, EncodedStrings(ss))
  PROVE  DecodedStrings(words, at) = Got(ss, at + Len(EncodedStrings(ss)))
<1> DEFINE ents == [i \in DOMAIN ss |-> EncodedString(ss[i])]
           decoded == [p \in Places(words) |-> DecodedString(words, p)]
<1>1. /\ ents \in Seq(Seq(Word)) /\ Len(ents) = Len(ss) /\ CountFits(ents)
      /\ \A i \in 1 .. Len(ss) :
           ents[i] = EncodedString(ss[i]) /\ ss[i] \in Text /\ StringFits(ss[i])
      /\ EncodedStrings(ss) = EncodedMany(ents)
  BY StringsWords
<1> HIDE DEF ents
<1>2. ASSUME NEW i \in 1 .. Len(ents), NEW p \in Places(words), Holds(words, p, ents[i])
      PROVE  decoded[p] = Got(ss[i], p + Len(ents[i]))
  <2>1. p \in Nat /\ decoded[p] = DecodedString(words, p)
    BY DEF Places
  <2>2. ents[i] = EncodedString(ss[i]) /\ ss[i] \in Text /\ StringFits(ss[i])
    BY <1>1
  <2> DEFINE s == ss[i]
  <2>3. s \in Text /\ StringFits(s) /\ Holds(words, p, EncodedString(s))
    BY <1>2, <2>2
  <2> HIDE DEF decoded, s
  <2>4. DecodedString(words, p) = Got(s, p + Len(EncodedString(s)))
    BY <2>1, <2>3, StringDecoded
  <2> QED BY <2>1, <2>2, <2>4 DEF s
<1>3. DecodedStrings(words, at) = DecodedMany(decoded, words, at)
  BY DEF DecodedStrings
<1> HIDE DEF decoded
<1>4. Holds(words, at, EncodedMany(ents))
  BY <1>1
<1>5. DecodedMany(decoded, words, at) = Got(ss, at + Len(EncodedMany(ents)))
  BY <1>1, <1>2, <1>4, ManyDecoded
<1> QED BY <1>1, <1>3, <1>5

-----------------------------------------------------------------------------
(* Entries with pointers to the next one.                                  *)

Linked(entries) ==
  [i \in DOMAIN entries |->
     <<IF i = Len(entries) THEN 0 ELSE NextPointer(Len(entries[i]))>> \o entries[i]]

LEMMA FittingNext ==
  ASSUME NEW n \in Nat, n + 1 \in Word
  PROVE  NextPointer(n) = n + 1
<1>1. WordBase \in Nat /\ WordBase > 0 /\ n + 1 \in 0 .. WordBase - 1 /\ 0 \in 0 .. WordBase - 1
  BY Bases DEF Word
<1> QED BY <1>1, Remainders DEF NextPointer

LEMMA LinkedWords ==
  ASSUME NEW ents \in Seq(Seq(Word))
  PROVE  /\ Linked(ents) \in Seq(Seq(Word)) /\ Len(Linked(ents)) = Len(ents)
         /\ EncodedList(ents) = EncodedMany(Linked(ents))
         /\ \A i \in 1 .. Len(ents) :
              /\ Linked(ents)[i] =
                   <<IF i = Len(ents) THEN 0 ELSE NextPointer(Len(ents[i]))>> \o ents[i]
              /\ (IF i = Len(ents) THEN 0 ELSE NextPointer(Len(ents[i]))) \in Word
<1> DEFINE n == Len(ents)
           next(i) == IF i = n THEN 0 ELSE NextPointer(Len(ents[i]))
           W == Seq(Word)
<1>1. n \in Nat /\ DOMAIN ents = 1 .. n /\ \A i \in 1 .. n : ents[i] \in Seq(Word)
  OBVIOUS
<1>2. ASSUME NEW i \in 1 .. n
      PROVE  next(i) \in Word /\ <<next(i)>> \o ents[i] \in Seq(Word)
  <2>1. Len(ents[i]) \in Nat /\ ents[i] \in Seq(Word)
    BY <1>1
  <2>2. \A m \in Nat : NextPointer(m) \in Word
    BY Bases DEF NextPointer, Word
  <2>3. 0 \in Word
    BY Bases DEF Word
  <2>4. next(i) \in Word
    BY <2>1, <2>2, <2>3
  <2> HIDE DEF next
  <2>5. <<next(i)>> \in Seq(Word)
    BY <2>4
  <2> QED BY <2>1, <2>4, <2>5, ConcatProperties
<1> HIDE DEF next
<1>3. Linked(ents) = [i \in 1 .. n |-> <<next(i)>> \o ents[i]]
  BY <1>1 DEF Linked, next
<1>4. Linked(ents) \in Seq(W) /\ Len(Linked(ents)) = n
  <2>1. \A i \in 1 .. n : <<next(i)>> \o ents[i] \in W
    BY <1>2
  <2> HIDE DEF W
  <2> QED BY <1>1, <1>3, <2>1
<1>5. EncodedList(ents) = EncodedMany(Linked(ents))
  BY DEF EncodedList, Linked
<1>6. \A i \in 1 .. n : Linked(ents)[i] = <<next(i)>> \o ents[i]
  BY <1>3
<1> QED BY <1>2, <1>4, <1>5, <1>6 DEF next

Yields(decoded, words, ents, values) ==
  \A i \in 1 .. Len(ents), p \in Places(words) :
    Holds(words, p, ents[i]) => decoded[p].ok /\ decoded[p].value = values[i]

(* Entries with pointers to the next one are read as the count says; the   *)
(* pointers are only checked, where they fit.                              *)
LEMMA ListDecoded ==
  ASSUME NEW words \in Seq(Word), NEW at \in Nat, NEW ents \in Seq(Seq(Word)), CountFits(ents),
         EntriesFit(ents), Holds(words, at, EncodedList(ents)),
         NEW V, NEW values \in Seq(V), Len(values) = Len(ents), NEW decoded,
         Yields(decoded, words, ents, values)
  PROVE  DecodedList(decoded, words, at).ok /\ DecodedList(decoded, words, at).value = values
<1> DEFINE n == Len(ents)
           linked == Linked(ents)
           Place(i) == at + 1 + Len(Prefix(linked, i))
           End(i) == IF i = n /\ i > 0 THEN Place(i - 1) ELSE Place(i)
           Next2(f) ==
             [i \in 0 .. words[at + 1] |->
                IF i = 0 THEN Got(<<>>, at + 1)
                ELSE LET former == f[i - 1]
                         next == words[former.at + 1]
                         entry == decoded[former.at + 1]
                     IN IF former.ok /\ Readable(words, former.at, 1)
                             /\ (i = words[at + 1] <=> next = 0) /\ entry.ok
                        THEN Got(Append(former.value, entry.value), former.at + next) ELSE Failed]
           g == [i \in 0 .. n |-> Got(SubSeq(values, 1, i), End(i))]
           entries == CHOOSE f : f = Next2(f)
<1>1. /\ linked \in Seq(Seq(Word)) /\ Len(linked) = n /\ CountFits(linked)
      /\ Holds(words, at, EncodedMany(linked)) /\ n \in Nat
  BY LinkedWords DEF CountFits
<1>2. /\ words[at + 1] = n /\ Readable(words, at, 1) /\ Prefix(linked, 0) = <<>>
      /\ \A i \in 0 .. n : Len(Prefix(linked, i)) \in Nat /\ Place(i) \in Places(words)
      /\ \A i \in 1 .. n :
           /\ Holds(words, Place(i - 1), linked[i])
           /\ Len(Prefix(linked, i)) = Len(Prefix(linked, i - 1)) + Len(linked[i])
  <2> DEFINE m == Len(linked)
  <2>1. m = n
    BY <1>1
  <2>2. /\ words[at + 1] = m /\ Readable(words, at, 1) /\ Prefix(linked, 0) = <<>>
        /\ \A i \in 0 .. m : Len(Prefix(linked, i)) \in Nat /\ Place(i) \in Places(words)
        /\ \A i \in 1 .. m :
             /\ Holds(words, Place(i - 1), linked[i])
             /\ Len(Prefix(linked, i)) = Len(Prefix(linked, i - 1)) + Len(linked[i])
    <3>1. /\ linked \in Seq(Seq(Word)) /\ CountFits(linked)
          /\ Holds(words, at, EncodedMany(linked))
      BY <1>1
    <3> HIDE DEF linked
    <3>2. words[at + 1] = m /\ Readable(words, at, 1) /\ Prefix(linked, 0) = <<>>
      BY <3>1, ManyHeld
    <3>3. \A i \in 0 .. m : Len(Prefix(linked, i)) \in Nat /\ Place(i) \in Places(words)
      BY <3>1, ManyHeld
    <3>6. \A i \in 1 .. Len(linked) :
            /\ Holds(words, at + 1 + Len(Prefix(linked, i - 1)), linked[i])
            /\ Len(Prefix(linked, i)) = Len(Prefix(linked, i - 1)) + Len(linked[i])
            /\ Len(linked[i]) \in Nat
      BY <3>1, ManyHeld, Zenon
    <3>4. /\ \A i \in 1 .. m : Holds(words, at + 1 + Len(Prefix(linked, i - 1)), linked[i])
          /\ \A i \in 1 .. m : Len(Prefix(linked, i)) = Len(Prefix(linked, i - 1)) + Len(linked[i])
      BY <3>6
    <3>5. \A i \in 1 .. m : Holds(words, Place(i - 1), linked[i])
      BY <3>4
    <3> HIDE DEF Place, m
    <3> QED BY <3>2, <3>3, <3>4, <3>5
  <2> HIDE DEF m, n, Place, linked
  <2> QED BY <2>1, <2>2
<1>3. Place(0) = at + 1
  BY <1>2
<1>4. ASSUME NEW i \in 1 .. n
      PROVE  LET here == Place(i - 1)
             IN /\ here \in Nat /\ Readable(words, here, 1)
                /\ i = n <=> words[here + 1] = 0
                /\ here + words[here + 1] = End(i)
                /\ decoded[here + 1].ok /\ decoded[here + 1].value = values[i]
  <2> DEFINE here == Place(i - 1)
             next == IF i = n THEN 0 ELSE NextPointer(Len(ents[i]))
  <2>1. linked[i] = <<next>> \o ents[i] /\ next \in Word
    BY LinkedWords
  <2>2. i - 1 \in 0 .. n /\ ents[i] \in Seq(Word) /\ Len(ents[i]) \in Nat
    OBVIOUS
  <2>3. here \in Nat /\ Holds(words, here, linked[i])
    <3> HIDE DEF Place, linked
    <3>1. here \in Places(words) /\ Holds(words, here, linked[i])
      BY <1>2, <2>2
    <3> QED BY <3>1 DEF Places
  <2>4. i # n => next = Len(ents[i]) + 1
    <3>1. ASSUME i # n
          PROVE  NextPointer(Len(ents[i])) = Len(ents[i]) + 1
      <4>1. i \in 1 .. Len(ents) - 1
        BY <3>1
      <4>2. Len(ents[i]) + 1 \in Word
        BY <4>1 DEF EntriesFit
      <4> QED BY <2>2, <4>2, FittingNext
    <3> QED BY <3>1
  <2> HIDE DEF here
  <2>5. <<next>> \in Seq(Word) /\ Len(<<next>>) = 1 /\ <<next>>[1] = next
    BY <2>1
  <2> HIDE DEF next
  <2>6. Holds(words, here, <<next>>) /\ Holds(words, here + 1, ents[i])
    <3>1. Len(words) \in Nat
      OBVIOUS
    <3>2. Holds(words, here, <<next>> \o ents[i])
      BY <2>1, <2>3
    <3> QED BY <2>2, <2>3, <2>5, <3>1, <3>2, HoldsJoined
  <2>7. Readable(words, here, 1) /\ words[here + 1] = next
    BY <2>3, <2>5, <2>6 DEF Holds, Readable
  <2>8. i = n <=> next = 0
    BY <2>2, <2>4 DEF next
  <2>9. here + 1 \in Places(words)
    BY <2>3, <2>7 DEF Readable, Places
  <2>10. decoded[here + 1].ok /\ decoded[here + 1].value = values[i]
    BY <2>6, <2>9 DEF Yields
  <2>11. here + next = End(i)
    <3>1. CASE i = n
      <4>1. next = 0 /\ End(i) = here
        BY <2>8, <3>1 DEF here
      <4> QED BY <2>3, <4>1
    <3>2. CASE i # n
      <4> DEFINE p == Len(Prefix(linked, i - 1))
                 l == Len(linked[i])
                 q == Len(Prefix(linked, i))
                 e == Len(ents[i])
      <4>1. q = p + l /\ p \in Nat /\ e \in Nat
        BY <1>2, <2>2
      <4>2. l = 1 + e
        BY <2>1, <2>2, <2>5, ConcatProperties
      <4>3. End(i) = at + 1 + q /\ here = at + 1 + p
        BY <3>2 DEF here
      <4>4. next = e + 1
        BY <2>4, <3>2
      <4> HIDE DEF p, l, q, e, End
      <4> QED BY <4>1, <4>2, <4>3, <4>4
    <3> QED BY <3>1, <3>2
  <2> QED BY <2>3, <2>7, <2>8, <2>10, <2>11 DEF here
<1>5. ASSUME NEW i \in 1 .. n
      PROVE  End(i - 1) = Place(i - 1)
  <2>1. i - 1 # n
    OBVIOUS
  <2> QED BY <2>1
<1>6. \A i \in 1 .. n : Append(SubSeq(values, 1, i - 1), values[i]) = SubSeq(values, 1, i)
  OBVIOUS
<1>7. /\ g[0] = Got(<<>>, at + 1) /\ \A i \in 0 .. n : g[i] = Got(SubSeq(values, 1, i), End(i))
  <2>1. SubSeq(values, 1, 0) = <<>> /\ End(0) = at + 1
    <3>1. End(0) = Place(0)
      OBVIOUS
    <3>2. SubSeq(values, 1, 0) = <<>>
      OBVIOUS
    <3> HIDE DEF End, Place
    <3> QED BY <1>3, <3>1, <3>2
  <2>2. \A i \in 0 .. n : g[i] = Got(SubSeq(values, 1, i), End(i))
    OBVIOUS
  <2>3. 0 \in 0 .. n
    BY <1>1
  <2> HIDE DEF g, End
  <2> QED BY <2>1, <2>2, <2>3
<1> HIDE DEF Place, End
<1>8. ASSUME NEW i \in 1 .. n, NEW f, f[i - 1] = g[i - 1]
      PROVE  Next2(f)[i] = g[i]
  <2> DEFINE here == Place(i - 1)
  <2>1. i - 1 \in 0 .. n /\ i \in 0 .. n /\ i # 0
    OBVIOUS
  <2>2. f[i - 1] = Got(SubSeq(values, 1, i - 1), here)
    BY <1>5, <1>7, <1>8, <2>1
  <2>3. f[i - 1].ok /\ f[i - 1].at = here /\ f[i - 1].value = SubSeq(values, 1, i - 1)
    BY <2>2 DEF Got
  <2>4. /\ Readable(words, here, 1) /\ (i = n <=> words[here + 1] = 0)
        /\ here + words[here + 1] = End(i)
        /\ decoded[here + 1].ok /\ decoded[here + 1].value = values[i]
    BY <1>4
  <2> HIDE DEF here
  <2>5. Next2(f)[i] = Got(Append(SubSeq(values, 1, i - 1), values[i]), End(i))
    BY <1>2, <2>1, <2>3, <2>4
  <2> HIDE DEF Next2, g
  <2> QED BY <1>6, <1>7, <2>1, <2>5
<1>9. g = Next2(g)
  <2>1. \A i \in 0 .. n : g[i] = Next2(g)[i]
    <3> SUFFICES ASSUME NEW i \in 0 .. n
                 PROVE  g[i] = Next2(g)[i]
      OBVIOUS
    <3>1. CASE i = 0
      <4>1. Next2(g)[i] = Got(<<>>, at + 1)
        BY <1>2, <3>1
      <4> HIDE DEF Next2, g
      <4> QED BY <1>7, <3>1, <4>1
    <3>2. CASE i # 0
      <4> HIDE DEF Next2, g
      <4> QED BY <1>8, <3>2
    <3> QED BY <3>1, <3>2
  <2>2. g = [i \in 0 .. n |-> g[i]]
    OBVIOUS
  <2>3. Next2(g) = [i \in 0 .. n |-> Next2(g)[i]]
    <3>1. DOMAIN Next2(g) = 0 .. n
      BY <1>2
    <3>2. Next2(g) = [i \in DOMAIN Next2(g) |-> Next2(g)[i]]
      OBVIOUS
    <3> HIDE DEF Next2, g
    <3> QED BY <3>1, <3>2
  <2> HIDE DEF Next2, g
  <2> QED BY <2>1, <2>2, <2>3
<1>10. entries = Next2(entries)
  <2> HIDE DEF Next2, g
  <2> QED BY <1>9
<1>11. DecodedList(decoded, words, at) = entries[n]
  BY <1>2 DEF DecodedList
<1>12. entries[0] = g[0]
  <2>1. Next2(entries)[0] = Got(<<>>, at + 1)
    <3> HIDE DEF entries
    <3>1. 0 \in 0 .. words[at + 1]
      BY <1>1, <1>2
    <3> QED BY <3>1
  <2> HIDE DEF Next2, g, entries
  <2> QED BY <1>7, <1>10, <2>1
<1>13. \A i \in 0 .. n : entries[i] = g[i]
  <2> HIDE DEF Next2, g, entries
  <2> DEFINE S == {i \in Nat : i <= n => entries[i] = g[i]}
  <2>1. 0 \in S
    BY <1>12
  <2>2. ASSUME NEW i \in S
        PROVE  i + 1 \in S
    <3>1. CASE i + 1 <= n
      <4>1. entries[i] = g[i] /\ i + 1 \in 1 .. n /\ (i + 1) - 1 = i
        BY <3>1
      <4>2. Next2(entries)[i + 1] = g[i + 1]
        BY <1>8, <4>1
      <4> QED BY <1>10, <4>2
    <3> QED BY <3>1
  <2>3. \A i \in Nat : i \in S
    <3> HIDE DEF S
    <3>1. S \in SUBSET Nat
      BY DEF S
    <3> QED BY <2>1, <2>2, <3>1, Induction
  <2> QED BY <2>3
<1>14. n \in 0 .. n /\ SubSeq(values, 1, n) = values
  BY <1>1, SubSeqFull
<1> HIDE DEF g, entries
<1>15. DecodedList(decoded, words, at) = Got(values, End(n))
  BY <1>7, <1>11, <1>13, <1>14
<1> QED BY <1>15 DEF Got

(* Words that stand in a file from a place to another.                     *)
Stands(words, a, e, b) ==
  words \in Seq(Word) /\ e \in Seq(Word) /\ a \in Nat /\ b = a + Len(e) /\ Holds(words, a, e)

LEMMA Joins ==
  \A s, t \in Seq(Word) : s \o t \in Seq(Word)
BY ConcatProperties

(* What stands somewhere is split where its parts meet.                    *)
LEMMA Split2 ==
  ASSUME NEW words, NEW a, NEW b, NEW s \in Seq(Word), NEW t \in Seq(Word),
         Stands(words, a, s \o t, b)
  PROVE  \E m : Stands(words, a, s, m) /\ Stands(words, m, t, b)
<1>1. /\ words \in Seq(Word) /\ a \in Nat /\ b = a + Len(s \o t) /\ Holds(words, a, s \o t)
      /\ Len(words) \in Nat
  BY DEF Stands
<1>2. Len(s \o t) = Len(s) + Len(t) /\ Len(s) \in Nat /\ Len(t) \in Nat
  OBVIOUS
<1>3. Holds(words, a, s) /\ Holds(words, a + Len(s), t)
  BY <1>1, HoldsJoined
<1>4. a + Len(s) \in Nat /\ b = a + Len(s) + Len(t)
  BY <1>1, <1>2
<1>5. Stands(words, a, s, a + Len(s)) /\ Stands(words, a + Len(s), t, b)
  BY <1>1, <1>3, <1>4 DEF Stands
<1> QED BY <1>5

LEMMA Split3 ==
  ASSUME NEW words, NEW a, NEW b, NEW s \in Seq(Word), NEW t \in Seq(Word), NEW u \in Seq(Word),
         Stands(words, a, s \o t \o u, b)
  PROVE  \E m, n : Stands(words, a, s, m) /\ Stands(words, m, t, n) /\ Stands(words, n, u, b)
<1> DEFINE st == s \o t
<1>1. st \in Seq(Word) /\ Stands(words, a, st \o u, b)
  BY Joins
<1> HIDE DEF st
<1>2. PICK n : Stands(words, a, st, n) /\ Stands(words, n, u, b)
  BY <1>1, Split2
<1>3. Stands(words, a, s \o t, n)
  BY <1>2 DEF st
<1>4. PICK m : Stands(words, a, s, m) /\ Stands(words, m, t, n)
  BY <1>3, Split2
<1> QED BY <1>2, <1>4

LEMMA Split4 ==
  ASSUME NEW words, NEW a, NEW b, NEW s \in Seq(Word), NEW t \in Seq(Word), NEW u \in Seq(Word),
         NEW x \in Seq(Word), Stands(words, a, s \o t \o u \o x, b)
  PROVE  \E m, n, o : /\ Stands(words, a, s, m) /\ Stands(words, m, t, n)
                      /\ Stands(words, n, u, o) /\ Stands(words, o, x, b)
<1> DEFINE stu == s \o t \o u
<1>1. stu \in Seq(Word) /\ Stands(words, a, stu \o x, b)
  BY Joins
<1> HIDE DEF stu
<1>2. PICK o : Stands(words, a, stu, o) /\ Stands(words, o, x, b)
  BY <1>1, Split2
<1>3. Stands(words, a, s \o t \o u, o)
  BY <1>2 DEF stu
<1>4. PICK m, n : Stands(words, a, s, m) /\ Stands(words, m, t, n) /\ Stands(words, n, u, o)
  BY <1>3, Split3
<1> QED BY <1>2, <1>4

LEMMA Split5 ==
  ASSUME NEW words, NEW a, NEW b, NEW s \in Seq(Word), NEW t \in Seq(Word), NEW u \in Seq(Word),
         NEW x \in Seq(Word), NEW y \in Seq(Word), Stands(words, a, s \o t \o u \o x \o y, b)
  PROVE  \E m, n, o, p : /\ Stands(words, a, s, m) /\ Stands(words, m, t, n)
                         /\ Stands(words, n, u, o) /\ Stands(words, o, x, p)
                         /\ Stands(words, p, y, b)
<1> DEFINE stux == s \o t \o u \o x
<1>1. stux \in Seq(Word) /\ Stands(words, a, stux \o y, b)
  BY Joins
<1> HIDE DEF stux
<1>2. PICK p : Stands(words, a, stux, p) /\ Stands(words, p, y, b)
  BY <1>1, Split2
<1>3. Stands(words, a, s \o t \o u \o x, p)
  BY <1>2 DEF stux
<1>4. PICK m, n, o : /\ Stands(words, a, s, m) /\ Stands(words, m, t, n)
                     /\ Stands(words, n, u, o) /\ Stands(words, o, x, p)
  BY <1>3, Split4
<1> QED BY <1>2, <1>4

-----------------------------------------------------------------------------
(* The fields.                                                             *)

LEMMA FieldWords ==
  /\ \A s \in Text : StringFits(s) => EncodedString(s) \in Seq(Word)
  /\ \A ss \in Seq(Text) : StringsFit(ss) => EncodedStrings(ss) \in Seq(Word)
  /\ \A w \in Word : <<w>> \in Seq(Word)
  /\ \A d \in DoubleWord : Double(d) \in Seq(Word)
  /\ \A q \in FileLength : Quad(q) \in Seq(Word)
  /\ \A c \in CheckValue : EncodedCheckValue(c) \in Seq(Word)
<1>1. \A ss \in Seq(Text) : StringsFit(ss) => EncodedStrings(ss) \in Seq(Word)
  BY StringsWords
<1>2. \A w \in Word : <<w>> \in Seq(Word)
  OBVIOUS
<1> QED BY <1>1, <1>2, EncodedStringWords, DoubleDigits, QuadDigits, CheckValueWordsTyped

LEMMA StringStands ==
  ASSUME NEW words, NEW a, NEW b, NEW s \in Text, StringFits(s),
         Stands(words, a, EncodedString(s), b)
  PROVE  DecodedString(words, a) = Got(s, b)
BY StringDecoded DEF Stands

LEMMA StringsStand ==
  ASSUME NEW words, NEW a, NEW b, NEW ss \in Seq(Text), StringsFit(ss),
         Stands(words, a, EncodedStrings(ss), b)
  PROVE  DecodedStrings(words, a) = Got(ss, b)
BY StringsDecoded DEF Stands

LEMMA WordStands ==
  ASSUME NEW words, NEW a, NEW b, NEW w \in Word, Stands(words, a, <<w>>, b)
  PROVE  /\ DecodedWord(words, a) = Got(w, b)
         /\ w \in MediumNumber => DecodedMember(words, a) = Got(w, b)
<1>1. Len(<<w>>) = 1
  OBVIOUS
<1>2. words \in Seq(Word) /\ a \in Nat /\ b = a + 1 /\ Holds(words, a, <<w>>)
  BY <1>1 DEF Stands
<1> QED BY <1>2, WordDecoded

LEMMA MemberWord == MediumNumber \subseteq Word
<1>1. ByteBase \in Nat /\ ByteBase > 2 /\ ByteBase <= ByteBase * ByteBase
  BY Bases
<1> QED BY <1>1, Bases DEF MediumNumber, Byte, Word, WordBase

LEMMA DoubleStands ==
  ASSUME NEW words, NEW a, NEW b, NEW d \in DoubleWord, Stands(words, a, Double(d), b)
  PROVE  DecodedDouble(words, a) = Got(d, b)
<1>1. Len(Double(d)) = 2
  BY DoubleDigits
<1> QED BY <1>1, DoubleDecoded DEF Stands

LEMMA QuadStands ==
  ASSUME NEW words, NEW a, NEW b, NEW q \in FileLength, Stands(words, a, Quad(q), b)
  PROVE  DecodedQuad(words, a) = Got(q, b)
<1>1. Len(Quad(q)) = 4
  BY QuadDigits
<1> QED BY <1>1, QuadDecoded DEF Stands

LEMMA CheckValueStands ==
  ASSUME NEW words, NEW a, NEW b, NEW c \in CheckValue, Stands(words, a, EncodedCheckValue(c), b)
  PROVE  DecodedCheckValue(words, a) = Got(c, b)
BY CheckValueDecoded DEF Stands

(* A field that only Supplement 3 has.                                     *)
LEMMA From3Stands ==
  ASSUME NEW words, NEW a, NEW b, NEW v \in Supplement, NEW c \in CheckValue,
         Stands(words, a, From3(v, EncodedCheckValue(c)), b)
  PROVE  DecodedFrom3(v, words, a) = Got(IF v = 3 THEN c ELSE NoCheckValue, b)
<1>1. CASE v = 3
  <2>1. Stands(words, a, EncodedCheckValue(c), b)
    BY <1>1 DEF From3
  <2>2. DecodedFrom3(v, words, a) = DecodedCheckValue(words, a)
    BY <1>1 DEF DecodedFrom3
  <2> QED BY <1>1, <2>1, <2>2, CheckValueStands
<1>2. CASE v = 2
  <2>1. Stands(words, a, <<>>, b) /\ Len(<<>>) = 0
    BY <1>2 DEF From3
  <2>2. a = b
    BY <2>1 DEF Stands
  <2>3. DecodedFrom3(v, words, a) = Got(NoCheckValue, a)
    BY <1>2 DEF DecodedFrom3
  <2> QED BY <1>2, <2>2, <2>3
<1> QED BY <1>1, <1>2 DEF Supplement

LEMMA From3Words ==
  ASSUME NEW v, NEW words \in Seq(Word)
  PROVE  From3(v, words) \in Seq(Word)
BY DEF From3

-----------------------------------------------------------------------------
(* What is read of a file in a supplement.                                 *)

ReadFile(v, e) == IF v = 3 THEN e ELSE Unchecked(e)
ReadDataFile(v, e) == IF v = 3 THEN e ELSE [Unchecked(e) EXCEPT !.length = @ + (@ % 2)]

LEMMA SupportFileDecoded ==
  ASSUME NEW v \in Supplement, NEW e \in LoadFile, NamesFit(e), e.length \in DoubleWord
  PROVE  /\ EncodedSupportFile(v, e) \in Seq(Word)
         /\ \A words, a, b : Stands(words, a, EncodedSupportFile(v, e), b) =>
              DecodedSupportFile(v, words, a) = Got(ReadFile(v, e), b)
<1> DEFINE n == EncodedString(e.name)
           p == EncodedString(e.part)
           l == Double(e.length)
           c == <<e.crc>>
           k == From3(v, EncodedCheckValue(e.check))
<1>1. /\ e.name \in Text /\ e.part \in Text /\ e.crc \in Word /\ e.check \in CheckValue
      /\ StringFits(e.name) /\ StringFits(e.part)
      /\ e = [name |-> e.name, part |-> e.part, length |-> e.length, crc |-> e.crc,
              check |-> e.check]
  BY DEF LoadFile, NamesFit
<1>2. n \in Seq(Word) /\ p \in Seq(Word) /\ l \in Seq(Word) /\ c \in Seq(Word) /\ k \in Seq(Word)
  BY <1>1, FieldWords, From3Words
<1>3. EncodedSupportFile(v, e) = n \o p \o l \o c \o k
  BY DEF EncodedSupportFile
<1> HIDE DEF n, p, l, c, k
<1>4. EncodedSupportFile(v, e) \in Seq(Word)
  BY <1>2, <1>3, Joins
<1>5. ASSUME NEW words, NEW a, NEW b, Stands(words, a, EncodedSupportFile(v, e), b)
      PROVE  DecodedSupportFile(v, words, a) = Got(ReadFile(v, e), b)
  <2> DEFINE name == DecodedString(words, a)
             part == DecodedString(words, name.at)
             length == DecodedDouble(words, part.at)
             crc == DecodedWord(words, length.at)
             check == DecodedFrom3(v, words, crc.at)
  <2>1. PICK a1, a2, a3, a4 : /\ Stands(words, a, n, a1) /\ Stands(words, a1, p, a2)
                              /\ Stands(words, a2, l, a3) /\ Stands(words, a3, c, a4)
                              /\ Stands(words, a4, k, b)
    BY <1>2, <1>3, <1>5, Split5
  <2>2. name = Got(e.name, a1)
    BY <1>1, <2>1, StringStands DEF n
  <2>3. DecodedString(words, a1) = Got(e.part, a2)
    BY <1>1, <2>1, StringStands DEF p
  <2>4. DecodedDouble(words, a2) = Got(e.length, a3)
    BY <1>1, <2>1, DoubleStands DEF l
  <2>5. DecodedWord(words, a3) = Got(e.crc, a4)
    BY <1>1, <2>1, WordStands DEF c
  <2>6. DecodedFrom3(v, words, a4) = Got(IF v = 3 THEN e.check ELSE NoCheckValue, b)
    BY <1>1, <2>1, From3Stands DEF k
  <2>7. DecodedSupportFile(v, words, a) =
          IF name.ok /\ part.ok /\ length.ok /\ crc.ok /\ check.ok
          THEN Got([name |-> name.value, part |-> part.value, length |-> length.value,
                    crc |-> crc.value, check |-> check.value], check.at)
          ELSE Failed
    BY DEF DecodedSupportFile
  <2>8. /\ part = Got(e.part, a2) /\ length = Got(e.length, a3) /\ crc = Got(e.crc, a4)
        /\ check = Got(IF v = 3 THEN e.check ELSE NoCheckValue, b)
    BY <2>2, <2>3, <2>4, <2>5, <2>6, GotFields
  <2> HIDE DEF name, part, length, crc, check
  <2>9. DecodedSupportFile(v, words, a) =
          Got([name |-> e.name, part |-> e.part, length |-> e.length, crc |-> e.crc,
               check |-> IF v = 3 THEN e.check ELSE NoCheckValue], b)
    BY <2>2, <2>7, <2>8, GotFields
  <2>10. Unchecked(e) = [name |-> e.name, part |-> e.part, length |-> e.length, crc |-> e.crc,
                         check |-> NoCheckValue]
    BY <1>1 DEF Unchecked
  <2> QED BY <1>1, <2>9, <2>10 DEF ReadFile
<1> QED BY <1>4, <1>5

-----------------------------------------------------------------------------
(* The entries of load headers.                                            *)

LEMMA DataFileDecoded ==
  ASSUME NEW v \in Supplement, NEW e \in LoadFile, NamesFit(e),
         (e.length + 1) \div 2 \in DoubleWord
  PROVE  /\ EncodedDataFile(v, e) \in Seq(Word)
         /\ \A words, a, b : Stands(words, a, EncodedDataFile(v, e), b) =>
              DecodedDataFile(v, words, a) = Got(ReadDataFile(v, e), b)
<1> DEFINE half == (e.length + 1) \div 2
           n == EncodedString(e.name)
           p == EncodedString(e.part)
           l == Double(half)
           c == <<e.crc>>
           q == Quad(e.length)
           k == EncodedCheckValue(e.check)
           qk == From3(v, q \o k)
<1>1. /\ e.name \in Text /\ e.part \in Text /\ e.crc \in Word /\ e.check \in CheckValue
      /\ StringFits(e.name) /\ StringFits(e.part) /\ e.length \in FileLength
      /\ e = [name |-> e.name, part |-> e.part, length |-> e.length, crc |-> e.crc,
              check |-> e.check]
  BY DEF LoadFile, NamesFit
<1>2. half \in DoubleWord
  OBVIOUS
<1> HIDE DEF half
<1>3. /\ n \in Seq(Word) /\ p \in Seq(Word) /\ l \in Seq(Word) /\ c \in Seq(Word)
      /\ q \in Seq(Word) /\ k \in Seq(Word)
  BY <1>1, <1>2, FieldWords
<1>4. EncodedDataFile(v, e) = n \o p \o l \o c \o qk
  BY DEF EncodedDataFile, half
<1> HIDE DEF n, p, l, c, q, k
<1>5. qk \in Seq(Word)
  <2>1. q \o k \in Seq(Word)
    BY <1>3, Joins
  <2> QED BY <2>1, From3Words
<1> HIDE DEF qk
<1>6. EncodedDataFile(v, e) \in Seq(Word)
  BY <1>3, <1>4, <1>5, Joins
<1>7. ASSUME NEW words, NEW a, NEW b, Stands(words, a, EncodedDataFile(v, e), b)
      PROVE  DecodedDataFile(v, words, a) = Got(ReadDataFile(v, e), b)
  <2> DEFINE name == DecodedString(words, a)
             part == DecodedString(words, name.at)
             size == DecodedDouble(words, part.at)
             crc == DecodedWord(words, size.at)
             length == IF v = 3 THEN DecodedQuad(words, crc.at) ELSE Got(2 * size.value, crc.at)
             check == DecodedFrom3(v, words, length.at)
  <2>1. PICK a1, a2, a3, a4 : /\ Stands(words, a, n, a1) /\ Stands(words, a1, p, a2)
                              /\ Stands(words, a2, l, a3) /\ Stands(words, a3, c, a4)
                              /\ Stands(words, a4, qk, b)
    BY <1>3, <1>4, <1>5, <1>7, Split5
  <2>2. name = Got(e.name, a1)
    BY <1>1, <2>1, StringStands DEF n
  <2>3. DecodedString(words, a1) = Got(e.part, a2)
    BY <1>1, <2>1, StringStands DEF p
  <2>4. DecodedDouble(words, a2) = Got(half, a3)
    BY <1>2, <2>1, DoubleStands DEF l
  <2>5. DecodedWord(words, a3) = Got(e.crc, a4)
    BY <1>1, <2>1, WordStands DEF c
  <2>6. DecodedDataFile(v, words, a) =
          IF /\ name.ok /\ part.ok /\ size.ok /\ crc.ok /\ length.ok
             /\ v = 3 => Consistent(size.value, length.value)
             /\ check.ok
          THEN Got([name |-> name.value, part |-> part.value, length |-> length.value,
                    crc |-> crc.value, check |-> check.value], check.at)
          ELSE Failed
    BY DEF DecodedDataFile
  <2>7. /\ part = Got(e.part, a2) /\ size = Got(half, a3) /\ crc = Got(e.crc, a4)
    BY <2>2, <2>3, <2>4, <2>5, GotFields
  <2>8. CASE v = 3
    <3>1. Stands(words, a4, q \o k, b)
      BY <2>1, <2>8 DEF qk, From3
    <3>2. PICK a5 : Stands(words, a4, q, a5) /\ Stands(words, a5, k, b)
      BY <1>3, <3>1, Split2
    <3>3. DecodedQuad(words, a4) = Got(e.length, a5)
      BY <1>1, <3>2, QuadStands DEF q
    <3>4. DecodedCheckValue(words, a5) = Got(e.check, b)
      BY <1>1, <3>2, CheckValueStands DEF k
    <3>5. length = Got(e.length, a5)
      BY <2>7, <2>8, <3>3, GotFields
    <3>6. check = Got(e.check, b)
      BY <2>8, <3>4, <3>5, GotFields DEF DecodedFrom3
    <3>7. Consistent(half, e.length)
      BY DEF Consistent, half
    <3> HIDE DEF name, part, size, crc, length, check
    <3>8. DecodedDataFile(v, words, a) =
            Got([name |-> e.name, part |-> e.part, length |-> e.length, crc |-> e.crc,
                 check |-> e.check], b)
      BY <2>2, <2>6, <2>7, <3>5, <3>6, <3>7, GotFields
    <3> QED BY <1>1, <2>8, <3>8 DEF ReadDataFile
  <2>9. CASE v = 2
    <3>1. Stands(words, a4, <<>>, b) /\ Len(<<>>) = 0
      BY <2>1, <2>9 DEF qk, From3
    <3>2. a4 = b
      BY <3>1 DEF Stands
    <3>3. length = Got(2 * half, b)
      BY <2>7, <2>9, <3>2, GotFields
    <3>4. check = Got(NoCheckValue, b)
      BY <2>9, <3>3, GotFields DEF DecodedFrom3
    <3>5. 2 * half = e.length + (e.length % 2)
      <4>1. e.length \in Nat
        BY <1>1, Bases DEF FileLength
      <4> QED BY <4>1, Halved DEF half
    <3> HIDE DEF name, part, size, crc, length, check
    <3>6. DecodedDataFile(v, words, a) =
            Got([name |-> e.name, part |-> e.part, length |-> 2 * half, crc |-> e.crc,
                 check |-> NoCheckValue], b)
      BY <2>2, <2>6, <2>7, <2>9, <3>3, <3>4, GotFields
    <3>7. [Unchecked(e) EXCEPT !.length = @ + (@ % 2)] =
            [name |-> e.name, part |-> e.part, length |-> e.length + (e.length % 2), crc |-> e.crc,
             check |-> NoCheckValue]
      <4>1. Unchecked(e) = [name |-> e.name, part |-> e.part, length |-> e.length,
                            crc |-> e.crc, check |-> NoCheckValue]
        BY <1>1 DEF Unchecked
      <4> QED BY <4>1
    <3> QED BY <2>9, <3>5, <3>6, <3>7 DEF ReadDataFile
  <2> QED BY <2>8, <2>9 DEF Supplement
<1> QED BY <1>6, <1>7

LEMMA LoadTypeDecoded ==
  ASSUME NEW t \in LoadType, StringFits(t.description)
  PROVE  /\ EncodedLoadType(t) \in Seq(Word)
         /\ \A words, a, b : Stands(words, a, EncodedLoadType(t), b) =>
              DecodedLoadType(words, a) = Got(<<t>>, b)
<1> DEFINE d == EncodedString(t.description)
           n == <<t.number>>
<1>1. /\ t.description \in Text /\ t.number \in Word
      /\ t = [description |-> t.description, number |-> t.number]
  BY DEF LoadType
<1>2. d \in Seq(Word) /\ n \in Seq(Word)
  BY <1>1, FieldWords
<1>3. EncodedLoadType(t) = d \o n
  BY DEF EncodedLoadType
<1> HIDE DEF d, n
<1>4. EncodedLoadType(t) \in Seq(Word)
  BY <1>2, <1>3, Joins
<1>5. ASSUME NEW words, NEW a, NEW b, Stands(words, a, EncodedLoadType(t), b)
      PROVE  DecodedLoadType(words, a) = Got(<<t>>, b)
  <2> DEFINE description == DecodedString(words, a)
             number == DecodedWord(words, description.at)
  <2>1. PICK a1 : Stands(words, a, d, a1) /\ Stands(words, a1, n, b)
    BY <1>2, <1>3, <1>5, Split2
  <2>2. description = Got(t.description, a1)
    BY <1>1, <2>1, StringStands DEF d
  <2>3. DecodedWord(words, a1) = Got(t.number, b)
    BY <1>1, <2>1, WordStands DEF n
  <2>4. DecodedLoadType(words, a) =
          IF description.ok /\ number.ok
          THEN Got(<<[description |-> description.value, number |-> number.value]>>, number.at)
          ELSE Failed
    BY DEF DecodedLoadType
  <2>5. number = Got(t.number, b)
    BY <2>2, <2>3, GotFields
  <2> HIDE DEF description, number
  <2>6. DecodedLoadType(words, a) =
          Got(<<[description |-> t.description, number |-> t.number]>>, b)
    BY <2>2, <2>4, <2>5, GotFields
  <2> QED BY <1>1, <2>6
<1> QED BY <1>4, <1>5

LEMMA PositionsDecoded ==
  ASSUME NEW p \in HardwarePositions, StringFits(p.thw), StringsFit(p.positions)
  PROVE  /\ EncodedPositions(p) \in Seq(Word)
         /\ \A words, a, b : Stands(words, a, EncodedPositions(p), b) =>
              DecodedPositions(words, a) = Got(p, b)
<1> DEFINE h == EncodedString(p.thw)
           s == EncodedStrings(p.positions)
<1>1. /\ p.thw \in Text /\ p.positions \in Seq(Text)
      /\ p = [thw |-> p.thw, positions |-> p.positions]
  BY DEF HardwarePositions
<1>2. h \in Seq(Word) /\ s \in Seq(Word)
  BY <1>1, FieldWords
<1>3. EncodedPositions(p) = h \o s
  BY DEF EncodedPositions
<1> HIDE DEF h, s
<1>4. EncodedPositions(p) \in Seq(Word)
  BY <1>2, <1>3, Joins
<1>5. ASSUME NEW words, NEW a, NEW b, Stands(words, a, EncodedPositions(p), b)
      PROVE  DecodedPositions(words, a) = Got(p, b)
  <2> DEFINE thw == DecodedString(words, a)
             positions == DecodedStrings(words, thw.at)
  <2>1. PICK a1 : Stands(words, a, h, a1) /\ Stands(words, a1, s, b)
    BY <1>2, <1>3, <1>5, Split2
  <2>2. thw = Got(p.thw, a1)
    BY <1>1, <2>1, StringStands DEF h
  <2>3. DecodedStrings(words, a1) = Got(p.positions, b)
    BY <1>1, <2>1, StringsStand DEF s
  <2>4. DecodedPositions(words, a) =
          IF thw.ok /\ positions.ok
          THEN Got([thw |-> thw.value, positions |-> positions.value], positions.at) ELSE Failed
    BY DEF DecodedPositions
  <2>5. positions = Got(p.positions, b)
    BY <2>2, <2>3, GotFields
  <2> HIDE DEF thw, positions
  <2>6. DecodedPositions(words, a) = Got([thw |-> p.thw, positions |-> p.positions], b)
    BY <2>2, <2>4, <2>5, GotFields
  <2> QED BY <1>1, <2>6
<1> QED BY <1>4, <1>5

-----------------------------------------------------------------------------
(* The entries of the lists and of batch files.                            *)

LEMMA FileInfoDecoded ==
  ASSUME NEW v \in Supplement, NEW e \in FileInfo, StringFits(e.name), StringFits(e.path)
  PROVE  /\ EncodedFileInfo(v, e) \in Seq(Word)
         /\ \A words, a, b : Stands(words, a, EncodedFileInfo(v, e), b) =>
              DecodedFileInfo(v, words, a) = Got(ReadFile(v, e), b)
<1> DEFINE n == EncodedString(e.name)
           p == EncodedString(e.path)
           m == <<e.member>>
           c == <<e.crc>>
           k == From3(v, EncodedCheckValue(e.check))
<1>1. /\ e.name \in Text /\ e.path \in Text /\ e.crc \in Word /\ e.check \in CheckValue
      /\ e.member \in MediumNumber /\ e.member \in Word
      /\ e = [name |-> e.name, path |-> e.path, member |-> e.member, crc |-> e.crc,
              check |-> e.check]
  BY MemberWord DEF FileInfo
<1>2. n \in Seq(Word) /\ p \in Seq(Word) /\ m \in Seq(Word) /\ c \in Seq(Word) /\ k \in Seq(Word)
  BY <1>1, FieldWords, From3Words
<1>3. <<e.member, e.crc>> = m \o c
  BY <1>1
<1>4. EncodedFileInfo(v, e) = n \o p \o (m \o c) \o k
  BY <1>3, Zenon DEF EncodedFileInfo
<1> HIDE DEF n, p, m, c, k
<1>5. m \o c \in Seq(Word)
  BY <1>2, Joins
<1>6. EncodedFileInfo(v, e) \in Seq(Word)
  BY <1>2, <1>4, <1>5, Joins
<1>7. ASSUME NEW words, NEW a, NEW b, Stands(words, a, EncodedFileInfo(v, e), b)
      PROVE  DecodedFileInfo(v, words, a) = Got(ReadFile(v, e), b)
  <2> DEFINE name == DecodedString(words, a)
             path == DecodedString(words, name.at)
             member == DecodedMember(words, path.at)
             crc == DecodedWord(words, member.at)
             check == DecodedFrom3(v, words, crc.at)
  <2>1. PICK a1, a2, a4 : /\ Stands(words, a, n, a1) /\ Stands(words, a1, p, a2)
                          /\ Stands(words, a2, m \o c, a4) /\ Stands(words, a4, k, b)
    <3> DEFINE mc == m \o c
    <3>1. mc \in Seq(Word) /\ Stands(words, a, n \o p \o mc \o k, b)
      BY <1>4, <1>5, <1>7
    <3> HIDE DEF mc
    <3>2. \E a1, a2, a4 : /\ Stands(words, a, n, a1) /\ Stands(words, a1, p, a2)
                          /\ Stands(words, a2, mc, a4) /\ Stands(words, a4, k, b)
      BY <1>2, <3>1, Split4
    <3> QED BY <3>2 DEF mc
  <2>2. PICK a3 : Stands(words, a2, m, a3) /\ Stands(words, a3, c, a4)
    BY <1>2, <2>1, Split2
  <2>3. name = Got(e.name, a1)
    BY <1>1, <2>1, StringStands DEF n
  <2>4. DecodedString(words, a1) = Got(e.path, a2)
    BY <1>1, <2>1, StringStands DEF p
  <2>5. DecodedMember(words, a2) = Got(e.member, a3)
    BY <1>1, <2>2, WordStands DEF m
  <2>6. DecodedWord(words, a3) = Got(e.crc, a4)
    BY <1>1, <2>2, WordStands DEF c
  <2>7. DecodedFrom3(v, words, a4) = Got(IF v = 3 THEN e.check ELSE NoCheckValue, b)
    BY <1>1, <2>1, From3Stands DEF k
  <2>8. DecodedFileInfo(v, words, a) =
          IF name.ok /\ path.ok /\ member.ok /\ crc.ok /\ check.ok
          THEN Got([name |-> name.value, path |-> path.value, member |-> member.value,
                    crc |-> crc.value, check |-> check.value], check.at)
          ELSE Failed
    BY DEF DecodedFileInfo
  <2>9. /\ path = Got(e.path, a2) /\ member = Got(e.member, a3) /\ crc = Got(e.crc, a4)
        /\ check = Got(IF v = 3 THEN e.check ELSE NoCheckValue, b)
    BY <2>3, <2>4, <2>5, <2>6, <2>7, GotFields
  <2> HIDE DEF name, path, member, crc, check
  <2>10. DecodedFileInfo(v, words, a) =
           Got([name |-> e.name, path |-> e.path, member |-> e.member, crc |-> e.crc,
                check |-> IF v = 3 THEN e.check ELSE NoCheckValue], b)
    BY <2>3, <2>8, <2>9, GotFields
  <2>11. Unchecked(e) = [name |-> e.name, path |-> e.path, member |-> e.member, crc |-> e.crc,
                         check |-> NoCheckValue]
    BY <1>1 DEF Unchecked
  <2> QED BY <1>1, <2>10, <2>11 DEF ReadFile
<1> QED BY <1>6, <1>7

LEMMA LoadInfoDecoded ==
  ASSUME NEW e \in LoadInfo, NamesFit(e), StringsFit(e.thw)
  PROVE  /\ EncodedLoadInfo(e) \in Seq(Word)
         /\ \A words, a, b : Stands(words, a, EncodedLoadInfo(e), b) =>
              DecodedLoadInfo(words, a) = Got(e, b)
<1> DEFINE p == EncodedString(e.part)
           n == EncodedString(e.name)
           m == <<e.member>>
           h == EncodedStrings(e.thw)
<1>1. /\ e.name \in Text /\ e.part \in Text /\ e.thw \in Seq(Text)
      /\ e.member \in MediumNumber /\ e.member \in Word
      /\ StringFits(e.name) /\ StringFits(e.part)
      /\ e = [part |-> e.part, name |-> e.name, member |-> e.member, thw |-> e.thw]
  BY MemberWord DEF LoadInfo, NamesFit
<1>2. n \in Seq(Word) /\ p \in Seq(Word) /\ m \in Seq(Word) /\ h \in Seq(Word)
  BY <1>1, FieldWords
<1>3. EncodedLoadInfo(e) = p \o n \o m \o h
  BY DEF EncodedLoadInfo
<1> HIDE DEF n, p, m, h
<1>4. EncodedLoadInfo(e) \in Seq(Word)
  BY <1>2, <1>3, Joins
<1>5. ASSUME NEW words, NEW a, NEW b, Stands(words, a, EncodedLoadInfo(e), b)
      PROVE  DecodedLoadInfo(words, a) = Got(e, b)
  <2> DEFINE part == DecodedString(words, a)
             name == DecodedString(words, part.at)
             member == DecodedMember(words, name.at)
             thw == DecodedStrings(words, member.at)
  <2>1. PICK a1, a2, a3 : /\ Stands(words, a, p, a1) /\ Stands(words, a1, n, a2)
                          /\ Stands(words, a2, m, a3) /\ Stands(words, a3, h, b)
    BY <1>2, <1>3, <1>5, Split4
  <2>2. part = Got(e.part, a1)
    BY <1>1, <2>1, StringStands DEF p
  <2>3. DecodedString(words, a1) = Got(e.name, a2)
    BY <1>1, <2>1, StringStands DEF n
  <2>4. DecodedMember(words, a2) = Got(e.member, a3)
    BY <1>1, <2>1, WordStands DEF m
  <2>5. DecodedStrings(words, a3) = Got(e.thw, b)
    BY <1>1, <2>1, StringsStand DEF h
  <2>6. DecodedLoadInfo(words, a) =
          IF part.ok /\ name.ok /\ member.ok /\ thw.ok
          THEN Got([part |-> part.value, name |-> name.value, member |-> member.value,
                    thw |-> thw.value], thw.at)
          ELSE Failed
    BY DEF DecodedLoadInfo
  <2>7. name = Got(e.name, a2) /\ member = Got(e.member, a3) /\ thw = Got(e.thw, b)
    BY <2>2, <2>3, <2>4, <2>5, GotFields
  <2> HIDE DEF part, name, member, thw
  <2>8. DecodedLoadInfo(words, a) =
          Got([part |-> e.part, name |-> e.name, member |-> e.member, thw |-> e.thw], b)
    BY <2>2, <2>6, <2>7, GotFields
  <2> QED BY <1>1, <2>8
<1> QED BY <1>4, <1>5

LEMMA BatchInfoDecoded ==
  ASSUME NEW e \in BatchInfo, NamesFit(e)
  PROVE  /\ EncodedBatchInfo(e) \in Seq(Word)
         /\ \A words, a, b : Stands(words, a, EncodedBatchInfo(e), b) =>
              DecodedBatchInfo(words, a) = Got(e, b)
<1> DEFINE p == EncodedString(e.part)
           n == EncodedString(e.name)
           m == <<e.member>>
<1>1. /\ e.name \in Text /\ e.part \in Text
      /\ e.member \in MediumNumber /\ e.member \in Word
      /\ StringFits(e.name) /\ StringFits(e.part)
      /\ e = [part |-> e.part, name |-> e.name, member |-> e.member]
  BY MemberWord DEF BatchInfo, NamesFit
<1>2. n \in Seq(Word) /\ p \in Seq(Word) /\ m \in Seq(Word)
  BY <1>1, FieldWords
<1>3. EncodedBatchInfo(e) = p \o n \o m
  BY DEF EncodedBatchInfo
<1> HIDE DEF n, p, m
<1>4. EncodedBatchInfo(e) \in Seq(Word)
  BY <1>2, <1>3, Joins
<1>5. ASSUME NEW words, NEW a, NEW b, Stands(words, a, EncodedBatchInfo(e), b)
      PROVE  DecodedBatchInfo(words, a) = Got(e, b)
  <2> DEFINE part == DecodedString(words, a)
             name == DecodedString(words, part.at)
             member == DecodedMember(words, name.at)
  <2>1. PICK a1, a2 : /\ Stands(words, a, p, a1) /\ Stands(words, a1, n, a2)
                      /\ Stands(words, a2, m, b)
    BY <1>2, <1>3, <1>5, Split3
  <2>2. part = Got(e.part, a1)
    BY <1>1, <2>1, StringStands DEF p
  <2>3. DecodedString(words, a1) = Got(e.name, a2)
    BY <1>1, <2>1, StringStands DEF n
  <2>4. DecodedMember(words, a2) = Got(e.member, b)
    BY <1>1, <2>1, WordStands DEF m
  <2>5. DecodedBatchInfo(words, a) =
          IF part.ok /\ name.ok /\ member.ok
          THEN Got([part |-> part.value, name |-> name.value, member |-> member.value], member.at)
          ELSE Failed
    BY DEF DecodedBatchInfo
  <2>6. name = Got(e.name, a2) /\ member = Got(e.member, b)
    BY <2>2, <2>3, <2>4, GotFields
  <2> HIDE DEF part, name, member
  <2>7. DecodedBatchInfo(words, a) =
          Got([part |-> e.part, name |-> e.name, member |-> e.member], b)
    BY <2>2, <2>5, <2>6, GotFields
  <2> QED BY <1>1, <2>7
<1> QED BY <1>4, <1>5

LEMMA BatchLoadDecoded ==
  ASSUME NEW e \in BatchLoad, NamesFit(e)
  PROVE  /\ EncodedBatchLoad(e) \in Seq(Word)
         /\ \A words, a, b : Stands(words, a, EncodedBatchLoad(e), b) =>
              DecodedBatchLoad(words, a) = Got(e, b)
<1> DEFINE n == EncodedString(e.name)
           p == EncodedString(e.part)
<1>1. /\ e.name \in Text /\ e.part \in Text /\ StringFits(e.name) /\ StringFits(e.part)
      /\ e = [name |-> e.name, part |-> e.part]
  BY DEF BatchLoad, NamesFit
<1>2. n \in Seq(Word) /\ p \in Seq(Word)
  BY <1>1, FieldWords
<1>3. EncodedBatchLoad(e) = n \o p
  BY DEF EncodedBatchLoad
<1> HIDE DEF n, p
<1>4. EncodedBatchLoad(e) \in Seq(Word)
  BY <1>2, <1>3, Joins
<1>5. ASSUME NEW words, NEW a, NEW b, Stands(words, a, EncodedBatchLoad(e), b)
      PROVE  DecodedBatchLoad(words, a) = Got(e, b)
  <2> DEFINE name == DecodedString(words, a)
             part == DecodedString(words, name.at)
  <2>1. PICK a1 : Stands(words, a, n, a1) /\ Stands(words, a1, p, b)
    BY <1>2, <1>3, <1>5, Split2
  <2>2. name = Got(e.name, a1)
    BY <1>1, <2>1, StringStands DEF n
  <2>3. DecodedString(words, a1) = Got(e.part, b)
    BY <1>1, <2>1, StringStands DEF p
  <2>4. DecodedBatchLoad(words, a) =
          IF name.ok /\ part.ok THEN Got([name |-> name.value, part |-> part.value], part.at)
          ELSE Failed
    BY DEF DecodedBatchLoad
  <2>5. part = Got(e.part, b)
    BY <2>2, <2>3, GotFields
  <2> HIDE DEF name, part
  <2>6. DecodedBatchLoad(words, a) = Got([name |-> e.name, part |-> e.part], b)
    BY <2>2, <2>4, <2>5, GotFields
  <2> QED BY <1>1, <2>6
<1> QED BY <1>4, <1>5

-----------------------------------------------------------------------------
(* Lists of entries.                                                       *)

(* A list of n elements, and a decoder of the entries of a list.           *)
ListOf(values, n) == values = [i \in 1 .. n |-> values[i]]
Decodes(decoded, words, ents, values) ==
  \A i \in 1 .. Len(ents), p \in Places(words) : \A q :
    Stands(words, p, ents[i], q) => decoded[p] = Got(values[i], q)

LEMMA EntryWords ==
  ASSUME NEW n \in Nat, NEW ents, ListOf(ents, n),
         \A i \in 1 .. n : ents[i] \in Seq(Word)
  PROVE  ents \in Seq(Seq(Word)) /\ Len(ents) = n
<1> DEFINE W == Seq(Word)
<1>1. \A i \in 1 .. n : ents[i] \in W
  OBVIOUS
<1> HIDE DEF W
<1>2. ents \in [1 .. n -> W]
  BY <1>1 DEF ListOf
<1>3. ents \in Seq(W) /\ Len(ents) = n
  BY <1>2
<1> QED BY <1>3 DEF W

LEMMA ListOfValues ==
  ASSUME NEW n \in Nat, NEW values, ListOf(values, n)
  PROVE  values \in Seq({values[i] : i \in 1 .. n}) /\ Len(values) = n
<1> DEFINE V == {values[i] : i \in 1 .. n}
<1>1. \A i \in 1 .. n : values[i] \in V
  OBVIOUS
<1> HIDE DEF V
<1>2. values \in [1 .. n -> V]
  BY <1>1 DEF ListOf
<1>3. values \in Seq(V) /\ Len(values) = n
  BY <1>2
<1> QED BY <1>3 DEF V

LEMMA ManyStand ==
  ASSUME NEW words, NEW a, NEW b, NEW ents \in Seq(Seq(Word)), CountFits(ents),
         Stands(words, a, EncodedMany(ents), b),
         NEW values, ListOf(values, Len(ents)), NEW decoded,
         Decodes(decoded, words, ents, values)
  PROVE  DecodedMany(decoded, words, a) = Got(values, b)
<1> DEFINE n == Len(ents)
           V == {values[i] : i \in 1 .. n}
<1>1. n \in Nat /\ words \in Seq(Word) /\ a \in Nat /\ b = a + Len(EncodedMany(ents))
      /\ Holds(words, a, EncodedMany(ents))
  BY DEF Stands
<1>3. values \in Seq(V) /\ Len(values) = Len(ents)
  BY <1>1, ListOfValues
<1> HIDE DEF V
<1>4. ASSUME NEW i \in 1 .. n, NEW p \in Places(words), Holds(words, p, ents[i])
      PROVE  decoded[p] = Got(values[i], p + Len(ents[i]))
  <2>1. p \in Nat /\ ents[i] \in Seq(Word)
    BY DEF Places
  <2>2. Stands(words, p, ents[i], p + Len(ents[i]))
    BY <1>1, <1>4, <2>1 DEF Stands
  <2> QED BY <2>2 DEF Decodes
<1>5. DecodedMany(decoded, words, a) = Got(values, a + Len(EncodedMany(ents)))
  BY <1>1, <1>3, <1>4, ManyDecoded
<1> QED BY <1>1, <1>5

LEMMA ListStands ==
  ASSUME NEW words, NEW a, NEW b, NEW ents \in Seq(Seq(Word)), CountFits(ents), EntriesFit(ents),
         Stands(words, a, EncodedList(ents), b),
         NEW values, ListOf(values, Len(ents)), NEW decoded,
         Decodes(decoded, words, ents, values)
  PROVE  DecodedList(decoded, words, a).ok /\ DecodedList(decoded, words, a).value = values
<1> DEFINE n == Len(ents)
           V == {values[i] : i \in 1 .. n}
<1>1. n \in Nat /\ words \in Seq(Word) /\ a \in Nat /\ Holds(words, a, EncodedList(ents))
  BY DEF Stands
<1>3. values \in Seq(V) /\ Len(values) = Len(ents)
  BY <1>1, ListOfValues
<1> HIDE DEF V
<1>4. ASSUME NEW i \in 1 .. n, NEW p \in Places(words), Holds(words, p, ents[i])
      PROVE  decoded[p].ok /\ decoded[p].value = values[i]
  <2>1. p \in Nat /\ ents[i] \in Seq(Word)
    BY DEF Places
  <2>2. Stands(words, p, ents[i], p + Len(ents[i]))
    BY <1>1, <1>4, <2>1 DEF Stands
  <2>3. decoded[p] = Got(values[i], p + Len(ents[i]))
    BY <2>2 DEF Decodes
  <2> QED BY <2>3, GotFields
<1>5. Yields(decoded, words, ents, values)
  BY <1>4 DEF Yields
<1> QED BY <1>1, <1>3, <1>5, ListDecoded

LEMMA ListWords ==
  ASSUME NEW ents \in Seq(Seq(Word)), CountFits(ents)
  PROVE  EncodedList(ents) \in Seq(Word)
<1>1. Linked(ents) \in Seq(Seq(Word)) /\ Len(Linked(ents)) = Len(ents)
      /\ EncodedList(ents) = EncodedMany(Linked(ents))
  BY LinkedWords
<1>2. CountFits(Linked(ents))
  BY <1>1 DEF CountFits
<1> QED BY <1>1, <1>2, ManyWords

LEMMA TargetDecoded ==
  ASSUME NEW e \in BatchTarget, StringFits(e.position), CountFits(e.loads),
         \A j \in DOMAIN e.loads : NamesFit(e.loads[j])
  PROVE  /\ EncodedTarget(e) \in Seq(Word)
         /\ \A words, a, b : Stands(words, a, EncodedTarget(e), b) =>
              DecodedTarget(words, a) = Got(e, b)
<1> DEFINE p == EncodedString(e.position)
           ents == [i \in DOMAIN e.loads |-> EncodedBatchLoad(e.loads[i])]
           m == EncodedMany(ents)
           n == Len(e.loads)
<1>1. /\ e.position \in Text /\ e.loads \in Seq(BatchLoad) /\ n \in Nat /\ DOMAIN e.loads = 1 .. n
      /\ e = [position |-> e.position, loads |-> e.loads]
  BY DEF BatchTarget
<1>2. ASSUME NEW i \in 1 .. n
      PROVE  /\ ents[i] \in Seq(Word)
             /\ \A words, a, b : Stands(words, a, ents[i], b) =>
                  DecodedBatchLoad(words, a) = Got(e.loads[i], b)
  <2>1. e.loads[i] \in BatchLoad /\ NamesFit(e.loads[i]) /\ ents[i] = EncodedBatchLoad(e.loads[i])
    BY <1>1
  <2> HIDE DEF ents
  <2> QED BY <2>1, BatchLoadDecoded
<1>3. ListOf(ents, n)
  BY <1>1 DEF ListOf
<1>4. EncodedTarget(e) = p \o m
  BY DEF EncodedTarget
<1> HIDE DEF p, ents
<1>5. ents \in Seq(Seq(Word)) /\ Len(ents) = n
  BY <1>1, <1>2, <1>3, EntryWords
<1>6. CountFits(ents)
  BY <1>5 DEF CountFits
<1>7. p \in Seq(Word) /\ m \in Seq(Word)
  BY <1>1, <1>5, <1>6, FieldWords, ManyWords DEF p
<1>8. EncodedTarget(e) \in Seq(Word)
  BY <1>4, <1>7, Joins
<1>9. ASSUME NEW words, NEW a, NEW b, Stands(words, a, EncodedTarget(e), b)
      PROVE  DecodedTarget(words, a) = Got(e, b)
  <2> DEFINE decoded == [q \in Places(words) |-> DecodedBatchLoad(words, q)]
             position == DecodedString(words, a)
             loads == DecodedMany(decoded, words, position.at)
  <2>1. PICK a1 : Stands(words, a, p, a1) /\ Stands(words, a1, m, b)
    <3> HIDE DEF m
    <3> QED BY <1>4, <1>7, <1>9, Split2
  <2>2. position = Got(e.position, a1)
    BY <1>1, <2>1, StringStands DEF p
  <2>3. DecodedTarget(words, a) =
          IF position.ok /\ loads.ok
          THEN Got([position |-> position.value, loads |-> loads.value], loads.at) ELSE Failed
    BY DEF DecodedTarget
  <2>4. \A q \in Places(words) : decoded[q] = DecodedBatchLoad(words, q)
    OBVIOUS
  <2> HIDE DEF decoded
  <2>5. DecodedMany(decoded, words, a1) = Got(e.loads, b)
    <3>1. ListOf(e.loads, Len(ents))
      BY <1>1, <1>5 DEF ListOf
    <3>2. Decodes(decoded, words, ents, e.loads)
      BY <1>2, <1>5, <2>4 DEF Decodes
    <3> QED BY <1>5, <1>6, <2>1, <3>1, <3>2, ManyStand
  <2>6. loads = Got(e.loads, b)
    BY <2>2, <2>5, GotFields
  <2> HIDE DEF position, loads
  <2>7. DecodedTarget(words, a) = Got([position |-> e.position, loads |-> e.loads], b)
    BY <2>2, <2>3, <2>6, GotFields
  <2> QED BY <1>1, <2>7
<1> QED BY <1>8, <1>9

LEMMA MediaInformationDecoded ==
  ASSUME NEW f, f.part \in Text, f.media \in MediaInformation, StringFits(f.part)
  PROVE  /\ EncodedMediaInformation(f) \in Seq(Word)
         /\ \A words, a, b : Stands(words, a, EncodedMediaInformation(f), b) =>
              DecodedMediaInformation(words, a) = Got([part |-> f.part, media |-> f.media], b)
<1> DEFINE p == EncodedString(f.part)
           w == f.media.number * ByteBase + f.media.members
           m == <<w>>
<1>1. /\ f.media = [number |-> f.media.number, members |-> f.media.members]
      /\ f.media.number \in Byte \ {0} /\ f.media.members \in Byte \ {0}
  BY DEF MediaInformation, MediumNumber
<1>2. w \in Word /\ w \div ByteBase = f.media.number /\ w % ByteBase = f.media.members
  BY <1>1, ByteDigits
<1>3. EncodedMediaInformation(f) = p \o m
  BY DEF EncodedMediaInformation
<1> HIDE DEF p, w
<1>4. p \in Seq(Word) /\ m \in Seq(Word)
  BY <1>2, FieldWords DEF p
<1> HIDE DEF m
<1>5. EncodedMediaInformation(f) \in Seq(Word)
  BY <1>3, <1>4, Joins
<1>6. ASSUME NEW words, NEW a, NEW b, Stands(words, a, EncodedMediaInformation(f), b)
      PROVE  DecodedMediaInformation(words, a) = Got([part |-> f.part, media |-> f.media], b)
  <2> DEFINE part == DecodedString(words, a)
             numbers == words[part.at + 1]
  <2>1. PICK a1 : Stands(words, a, p, a1) /\ Stands(words, a1, m, b)
    BY <1>3, <1>4, <1>6, Split2
  <2>2. part = Got(f.part, a1)
    BY <2>1, StringStands DEF p
  <2>3. a1 \in Nat /\ words[a1 + 1] = w /\ Readable(words, a1, 1) /\ a1 + 1 = b
    <3>1. Len(m) = 1 /\ m[1] = w
      BY DEF m
    <3> QED BY <2>1, <3>1 DEF Stands, Holds, Readable
  <2>4. DecodedMediaInformation(words, a) =
          IF part.ok /\ Readable(words, part.at, 1)
          THEN Got([part |-> part.value,
                    media |-> [number |-> Media!MediumNumberOf(numbers \div ByteBase),
                               members |-> Media!MediumNumberOf(numbers % ByteBase)]], part.at + 1)
          ELSE Failed
    BY DEF DecodedMediaInformation
  <2>5. \A n \in Byte \ {0} : Media!MediumNumberOf(n) = n
    BY DEF Media!MediumNumberOf
  <2>6. part.at = a1 /\ part.ok /\ part.value = f.part
    BY <2>2, GotFields
  <2>7. numbers = w
    BY <2>3, <2>6
  <2>8. /\ Media!MediumNumberOf(numbers \div ByteBase) = f.media.number
        /\ Media!MediumNumberOf(numbers % ByteBase) = f.media.members
    BY <1>1, <1>2, <2>5, <2>7
  <2> HIDE DEF part, numbers
  <2>9. DecodedMediaInformation(words, a) =
          Got([part |-> f.part,
               media |-> [number |-> f.media.number, members |-> f.media.members]], b)
    BY <2>3, <2>4, <2>6, <2>8
  <2> QED BY <1>1, <2>9
<1> QED BY <1>5, <1>6

-----------------------------------------------------------------------------
(* The lists of the five kinds of files.                                   *)

LEMMA DataFilesWords ==
  ASSUME NEW f, f.version \in Supplement, f.data \in Seq(LoadFile), CountFits(f.data),
         \A i \in DOMAIN f.data :
           NamesFit(f.data[i]) /\ (f.data[i].length + 1) \div 2 \in DoubleWord
  PROVE  /\ DataFileEntries(f) \in Seq(Seq(Word)) /\ Len(DataFileEntries(f)) = Len(f.data)
         /\ CountFits(DataFileEntries(f)) /\ EncodedList(DataFileEntries(f)) \in Seq(Word)
<1> DEFINE ents == DataFileEntries(f)
           n == Len(f.data)
<1>1. f.data \in Seq(LoadFile) /\ n \in Nat /\ n \in Word /\ DOMAIN f.data = 1 .. n
  BY DEF CountFits
<1>2. ents = [i \in 1 .. n |-> EncodedDataFile(f.version, f.data[i])]
  BY <1>1 DEF DataFileEntries
<1>3. \A i \in 1 .. n : ents[i] = EncodedDataFile(f.version, f.data[i])
  BY <1>2
<1>4. ListOf(ents, n)
  BY <1>2 DEF ListOf
<1> HIDE DEF ents
<1>5. ASSUME NEW i \in 1 .. n
      PROVE  ents[i] \in Seq(Word)
  <2> DEFINE e == f.data[i]
  <2>1. e \in LoadFile /\ NamesFit(e) /\ (e.length + 1) \div 2 \in DoubleWord
    BY <1>1
  <2>2. ents[i] = EncodedDataFile(f.version, e)
    BY <1>3
  <2> HIDE DEF e
  <2> QED BY <2>1, <2>2, DataFileDecoded
<1>6. ents \in Seq(Seq(Word)) /\ Len(ents) = n
  BY <1>1, <1>4, <1>5, EntryWords
<1>7. CountFits(ents)
  BY <1>1, <1>6 DEF CountFits
<1>8. EncodedList(ents) \in Seq(Word)
  BY <1>6, <1>7, ListWords
<1> QED BY <1>6, <1>7, <1>8 DEF ents

LEMMA DataFilesDecoded ==
  ASSUME NEW f, f.version \in Supplement, f.data \in Seq(LoadFile), CountFits(f.data),
         \A i \in DOMAIN f.data :
           NamesFit(f.data[i]) /\ (f.data[i].length + 1) \div 2 \in DoubleWord,
         EntriesFit(DataFileEntries(f)),
         NEW words, NEW a, NEW b, Stands(words, a, EncodedList(DataFileEntries(f)), b)
  PROVE  LET list == DecodedList([p \in Places(words) |->
                                DecodedDataFile(f.version, words, p)], words, a)
         IN list.ok /\ list.value = [i \in DOMAIN f.data |-> ReadDataFile(f.version, f.data[i])]
<1> DEFINE ents == DataFileEntries(f)
           n == Len(f.data)
           values == [i \in 1 .. n |-> ReadDataFile(f.version, f.data[i])]
           decoded == [p \in Places(words) |-> DecodedDataFile(f.version, words, p)]
<1>1. /\ ents \in Seq(Seq(Word)) /\ Len(ents) = n /\ CountFits(ents) /\ EntriesFit(ents)
      /\ Stands(words, a, EncodedList(ents), b)
  BY DataFilesWords
<1>2. n \in Nat /\ DOMAIN f.data = 1 .. n /\ f.data = [i \in 1 .. n |-> f.data[i]]
  BY DEF CountFits
<1>3. ListOf(values, n)
  BY DEF ListOf
<1>4. \A i \in 1 .. n : ents[i] = EncodedDataFile(f.version, f.data[i])
  BY <1>2 DEF DataFileEntries
<1>5. \A i \in 1 .. n : values[i] = ReadDataFile(f.version, f.data[i])
  OBVIOUS
<1>6. \A p \in Places(words) : decoded[p] = DecodedDataFile(f.version, words, p)
  OBVIOUS
<1>7. f.data \in Seq(LoadFile) /\ \A i \in 1 .. n : NamesFit(f.data[i])
           /\ (f.data[i].length + 1) \div 2 \in DoubleWord
  BY <1>2
<1>8. values = [i \in DOMAIN f.data |-> ReadDataFile(f.version, f.data[i])]
  BY <1>2
<1> HIDE DEF ents, values, decoded
<1>9. ASSUME NEW i \in 1 .. n, NEW p \in Places(words), NEW q, Stands(words, p, ents[i], q)
      PROVE  decoded[p] = Got(values[i], q)
  <2> DEFINE e == f.data[i]
  <2>1. e \in LoadFile /\ NamesFit(e) /\ (e.length + 1) \div 2 \in DoubleWord
    BY <1>7
  <2>2. ents[i] = EncodedDataFile(f.version, e) /\ values[i] = ReadDataFile(f.version, e)
    BY <1>4, <1>5
  <2>3. decoded[p] = DecodedDataFile(f.version, words, p)
    BY <1>6
  <2> HIDE DEF e, n
  <2> QED BY <1>9, <2>1, <2>2, <2>3, DataFileDecoded
<1>10. Decodes(decoded, words, ents, values)
  BY <1>1, <1>9 DEF Decodes
<1>11. DecodedList(decoded, words, a).ok /\ DecodedList(decoded, words, a).value = values
  BY <1>1, <1>3, <1>10, ListStands
<1> QED BY <1>8, <1>11 DEF decoded

LEMMA SupportFilesWords ==
  ASSUME NEW f, f.version \in Supplement, f.support \in Seq(LoadFile), CountFits(f.support),
         \A i \in DOMAIN f.support : NamesFit(f.support[i]) /\ f.support[i].length \in DoubleWord
  PROVE  /\ SupportFileEntries(f) \in Seq(Seq(Word)) /\ Len(SupportFileEntries(f)) = Len(f.support)
         /\ CountFits(SupportFileEntries(f)) /\ EncodedList(SupportFileEntries(f)) \in Seq(Word)
<1> DEFINE ents == SupportFileEntries(f)
           n == Len(f.support)
<1>1. f.support \in Seq(LoadFile) /\ n \in Nat /\ n \in Word /\ DOMAIN f.support = 1 .. n
  BY DEF CountFits
<1>2. ents = [i \in 1 .. n |-> EncodedSupportFile(f.version, f.support[i])]
  BY <1>1 DEF SupportFileEntries
<1>3. \A i \in 1 .. n : ents[i] = EncodedSupportFile(f.version, f.support[i])
  BY <1>2
<1>4. ListOf(ents, n)
  BY <1>2 DEF ListOf
<1> HIDE DEF ents
<1>5. ASSUME NEW i \in 1 .. n
      PROVE  ents[i] \in Seq(Word)
  <2> DEFINE e == f.support[i]
  <2>1. e \in LoadFile /\ NamesFit(e) /\ e.length \in DoubleWord
    BY <1>1
  <2>2. ents[i] = EncodedSupportFile(f.version, e)
    BY <1>3
  <2> HIDE DEF e
  <2> QED BY <2>1, <2>2, SupportFileDecoded
<1>6. ents \in Seq(Seq(Word)) /\ Len(ents) = n
  BY <1>1, <1>4, <1>5, EntryWords
<1>7. CountFits(ents)
  BY <1>1, <1>6 DEF CountFits
<1>8. EncodedList(ents) \in Seq(Word)
  BY <1>6, <1>7, ListWords
<1> QED BY <1>6, <1>7, <1>8 DEF ents

LEMMA SupportFilesDecoded ==
  ASSUME NEW f, f.version \in Supplement, f.support \in Seq(LoadFile), CountFits(f.support),
         \A i \in DOMAIN f.support : NamesFit(f.support[i]) /\ f.support[i].length \in DoubleWord,
         EntriesFit(SupportFileEntries(f)),
         NEW words, NEW a, NEW b, Stands(words, a, EncodedList(SupportFileEntries(f)), b)
  PROVE  LET list == DecodedList([p \in Places(words) |->
                                DecodedSupportFile(f.version, words, p)], words, a)
         IN list.ok /\ list.value = [i \in DOMAIN f.support |-> ReadFile(f.version, f.support[i])]
<1> DEFINE ents == SupportFileEntries(f)
           n == Len(f.support)
           values == [i \in 1 .. n |-> ReadFile(f.version, f.support[i])]
           decoded == [p \in Places(words) |-> DecodedSupportFile(f.version, words, p)]
<1>1. /\ ents \in Seq(Seq(Word)) /\ Len(ents) = n /\ CountFits(ents) /\ EntriesFit(ents)
      /\ Stands(words, a, EncodedList(ents), b)
  BY SupportFilesWords
<1>2. n \in Nat /\ DOMAIN f.support = 1 .. n /\ f.support = [i \in 1 .. n |-> f.support[i]]
  BY DEF CountFits
<1>3. ListOf(values, n)
  BY DEF ListOf
<1>4. \A i \in 1 .. n : ents[i] = EncodedSupportFile(f.version, f.support[i])
  BY <1>2 DEF SupportFileEntries
<1>5. \A i \in 1 .. n : values[i] = ReadFile(f.version, f.support[i])
  OBVIOUS
<1>6. \A p \in Places(words) : decoded[p] = DecodedSupportFile(f.version, words, p)
  OBVIOUS
<1>7. f.support \in Seq(LoadFile) /\ \A i \in 1 .. n : NamesFit(f.support[i])
           /\ f.support[i].length \in DoubleWord
  BY <1>2
<1>8. values = [i \in DOMAIN f.support |-> ReadFile(f.version, f.support[i])]
  BY <1>2
<1> HIDE DEF ents, values, decoded
<1>9. ASSUME NEW i \in 1 .. n, NEW p \in Places(words), NEW q, Stands(words, p, ents[i], q)
      PROVE  decoded[p] = Got(values[i], q)
  <2> DEFINE e == f.support[i]
  <2>1. e \in LoadFile /\ NamesFit(e) /\ e.length \in DoubleWord
    BY <1>7
  <2>2. ents[i] = EncodedSupportFile(f.version, e) /\ values[i] = ReadFile(f.version, e)
    BY <1>4, <1>5
  <2>3. decoded[p] = DecodedSupportFile(f.version, words, p)
    BY <1>6
  <2> HIDE DEF e, n
  <2> QED BY <1>9, <2>1, <2>2, <2>3, SupportFileDecoded
<1>10. Decodes(decoded, words, ents, values)
  BY <1>1, <1>9 DEF Decodes
<1>11. DecodedList(decoded, words, a).ok /\ DecodedList(decoded, words, a).value = values
  BY <1>1, <1>3, <1>10, ListStands
<1> QED BY <1>8, <1>11 DEF decoded

LEMMA FileInfosWords ==
  ASSUME NEW f, f.version \in Supplement, f.files \in Seq(FileInfo), CountFits(f.files),
         \A i \in DOMAIN f.files : (StringFits(f.files[i].name) /\ StringFits(f.files[i].path))
  PROVE  /\ FileEntries(f) \in Seq(Seq(Word)) /\ Len(FileEntries(f)) = Len(f.files)
         /\ CountFits(FileEntries(f)) /\ EncodedList(FileEntries(f)) \in Seq(Word)
<1> DEFINE ents == FileEntries(f)
           n == Len(f.files)
<1>1. f.files \in Seq(FileInfo) /\ n \in Nat /\ n \in Word /\ DOMAIN f.files = 1 .. n
  BY DEF CountFits
<1>2. ents = [i \in 1 .. n |-> EncodedFileInfo(f.version, f.files[i])]
  BY <1>1 DEF FileEntries
<1>3. \A i \in 1 .. n : ents[i] = EncodedFileInfo(f.version, f.files[i])
  BY <1>2
<1>4. ListOf(ents, n)
  BY <1>2 DEF ListOf
<1> HIDE DEF ents
<1>5. ASSUME NEW i \in 1 .. n
      PROVE  ents[i] \in Seq(Word)
  <2> DEFINE e == f.files[i]
  <2>1. e \in FileInfo /\ (StringFits(e.name) /\ StringFits(e.path))
    BY <1>1
  <2>2. ents[i] = EncodedFileInfo(f.version, e)
    BY <1>3
  <2> HIDE DEF e
  <2> QED BY <2>1, <2>2, FileInfoDecoded
<1>6. ents \in Seq(Seq(Word)) /\ Len(ents) = n
  BY <1>1, <1>4, <1>5, EntryWords
<1>7. CountFits(ents)
  BY <1>1, <1>6 DEF CountFits
<1>8. EncodedList(ents) \in Seq(Word)
  BY <1>6, <1>7, ListWords
<1> QED BY <1>6, <1>7, <1>8 DEF ents

LEMMA FileInfosDecoded ==
  ASSUME NEW f, f.version \in Supplement, f.files \in Seq(FileInfo), CountFits(f.files),
         \A i \in DOMAIN f.files : (StringFits(f.files[i].name) /\ StringFits(f.files[i].path)),
         EntriesFit(FileEntries(f)),
         NEW words, NEW a, NEW b, Stands(words, a, EncodedList(FileEntries(f)), b)
  PROVE  LET list == DecodedList([p \in Places(words) |->
                                DecodedFileInfo(f.version, words, p)], words, a)
         IN list.ok /\ list.value = [i \in DOMAIN f.files |-> ReadFile(f.version, f.files[i])]
<1> DEFINE ents == FileEntries(f)
           n == Len(f.files)
           values == [i \in 1 .. n |-> ReadFile(f.version, f.files[i])]
           decoded == [p \in Places(words) |-> DecodedFileInfo(f.version, words, p)]
<1>1. /\ ents \in Seq(Seq(Word)) /\ Len(ents) = n /\ CountFits(ents) /\ EntriesFit(ents)
      /\ Stands(words, a, EncodedList(ents), b)
  BY FileInfosWords
<1>2. n \in Nat /\ DOMAIN f.files = 1 .. n /\ f.files = [i \in 1 .. n |-> f.files[i]]
  BY DEF CountFits
<1>3. ListOf(values, n)
  BY DEF ListOf
<1>4. \A i \in 1 .. n : ents[i] = EncodedFileInfo(f.version, f.files[i])
  BY <1>2 DEF FileEntries
<1>5. \A i \in 1 .. n : values[i] = ReadFile(f.version, f.files[i])
  OBVIOUS
<1>6. \A p \in Places(words) : decoded[p] = DecodedFileInfo(f.version, words, p)
  OBVIOUS
<1>7. f.files \in Seq(FileInfo) /\ \A i \in 1 .. n : (StringFits(f.files[i].name)
           /\ StringFits(f.files[i].path))
  BY <1>2
<1>8. values = [i \in DOMAIN f.files |-> ReadFile(f.version, f.files[i])]
  BY <1>2
<1> HIDE DEF ents, values, decoded
<1>9. ASSUME NEW i \in 1 .. n, NEW p \in Places(words), NEW q, Stands(words, p, ents[i], q)
      PROVE  decoded[p] = Got(values[i], q)
  <2> DEFINE e == f.files[i]
  <2>1. e \in FileInfo /\ (StringFits(e.name) /\ StringFits(e.path))
    BY <1>7
  <2>2. ents[i] = EncodedFileInfo(f.version, e) /\ values[i] = ReadFile(f.version, e)
    BY <1>4, <1>5
  <2>3. decoded[p] = DecodedFileInfo(f.version, words, p)
    BY <1>6
  <2> HIDE DEF e, n
  <2> QED BY <1>9, <2>1, <2>2, <2>3, FileInfoDecoded
<1>10. Decodes(decoded, words, ents, values)
  BY <1>1, <1>9 DEF Decodes
<1>11. DecodedList(decoded, words, a).ok /\ DecodedList(decoded, words, a).value = values
  BY <1>1, <1>3, <1>10, ListStands
<1> QED BY <1>8, <1>11 DEF decoded

LEMMA LoadInfosWords ==
  ASSUME NEW f, f.loads \in Seq(LoadInfo), CountFits(f.loads),
         \A i \in DOMAIN f.loads : NamesFit(f.loads[i]) /\ StringsFit(f.loads[i].thw)
  PROVE  /\ LoadEntries(f) \in Seq(Seq(Word)) /\ Len(LoadEntries(f)) = Len(f.loads)
         /\ CountFits(LoadEntries(f)) /\ EncodedList(LoadEntries(f)) \in Seq(Word)
<1> DEFINE ents == LoadEntries(f)
           n == Len(f.loads)
<1>1. f.loads \in Seq(LoadInfo) /\ n \in Nat /\ n \in Word /\ DOMAIN f.loads = 1 .. n
  BY DEF CountFits
<1>2. ents = [i \in 1 .. n |-> EncodedLoadInfo(f.loads[i])]
  BY <1>1 DEF LoadEntries
<1>3. \A i \in 1 .. n : ents[i] = EncodedLoadInfo(f.loads[i])
  BY <1>2
<1>4. ListOf(ents, n)
  BY <1>2 DEF ListOf
<1> HIDE DEF ents
<1>5. ASSUME NEW i \in 1 .. n
      PROVE  ents[i] \in Seq(Word)
  <2> DEFINE e == f.loads[i]
  <2>1. e \in LoadInfo /\ NamesFit(e) /\ StringsFit(e.thw)
    BY <1>1
  <2>2. ents[i] = EncodedLoadInfo(e)
    BY <1>3
  <2> HIDE DEF e
  <2> QED BY <2>1, <2>2, LoadInfoDecoded
<1>6. ents \in Seq(Seq(Word)) /\ Len(ents) = n
  BY <1>1, <1>4, <1>5, EntryWords
<1>7. CountFits(ents)
  BY <1>1, <1>6 DEF CountFits
<1>8. EncodedList(ents) \in Seq(Word)
  BY <1>6, <1>7, ListWords
<1> QED BY <1>6, <1>7, <1>8 DEF ents

LEMMA LoadInfosDecoded ==
  ASSUME NEW f, f.loads \in Seq(LoadInfo), CountFits(f.loads),
         \A i \in DOMAIN f.loads : NamesFit(f.loads[i]) /\ StringsFit(f.loads[i].thw),
         EntriesFit(LoadEntries(f)),
         NEW words, NEW a, NEW b, Stands(words, a, EncodedList(LoadEntries(f)), b)
  PROVE  LET list == DecodedList([p \in Places(words) |-> DecodedLoadInfo(words, p)], words, a)
         IN list.ok /\ list.value = f.loads
<1> DEFINE ents == LoadEntries(f)
           n == Len(f.loads)
           values == [i \in 1 .. n |-> f.loads[i]]
           decoded == [p \in Places(words) |-> DecodedLoadInfo(words, p)]
<1>1. /\ ents \in Seq(Seq(Word)) /\ Len(ents) = n /\ CountFits(ents) /\ EntriesFit(ents)
      /\ Stands(words, a, EncodedList(ents), b)
  BY LoadInfosWords
<1>2. n \in Nat /\ DOMAIN f.loads = 1 .. n /\ f.loads = [i \in 1 .. n |-> f.loads[i]]
  BY DEF CountFits
<1>3. ListOf(values, n)
  BY DEF ListOf
<1>4. \A i \in 1 .. n : ents[i] = EncodedLoadInfo(f.loads[i])
  BY <1>2 DEF LoadEntries
<1>5. \A i \in 1 .. n : values[i] = f.loads[i]
  OBVIOUS
<1>6. \A p \in Places(words) : decoded[p] = DecodedLoadInfo(words, p)
  OBVIOUS
<1>7. f.loads \in Seq(LoadInfo) /\ \A i \in 1 .. n : NamesFit(f.loads[i])
           /\ StringsFit(f.loads[i].thw)
  BY <1>2
<1>8. values = f.loads
  BY <1>2
<1> HIDE DEF ents, values, decoded
<1>9. ASSUME NEW i \in 1 .. n, NEW p \in Places(words), NEW q, Stands(words, p, ents[i], q)
      PROVE  decoded[p] = Got(values[i], q)
  <2> DEFINE e == f.loads[i]
  <2>1. e \in LoadInfo /\ NamesFit(e) /\ StringsFit(e.thw)
    BY <1>7
  <2>2. ents[i] = EncodedLoadInfo(e) /\ values[i] = e
    BY <1>4, <1>5
  <2>3. decoded[p] = DecodedLoadInfo(words, p)
    BY <1>6
  <2> HIDE DEF e, n
  <2> QED BY <1>9, <2>1, <2>2, <2>3, LoadInfoDecoded
<1>10. Decodes(decoded, words, ents, values)
  BY <1>1, <1>9 DEF Decodes
<1>11. DecodedList(decoded, words, a).ok /\ DecodedList(decoded, words, a).value = values
  BY <1>1, <1>3, <1>10, ListStands
<1> QED BY <1>8, <1>11 DEF decoded

LEMMA BatchInfosWords ==
  ASSUME NEW f, f.batches \in Seq(BatchInfo), CountFits(f.batches),
         \A i \in DOMAIN f.batches : NamesFit(f.batches[i])
  PROVE  /\ BatchEntries(f) \in Seq(Seq(Word)) /\ Len(BatchEntries(f)) = Len(f.batches)
         /\ CountFits(BatchEntries(f)) /\ EncodedList(BatchEntries(f)) \in Seq(Word)
<1> DEFINE ents == BatchEntries(f)
           n == Len(f.batches)
<1>1. f.batches \in Seq(BatchInfo) /\ n \in Nat /\ n \in Word /\ DOMAIN f.batches = 1 .. n
  BY DEF CountFits
<1>2. ents = [i \in 1 .. n |-> EncodedBatchInfo(f.batches[i])]
  BY <1>1 DEF BatchEntries
<1>3. \A i \in 1 .. n : ents[i] = EncodedBatchInfo(f.batches[i])
  BY <1>2
<1>4. ListOf(ents, n)
  BY <1>2 DEF ListOf
<1> HIDE DEF ents
<1>5. ASSUME NEW i \in 1 .. n
      PROVE  ents[i] \in Seq(Word)
  <2> DEFINE e == f.batches[i]
  <2>1. e \in BatchInfo /\ NamesFit(e)
    BY <1>1
  <2>2. ents[i] = EncodedBatchInfo(e)
    BY <1>3
  <2> HIDE DEF e
  <2> QED BY <2>1, <2>2, BatchInfoDecoded
<1>6. ents \in Seq(Seq(Word)) /\ Len(ents) = n
  BY <1>1, <1>4, <1>5, EntryWords
<1>7. CountFits(ents)
  BY <1>1, <1>6 DEF CountFits
<1>8. EncodedList(ents) \in Seq(Word)
  BY <1>6, <1>7, ListWords
<1> QED BY <1>6, <1>7, <1>8 DEF ents

LEMMA BatchInfosDecoded ==
  ASSUME NEW f, f.batches \in Seq(BatchInfo), CountFits(f.batches),
         \A i \in DOMAIN f.batches : NamesFit(f.batches[i]),
         EntriesFit(BatchEntries(f)),
         NEW words, NEW a, NEW b, Stands(words, a, EncodedList(BatchEntries(f)), b)
  PROVE  LET list == DecodedList([p \in Places(words) |-> DecodedBatchInfo(words, p)], words, a)
         IN list.ok /\ list.value = f.batches
<1> DEFINE ents == BatchEntries(f)
           n == Len(f.batches)
           values == [i \in 1 .. n |-> f.batches[i]]
           decoded == [p \in Places(words) |-> DecodedBatchInfo(words, p)]
<1>1. /\ ents \in Seq(Seq(Word)) /\ Len(ents) = n /\ CountFits(ents) /\ EntriesFit(ents)
      /\ Stands(words, a, EncodedList(ents), b)
  BY BatchInfosWords
<1>2. n \in Nat /\ DOMAIN f.batches = 1 .. n /\ f.batches = [i \in 1 .. n |-> f.batches[i]]
  BY DEF CountFits
<1>3. ListOf(values, n)
  BY DEF ListOf
<1>4. \A i \in 1 .. n : ents[i] = EncodedBatchInfo(f.batches[i])
  BY <1>2 DEF BatchEntries
<1>5. \A i \in 1 .. n : values[i] = f.batches[i]
  OBVIOUS
<1>6. \A p \in Places(words) : decoded[p] = DecodedBatchInfo(words, p)
  OBVIOUS
<1>7. f.batches \in Seq(BatchInfo) /\ \A i \in 1 .. n : NamesFit(f.batches[i])
  BY <1>2
<1>8. values = f.batches
  BY <1>2
<1> HIDE DEF ents, values, decoded
<1>9. ASSUME NEW i \in 1 .. n, NEW p \in Places(words), NEW q, Stands(words, p, ents[i], q)
      PROVE  decoded[p] = Got(values[i], q)
  <2> DEFINE e == f.batches[i]
  <2>1. e \in BatchInfo /\ NamesFit(e)
    BY <1>7
  <2>2. ents[i] = EncodedBatchInfo(e) /\ values[i] = e
    BY <1>4, <1>5
  <2>3. decoded[p] = DecodedBatchInfo(words, p)
    BY <1>6
  <2> HIDE DEF e, n
  <2> QED BY <1>9, <2>1, <2>2, <2>3, BatchInfoDecoded
<1>10. Decodes(decoded, words, ents, values)
  BY <1>1, <1>9 DEF Decodes
<1>11. DecodedList(decoded, words, a).ok /\ DecodedList(decoded, words, a).value = values
  BY <1>1, <1>3, <1>10, ListStands
<1> QED BY <1>8, <1>11 DEF decoded

LEMMA TargetsWords ==
  ASSUME NEW f, f.targets \in Seq(BatchTarget), CountFits(f.targets),
         \A i \in DOMAIN f.targets :
           /\ StringFits(f.targets[i].position) /\ CountFits(f.targets[i].loads)
           /\ \A j \in DOMAIN f.targets[i].loads : NamesFit(f.targets[i].loads[j])
  PROVE  /\ TargetEntries(f) \in Seq(Seq(Word)) /\ Len(TargetEntries(f)) = Len(f.targets)
         /\ CountFits(TargetEntries(f)) /\ EncodedList(TargetEntries(f)) \in Seq(Word)
<1> DEFINE ents == TargetEntries(f)
           n == Len(f.targets)
<1>1. f.targets \in Seq(BatchTarget) /\ n \in Nat /\ n \in Word /\ DOMAIN f.targets = 1 .. n
  BY DEF CountFits
<1>2. ents = [i \in 1 .. n |-> EncodedTarget(f.targets[i])]
  BY <1>1 DEF TargetEntries
<1>3. \A i \in 1 .. n : ents[i] = EncodedTarget(f.targets[i])
  BY <1>2
<1>4. ListOf(ents, n)
  BY <1>2 DEF ListOf
<1> HIDE DEF ents
<1>5. ASSUME NEW i \in 1 .. n
      PROVE  ents[i] \in Seq(Word)
  <2> DEFINE e == f.targets[i]
  <2>1. /\ e \in BatchTarget /\ StringFits(e.position) /\ CountFits(e.loads)
        /\ \A j \in DOMAIN e.loads : NamesFit(e.loads[j])
    BY <1>1
  <2>2. ents[i] = EncodedTarget(e)
    BY <1>3
  <2> HIDE DEF e
  <2> QED BY <2>1, <2>2, TargetDecoded
<1>6. ents \in Seq(Seq(Word)) /\ Len(ents) = n
  BY <1>1, <1>4, <1>5, EntryWords
<1>7. CountFits(ents)
  BY <1>1, <1>6 DEF CountFits
<1>8. EncodedList(ents) \in Seq(Word)
  BY <1>6, <1>7, ListWords
<1> QED BY <1>6, <1>7, <1>8 DEF ents

LEMMA TargetsDecoded ==
  ASSUME NEW f, f.targets \in Seq(BatchTarget), CountFits(f.targets),
         \A i \in DOMAIN f.targets :
           /\ StringFits(f.targets[i].position) /\ CountFits(f.targets[i].loads)
           /\ \A j \in DOMAIN f.targets[i].loads : NamesFit(f.targets[i].loads[j]),
         EntriesFit(TargetEntries(f)),
         NEW words, NEW a, NEW b, Stands(words, a, EncodedList(TargetEntries(f)), b)
  PROVE  LET list == DecodedList([p \in Places(words) |-> DecodedTarget(words, p)], words, a)
         IN list.ok /\ list.value = f.targets
<1> DEFINE ents == TargetEntries(f)
           n == Len(f.targets)
           values == [i \in 1 .. n |-> f.targets[i]]
           decoded == [p \in Places(words) |-> DecodedTarget(words, p)]
<1>1. /\ ents \in Seq(Seq(Word)) /\ Len(ents) = n /\ CountFits(ents) /\ EntriesFit(ents)
      /\ Stands(words, a, EncodedList(ents), b)
  BY TargetsWords
<1>2. n \in Nat /\ DOMAIN f.targets = 1 .. n /\ f.targets = [i \in 1 .. n |-> f.targets[i]]
  BY DEF CountFits
<1>3. ListOf(values, n)
  BY DEF ListOf
<1>4. \A i \in 1 .. n : ents[i] = EncodedTarget(f.targets[i])
  BY <1>2 DEF TargetEntries
<1>5. \A i \in 1 .. n : values[i] = f.targets[i]
  OBVIOUS
<1>6. \A p \in Places(words) : decoded[p] = DecodedTarget(words, p)
  OBVIOUS
<1>7. f.targets \in Seq(BatchTarget) /\ \A i \in 1 .. n : (/\ StringFits(f.targets[i].position)
           /\ CountFits(f.targets[i].loads)
            /\ \A j \in DOMAIN f.targets[i].loads : NamesFit(f.targets[i].loads[j]))
  BY <1>2
<1>8. values = f.targets
  BY <1>2
<1> HIDE DEF ents, values, decoded
<1>9. ASSUME NEW i \in 1 .. n, NEW p \in Places(words), NEW q, Stands(words, p, ents[i], q)
      PROVE  decoded[p] = Got(values[i], q)
  <2> DEFINE e == f.targets[i]
  <2>1. /\ e \in BatchTarget /\ StringFits(e.position) /\ CountFits(e.loads)
        /\ \A j \in DOMAIN e.loads : NamesFit(e.loads[j])
    BY <1>7
  <2>2. ents[i] = EncodedTarget(e) /\ values[i] = e
    BY <1>4, <1>5
  <2>3. decoded[p] = DecodedTarget(words, p)
    BY <1>6
  <2> HIDE DEF e, n
  <2> QED BY <1>9, <2>1, <2>2, <2>3, TargetDecoded
<1>10. Decodes(decoded, words, ents, values)
  BY <1>1, <1>9 DEF Decodes
<1>11. DecodedList(decoded, words, a).ok /\ DecodedList(decoded, words, a).value = values
  BY <1>1, <1>3, <1>10, ListStands
<1> QED BY <1>8, <1>11 DEF decoded

-----------------------------------------------------------------------------
(* Hardware with positions.                                                *)

LEMMA FlattenedWords ==
  ASSUME NEW ss \in Seq(Seq(Word))
  PROVE  FlattenSeq(ss) \in Seq(Word)
<1>1. Len(ss) \in 0 .. Len(ss)
  OBVIOUS
<1> QED BY <1>1, Flatten

LEMMA PositionsSectionDecoded ==
  ASSUME NEW ps \in Seq(HardwarePositions),
         \A i \in DOMAIN ps : StringFits(ps[i].thw) /\ StringsFit(ps[i].positions)
  PROVE  /\ PositionsSection(ps) \in Seq(Word)
         /\ ps = <<>> => PositionsSection(ps) = <<>>
         /\ CountFits(ps) /\ ps # <<>> =>
              /\ PositionsSection(ps) # <<>>
              /\ \A words, a, b : Stands(words, a, PositionsSection(ps), b) =>
                   DecodedMany([p \in Places(words) |-> DecodedPositions(words, p)], words, a)
                     = Got(ps, b)
<1> DEFINE ents == [i \in DOMAIN ps |-> EncodedPositions(ps[i])]
           k == Len(ps)
           n == k % WordBase
<1>1. k \in Nat /\ DOMAIN ps = 1 .. k /\ n \in Word /\ <<n>> \in Seq(Word)
  <2>1. k \in Nat /\ DOMAIN ps = 1 .. k
    OBVIOUS
  <2>2. n \in Word
    BY <2>1, Bases DEF Word
  <2> QED BY <2>1, <2>2
<1>2. ASSUME NEW i \in 1 .. k
      PROVE  /\ ents[i] \in Seq(Word)
             /\ \A words, p, q : Stands(words, p, ents[i], q) =>
                  DecodedPositions(words, p) = Got(ps[i], q)
  <2> DEFINE e == ps[i]
  <2>1. e \in HardwarePositions /\ StringFits(e.thw) /\ StringsFit(e.positions)
    BY <1>1
  <2>2. ents[i] = EncodedPositions(e)
    BY <1>1
  <2> HIDE DEF e, ents
  <2>3. /\ ents[i] \in Seq(Word)
        /\ \A words, p, q : Stands(words, p, ents[i], q) => DecodedPositions(words, p) = Got(e, q)
    BY <2>1, <2>2, PositionsDecoded
  <2> QED BY <2>3 DEF e
<1>3. ListOf(ents, k) /\ ListOf(ps, k)
  BY <1>1 DEF ListOf
<1>4. PositionsSection(ps) = IF n = 0 THEN <<>> ELSE <<n>> \o FlattenSeq(ents)
  BY DEF PositionsSection
<1> HIDE DEF ents
<1>5. ents \in Seq(Seq(Word)) /\ Len(ents) = k
  BY <1>1, <1>2, <1>3, EntryWords
<1>6. PositionsSection(ps) \in Seq(Word)
  <2>1. FlattenSeq(ents) \in Seq(Word)
    BY <1>5, FlattenedWords
  <2> HIDE DEF n
  <2>2. <<n>> \o FlattenSeq(ents) \in Seq(Word)
    BY <1>1, <2>1, Joins
  <2> QED BY <1>4, <2>2
<1>7. ps = <<>> => PositionsSection(ps) = <<>>
  <2>1. ps = <<>> => k = 0
    OBVIOUS
  <2>2. 0 % WordBase = 0
    BY Bases
  <2> QED BY <1>4, <2>1, <2>2
<1>8. ASSUME CountFits(ps), ps # <<>>
      PROVE  /\ PositionsSection(ps) # <<>>
             /\ \A words, a, b : Stands(words, a, PositionsSection(ps), b) =>
                  DecodedMany([p \in Places(words) |-> DecodedPositions(words, p)], words, a)
                    = Got(ps, b)
  <2>1. n = k
    <3>1. k \in 0 .. WordBase - 1 /\ 0 \in 0 .. WordBase - 1 /\ WordBase \in Nat /\ WordBase > 0
      BY <1>8, Bases DEF CountFits, Word
    <3> QED BY <3>1, Remainders
  <2>2. k # 0
    BY <1>1, <1>8, EmptySeq
  <2>3. PositionsSection(ps) = EncodedMany(ents) /\ CountFits(ents)
    BY <1>4, <1>5, <1>8, <2>1, <2>2 DEF EncodedMany, CountFits
  <2>4. PositionsSection(ps) # <<>>
    <3>1. Len(EncodedMany(ents)) = 1 + Len(FlattenSeq(ents)) /\ FlattenSeq(ents) \in Seq(Word)
      BY <1>5, <2>3, ManyWords
    <3>2. Len(EncodedMany(ents)) # 0
      BY <3>1
    <3> QED BY <2>3, <3>2
  <2>5. ASSUME NEW words, NEW a, NEW b, Stands(words, a, PositionsSection(ps), b)
        PROVE  DecodedMany([p \in Places(words) |-> DecodedPositions(words, p)], words, a)
                 = Got(ps, b)
    <3> DEFINE decoded == [p \in Places(words) |-> DecodedPositions(words, p)]
    <3>1. Decodes(decoded, words, ents, ps)
      BY <1>2, <1>5 DEF Decodes
    <3> HIDE DEF decoded
    <3>2. DecodedMany(decoded, words, a) = Got(ps, b)
      BY <1>3, <1>5, <2>3, <2>5, <3>1, ManyStand
    <3> QED BY <3>2 DEF decoded
  <2> QED BY <2>4, <2>5
<1> QED BY <1>6, <1>7, <1>8

-----------------------------------------------------------------------------
(* The sections of a file that is encoded.                                 *)

(* A section is empty only if its content is.                              *)
LEMMA Nonempty ==
  /\ \A s \in Text : StringFits(s) => EncodedString(s) # <<>>
  /\ \A ss \in Seq(Text) : StringsFit(ss) => EncodedStrings(ss) # <<>>
  /\ \A ents \in Seq(Seq(Word)) : CountFits(ents) => EncodedList(ents) # <<>>
  /\ \A s \in Text : Len(s) % 2 = 0 =>
       Packed(s) \in Seq(Word) /\ Len(s) = 2 * Len(Packed(s)) /\ (Packed(s) = <<>> <=> s = <<>>)
<1>1. ASSUME NEW s \in Text, StringFits(s)
      PROVE  EncodedString(s) # <<>>
  <2>1. Len(EncodedString(s)) = 1 + (Len(s) + 1) \div 2 /\ Len(s) \in Nat
    BY <1>1, EncodedStringWords DEF Text
  <2>2. (Len(s) + 1) \div 2 \in Nat
    BY <2>1, Halved
  <2>3. Len(EncodedString(s)) # 0
    BY <2>1, <2>2
  <2> QED BY <2>3
<1>2. ASSUME NEW ents \in Seq(Seq(Word)), CountFits(ents)
      PROVE  EncodedMany(ents) # <<>>
  <2>1. Len(EncodedMany(ents)) = 1 + Len(FlattenSeq(ents)) /\ FlattenSeq(ents) \in Seq(Word)
    BY <1>2, ManyWords
  <2>2. Len(EncodedMany(ents)) # 0
    BY <2>1
  <2> QED BY <2>2
<1>3. ASSUME NEW ss \in Seq(Text), StringsFit(ss)
      PROVE  EncodedStrings(ss) # <<>>
  <2> DEFINE ents == [i \in DOMAIN ss |-> EncodedString(ss[i])]
  <2>1. ents \in Seq(Seq(Word)) /\ CountFits(ents) /\ EncodedStrings(ss) = EncodedMany(ents)
    BY <1>3, StringsWords
  <2> HIDE DEF ents
  <2> QED BY <1>2, <2>1
<1>4. ASSUME NEW ents \in Seq(Seq(Word)), CountFits(ents)
      PROVE  EncodedList(ents) # <<>>
  <2>1. Linked(ents) \in Seq(Seq(Word)) /\ Len(Linked(ents)) = Len(ents)
        /\ EncodedList(ents) = EncodedMany(Linked(ents))
    BY LinkedWords
  <2>2. CountFits(Linked(ents))
    BY <1>4, <2>1 DEF CountFits
  <2> QED BY <1>2, <2>1, <2>2
<1>5. ASSUME NEW s \in Text, Len(s) % 2 = 0
      PROVE  Packed(s) \in Seq(Word) /\ Len(s) = 2 * Len(Packed(s))
                  /\ (Packed(s) = <<>> <=> s = <<>>)
  <2>1. Packed(s) \in Seq(Word) /\ Len(Packed(s)) = (Len(s) + 1) \div 2
    BY PackedWords
  <2>2. Len(s) \in Nat /\ s \in Seq(Byte)
    BY DEF Text
  <2>3. 2 * ((Len(s) + 1) \div 2) = Len(s)
    BY <1>5, <2>2, Halved
  <2>4. Len(s) = 2 * Len(Packed(s)) /\ Len(Packed(s)) \in Nat
    BY <2>1, <2>3
  <2>5. (Packed(s) = <<>> <=> Len(Packed(s)) = 0) /\ (s = <<>> <=> Len(s) = 0)
    BY <2>1, <2>2, EmptySeq
  <2> QED BY <2>1, <2>4, <2>5
<1> QED BY <1>1, <1>3, <1>4, <1>5

LEMMA ListFileSectionsWords ==
  ASSUME NEW f, f.part \in Text, f.media \in MediaInformation, StringFits(f.part),
         f.user \in UserData, NEW ents \in Seq(Seq(Word)), CountFits(ents)
  PROVE  /\ ListFileSections(f, ents) \in Seq(Seq(Word)) /\ Len(ListFileSections(f, ents)) = 3
         /\ ListFileSections(f, ents)[1] = EncodedMediaInformation(f)
         /\ ListFileSections(f, ents)[2] = EncodedList(ents)
         /\ ListFileSections(f, ents)[3] = Packed(f.user)
         /\ EncodedMediaInformation(f) # <<>> /\ EncodedList(ents) # <<>>
<1>1. /\ EncodedMediaInformation(f) \in Seq(Word) /\ EncodedList(ents) \in Seq(Word)
      /\ Packed(f.user) \in Seq(Word)
  BY MediaInformationDecoded, ListWords, PackedWords DEF UserData
<1>2. EncodedMediaInformation(f) # <<>>
  <2> DEFINE w == f.media.number * ByteBase + f.media.members
             s == EncodedString(f.part)
  <2>1. s \in Seq(Word)
    BY FieldWords
  <2>2. EncodedMediaInformation(f) = s \o <<w>>
    BY DEF EncodedMediaInformation
  <2>3. s # <<>>
    BY Nonempty
  <2> HIDE DEF s, w
  <2>4. Len(s) # 0 /\ Len(s) \in Nat
    BY <2>1, <2>3, EmptySeq
  <2>5. Len(s \o <<w>>) = Len(s) + 1
    BY <2>1
  <2>6. Len(s \o <<w>>) # 0
    BY <2>4, <2>5
  <2> QED BY <2>2, <2>6
<1>3. EncodedList(ents) # <<>>
  BY Nonempty
<1> DEFINE W == Seq(Word)
<1>4. EncodedMediaInformation(f) \in W /\ EncodedList(ents) \in W /\ Packed(f.user) \in W
  BY <1>1
<1> HIDE DEF W
<1>5. ListFileSections(f, ents) \in Seq(W) /\ Len(ListFileSections(f, ents)) = 3
  BY <1>4 DEF ListFileSections
<1> QED BY <1>2, <1>3, <1>5 DEF W, ListFileSections

-----------------------------------------------------------------------------
(* The sections of the kinds of files.                                     *)

(* A content is of one of five kinds.                                      *)
LEMMA Kinds ==
  ASSUME NEW f \in Contents
  PROVE  /\ \/ f \in LoadHeader /\ f.kind = "loadHeader"
            \/ f \in FileList /\ f.kind = "fileList"
            \/ f \in LoadList /\ f.kind = "loadList"
            \/ f \in BatchList /\ f.kind = "batchList"
            \/ f \in BatchFile /\ f.kind = "batchFile"
         /\ f.version \in Supplement
         /\ f.kind \in {"loadHeader", "fileList", "loadList", "batchList", "batchFile"}
BY DEF Contents, LoadHeader, FileList, LoadList, BatchList, BatchFile

LEMMA LoadHeaderSectionsWords ==
  ASSUME NEW f \in LoadHeader, LoadHeaderFits(f)
  PROVE  /\ Sections(f) = LoadHeaderSections(f)
         /\ Sections(f) \in Seq(Seq(Word)) /\ Len(Sections(f)) = 7
         /\ Sections(f)[1] = EncodedString(f.part)
         /\ Sections(f)[2] =
              IF f.type = <<>> THEN <<>> ELSE From3(f.version, EncodedLoadType(f.type[1]))
         /\ Sections(f)[3] = EncodedStrings(f.thw)
         /\ Sections(f)[4] = From3(f.version, PositionsSection(f.positions))
         /\ Sections(f)[5] = EncodedList(DataFileEntries(f))
         /\ Sections(f)[6] = ListSection(SupportFileEntries(f))
         /\ Sections(f)[7] = Packed(f.user)
<1>1. f.kind = "loadHeader" /\ f.part \in Text /\ f.thw \in Seq(Text) /\ f.user \in UserData
      /\ f.positions \in Seq(HardwarePositions) /\ f.data \in Seq(LoadFile)
      /\ f.support \in Seq(LoadFile) /\ f.version \in Supplement
      /\ f.type \in {<<>>} \cup [1 .. 1 -> LoadType]
  BY DEF LoadHeader
<1>2. Sections(f) = LoadHeaderSections(f)
  BY <1>1 DEF Sections
<1>3. EncodedString(f.part) \in Seq(Word) /\ EncodedStrings(f.thw) \in Seq(Word)
      /\ Packed(f.user) \in Seq(Word)
  BY <1>1, FieldWords, PackedWords DEF LoadHeaderFits, UserData
<1> DEFINE t == IF f.type = <<>> THEN <<>> ELSE From3(f.version, EncodedLoadType(f.type[1]))
           p == From3(f.version, PositionsSection(f.positions))
           d == EncodedList(DataFileEntries(f))
           s == ListSection(SupportFileEntries(f))
<1>4. t \in Seq(Word)
  <2>1. CASE f.type = <<>>
    BY <2>1
  <2>2. CASE f.type # <<>> /\ f.version = 3
    <3>1. f.type[1] \in LoadType /\ StringFits(f.type[1].description)
      BY <1>1, <2>2 DEF LoadHeaderFits
    <3> QED BY <2>2, <3>1, LoadTypeDecoded DEF From3
  <2>3. CASE f.version # 3
    BY <2>3 DEF From3
  <2> QED BY <2>1, <2>2, <2>3
<1>5. p \in Seq(Word)
  <2>1. CASE f.version = 3
    <3>1. \A i \in DOMAIN f.positions :
            StringFits(f.positions[i].thw) /\ StringsFit(f.positions[i].positions)
      BY <2>1 DEF LoadHeaderFits
    <3> QED BY <1>1, <2>1, <3>1, PositionsSectionDecoded DEF From3
  <2>2. CASE f.version # 3
    BY <2>2 DEF From3
  <2> QED BY <2>1, <2>2
<1>6. d \in Seq(Word)
  BY <1>1, DataFilesWords DEF LoadHeaderFits
<1>7. s \in Seq(Word)
  <2>1. EncodedList(SupportFileEntries(f)) \in Seq(Word)
    BY <1>1, SupportFilesWords DEF LoadHeaderFits
  <2> QED BY <2>1 DEF ListSection
<1>8. LoadHeaderSections(f) =
        <<EncodedString(f.part), t, EncodedStrings(f.thw), p, d, s, Packed(f.user)>>
  BY DEF LoadHeaderSections
<1> DEFINE W == Seq(Word)
<1>9. /\ EncodedString(f.part) \in W /\ t \in W /\ EncodedStrings(f.thw) \in W /\ p \in W
      /\ d \in W /\ s \in W /\ Packed(f.user) \in W
  BY <1>3, <1>4, <1>5, <1>6, <1>7
<1> HIDE DEF W, t, p, d, s
<1>10. LoadHeaderSections(f) \in Seq(W) /\ Len(LoadHeaderSections(f)) = 7
  BY <1>8, <1>9
<1>11. /\ LoadHeaderSections(f)[1] = EncodedString(f.part) /\ LoadHeaderSections(f)[2] = t
       /\ LoadHeaderSections(f)[3] = EncodedStrings(f.thw) /\ LoadHeaderSections(f)[4] = p
       /\ LoadHeaderSections(f)[5] = d /\ LoadHeaderSections(f)[6] = s
       /\ LoadHeaderSections(f)[7] = Packed(f.user)
  BY <1>8
<1> QED BY <1>2, <1>10, <1>11 DEF W, t, p, d, s

LEMMA BatchFileSectionsWords ==
  ASSUME NEW f \in BatchFile, BatchFileFits(f)
  PROVE  /\ Sections(f) \in Seq(Seq(Word)) /\ Len(Sections(f)) = 2
         /\ EncodedString(f.part) \in Seq(Word) /\ EncodedString(f.comment) \in Seq(Word)
         /\ Sections(f)[1] = EncodedString(f.part) \o EncodedString(f.comment)
         /\ Sections(f)[2] = EncodedList(TargetEntries(f))
         /\ Sections(f)[1] # <<>> /\ Sections(f)[2] # <<>>
<1>1. f.kind = "batchFile" /\ f.part \in Text /\ f.comment \in Text
      /\ f.targets \in Seq(BatchTarget)
  BY DEF BatchFile
<1> DEFINE p == EncodedString(f.part)
           c == EncodedString(f.comment)
           t == EncodedList(TargetEntries(f))
           W == Seq(Word)
<1>2. p \in Seq(Word) /\ c \in Seq(Word) /\ p # <<>>
  BY <1>1, FieldWords, Nonempty DEF BatchFileFits
<1>3. t \in W /\ t # <<>>
  <2>1. TargetEntries(f) \in Seq(Seq(Word)) /\ CountFits(TargetEntries(f)) /\ t \in Seq(Word)
    BY <1>1, TargetsWords DEF BatchFileFits
  <2> QED BY <2>1, Nonempty
<1>4. Sections(f) = <<p \o c, t>>
  BY <1>1 DEF Sections, BatchFileSections
<1> HIDE DEF p, c, t
<1>5. p \o c \in W /\ p \o c # <<>>
  <2>1. p \o c \in Seq(Word) /\ Len(p \o c) = Len(p) + Len(c)
    BY <1>2, ConcatProperties
  <2>2. Len(p) \in Nat /\ Len(c) \in Nat /\ Len(p) # 0
    BY <1>2, EmptySeq
  <2>3. Len(p \o c) # 0
    BY <2>1, <2>2
  <2> QED BY <2>1, <2>3
<1> HIDE DEF W
<1>6. Sections(f) \in Seq(W) /\ Len(Sections(f)) = 2 /\ Sections(f)[1] = p \o c
      /\ Sections(f)[2] = t
  BY <1>3, <1>4, <1>5
<1> QED BY <1>2, <1>3, <1>5, <1>6 DEF W, p, c, t

LEMMA FileListSectionsWords ==
  ASSUME NEW f \in FileList, FileListFits(f)
  PROVE  /\ Sections(f) \in Seq(Seq(Word)) /\ Len(Sections(f)) = 3
         /\ Sections(f)[1] = EncodedMediaInformation(f)
         /\ Sections(f)[2] = EncodedList(FileEntries(f))
         /\ Sections(f)[3] = Packed(f.user)
         /\ Sections(f)[1] # <<>> /\ Sections(f)[2] # <<>>
<1>1. f.kind = "fileList" /\ f.part \in Text /\ f.media \in MediaInformation /\ f.user \in UserData
      /\ f.files \in Seq(FileInfo) /\ f.version \in Supplement
  BY DEF FileList
<1>2. FileEntries(f) \in Seq(Seq(Word)) /\ CountFits(FileEntries(f))
  BY <1>1, FileInfosWords DEF FileListFits
<1>3. Sections(f) = ListFileSections(f, FileEntries(f))
  BY <1>1 DEF Sections
<1> QED BY <1>1, <1>2, <1>3, ListFileSectionsWords DEF FileListFits

LEMMA LoadListSectionsWords ==
  ASSUME NEW f \in LoadList, LoadListFits(f)
  PROVE  /\ Sections(f) \in Seq(Seq(Word)) /\ Len(Sections(f)) = 3
         /\ Sections(f)[1] = EncodedMediaInformation(f)
         /\ Sections(f)[2] = EncodedList(LoadEntries(f))
         /\ Sections(f)[3] = Packed(f.user)
         /\ Sections(f)[1] # <<>> /\ Sections(f)[2] # <<>>
<1>1. f.kind = "loadList" /\ f.part \in Text /\ f.media \in MediaInformation /\ f.user \in UserData
      /\ f.loads \in Seq(LoadInfo)
  BY DEF LoadList
<1>2. LoadEntries(f) \in Seq(Seq(Word)) /\ CountFits(LoadEntries(f))
  BY <1>1, LoadInfosWords DEF LoadListFits
<1>3. Sections(f) = ListFileSections(f, LoadEntries(f))
  BY <1>1 DEF Sections
<1> QED BY <1>1, <1>2, <1>3, ListFileSectionsWords DEF LoadListFits

LEMMA BatchListSectionsWords ==
  ASSUME NEW f \in BatchList, BatchListFits(f)
  PROVE  /\ Sections(f) \in Seq(Seq(Word)) /\ Len(Sections(f)) = 3
         /\ Sections(f)[1] = EncodedMediaInformation(f)
         /\ Sections(f)[2] = EncodedList(BatchEntries(f))
         /\ Sections(f)[3] = Packed(f.user)
         /\ Sections(f)[1] # <<>> /\ Sections(f)[2] # <<>>
<1>1. f.kind = "batchList" /\ f.part \in Text /\ f.media \in MediaInformation /\ f.user \in UserData
      /\ f.batches \in Seq(BatchInfo)
  BY DEF BatchList
<1>2. BatchEntries(f) \in Seq(Seq(Word)) /\ CountFits(BatchEntries(f))
  BY <1>1, BatchInfosWords DEF BatchListFits
<1>3. Sections(f) = ListFileSections(f, BatchEntries(f))
  BY <1>1 DEF Sections
<1> QED BY <1>1, <1>2, <1>3, ListFileSectionsWords DEF BatchListFits

(* How many sections a file has, the check value not counted.              *)
SectionCount(kind) ==
  CASE kind = "loadHeader" -> 7
    [] kind = "batchFile" -> 2
    [] OTHER -> 3

LEMMA SectionsWords ==
  ASSUME NEW f \in Contents, EncodableFile(f)
  PROVE  Sections(f) \in Seq(Seq(Word)) /\ Len(Sections(f)) = SectionCount(f.kind)
<1>1. CASE f \in LoadHeader /\ f.kind = "loadHeader"
  <2>1. LoadHeaderFits(f)
    BY <1>1 DEF EncodableFile
  <2> QED BY <1>1, <2>1, LoadHeaderSectionsWords DEF SectionCount
<1>2. CASE f \in FileList /\ f.kind = "fileList"
  <2>1. FileListFits(f)
    BY <1>2 DEF EncodableFile
  <2> QED BY <1>2, <2>1, FileListSectionsWords DEF SectionCount
<1>3. CASE f \in LoadList /\ f.kind = "loadList"
  <2>1. LoadListFits(f)
    BY <1>3 DEF EncodableFile
  <2> QED BY <1>3, <2>1, LoadListSectionsWords DEF SectionCount
<1>4. CASE f \in BatchList /\ f.kind = "batchList"
  <2>1. BatchListFits(f)
    BY <1>4 DEF EncodableFile
  <2> QED BY <1>4, <2>1, BatchListSectionsWords DEF SectionCount
<1>5. CASE f \in BatchFile /\ f.kind = "batchFile"
  <2>1. BatchFileFits(f)
    BY <1>5 DEF EncodableFile
  <2> QED BY <1>5, <2>1, BatchFileSectionsWords DEF SectionCount
<1> QED BY <1>1, <1>2, <1>3, <1>4, <1>5, Kinds

-----------------------------------------------------------------------------
(* Checksums, the room of the check value and the pointers.                *)

LEMMA ChecksumWord ==
  ASSUME NEW words \in Seq(Word)
  PROVE  Checksum(words) \in Word
<1>1. PICK sum \in [0 .. Len(words) -> Word] : Checksum(words) = sum[Len(words)]
  BY Bases, ChecksumSteps
<1>2. Len(words) \in 0 .. Len(words)
  OBVIOUS
<1> QED BY <1>1, <1>2

LEMMA CheckValueOfWords ==
  ASSUME NEW t \in CheckType, NEW words \in Seq(Word)
  PROVE  /\ CheckValueOf(t, words) \in CheckValue /\ CheckValueOf(t, words).type = t
         /\ EncodedCheckValue(CheckValueOf(t, words)) \in Seq(Word)
         /\ Len(EncodedCheckValue(CheckValueOf(t, words))) =
              IF t = NotUsed THEN 1 ELSE 2 + CheckSize[t]
<1> DEFINE c == CheckValueOf(t, words)
           v == [i \in 1 .. CheckSize[t] |-> Checksum(words)]
<1>1. CheckSize[t] \in Nat
  BY FilesAssumption DEF FilesAssumption
<1>2. v \in [1 .. CheckSize[t] -> Word]
  BY ChecksumWord
<1>3. c = [type |-> t, value |-> v]
  BY DEF CheckValueOf
<1> HIDE DEF c, v
<1>4. c \in CheckValue /\ c.type = t
  BY <1>2, <1>3 DEF CheckValue
<1>5. /\ c.value \in Seq(Word) /\ Len(c.value) = CheckSize[t]
      /\ t = NotUsed => EncodedCheckValue(c) = <<0>>
      /\ t # NotUsed => EncodedCheckValue(c) = <<4 + 2 * CheckSize[t], t>> \o c.value
      /\ EncodedCheckValue(c) \in Seq(Word)
  <2>1. /\ c.value \in Seq(Word) /\ Len(c.value) = CheckSize[c.type]
        /\ EncodedCheckValue(c) \in Seq(Word)
    BY <1>4, CheckValueWordsTyped
  <2>2. /\ c.type = NotUsed => EncodedCheckValue(c) = <<0>>
        /\ c.type # NotUsed =>
             EncodedCheckValue(c) = <<4 + 2 * CheckSize[c.type], c.type>> \o c.value
    BY <1>4, CheckValueWordsTyped
  <2> QED BY <1>4, <2>1, <2>2
<1>6. Len(EncodedCheckValue(c)) = IF t = NotUsed THEN 1 ELSE 2 + CheckSize[t]
  <2>1. CASE t = NotUsed
    BY <1>5, <2>1
  <2>2. CASE t # NotUsed
    <3> DEFINE h == <<4 + 2 * CheckSize[t], t>>
    <3>1. h \in Seq(Word) /\ Len(h) = 2
      <4> DEFINE w == 4 + 2 * CheckSize[t]
      <4>1. w \in Word /\ t \in Word
        BY FilesAssumption DEF FilesAssumption
      <4> HIDE DEF w
      <4>2. <<w, t>> \in Seq(Word) /\ Len(<<w, t>>) = 2
        BY <4>1
      <4> QED BY <4>2 DEF w
    <3> HIDE DEF h
    <3>2. Len(h \o c.value) = Len(h) + Len(c.value)
      BY <1>5, <3>1, ConcatProperties
    <3>3. Len(EncodedCheckValue(c)) = 2 + CheckSize[t]
      BY <1>5, <2>2, <3>1, <3>2 DEF h
    <3> QED BY <2>2, <3>3
  <2> QED BY <2>1, <2>2
<1> QED BY <1>4, <1>5, <1>6 DEF c

(* The room for the check value has the length of the check value.         *)
LEMMA Room ==
  ASSUME NEW f \in Contents
  PROVE  /\ CheckValueRoom(f) \in Seq(Word)
         /\ HasCheckValue(f.kind, f.version) => f.check \in CheckType
         /\ ~ HasCheckValue(f.kind, f.version) => CheckValueRoom(f) = <<>>
         /\ HasCheckValue(f.kind, f.version) =>
              /\ CheckValueRoom(f) # <<>>
              /\ \A words \in Seq(Word) :
                   Len(CheckValueRoom(f)) = Len(EncodedCheckValue(CheckValueOf(f.check, words)))
<1>1. CASE ~ HasCheckValue(f.kind, f.version)
  BY <1>1 DEF CheckValueRoom
<1>2. CASE HasCheckValue(f.kind, f.version)
  <2> DEFINE n == Len(EncodedCheckValue(CheckValueOf(f.check, <<>>)))
  <2>1. f.check \in CheckType
    BY <1>2, Kinds DEF HasCheckValue, LoadHeader, FileList
  <2>8. n = IF f.check = NotUsed THEN 1 ELSE 2 + CheckSize[f.check]
    <3>1. <<>> \in Seq(Word)
      OBVIOUS
    <3> QED BY <2>1, <3>1, CheckValueOfWords
  <2>2. ASSUME NEW words \in Seq(Word)
        PROVE  Len(EncodedCheckValue(CheckValueOf(f.check, words))) = n
    <3>1. Len(EncodedCheckValue(CheckValueOf(f.check, words))) =
            IF f.check = NotUsed THEN 1 ELSE 2 + CheckSize[f.check]
      BY <2>1, CheckValueOfWords
    <3> HIDE DEF n
    <3> QED BY <2>8, <3>1
  <2>3. n \in Nat /\ n # 0
    <3>2. n = IF f.check = NotUsed THEN 1 ELSE 2 + CheckSize[f.check]
      BY <2>8
    <3>3. CheckSize[f.check] \in Nat
      BY <2>1, FilesAssumption DEF FilesAssumption
    <3> HIDE DEF n
    <3> QED BY <3>2, <3>3
  <2>4. CheckValueRoom(f) = [i \in 1 .. n |-> 0]
    BY <1>2 DEF CheckValueRoom
  <2> HIDE DEF n
  <2>5. 0 \in Word
    BY Bases DEF Word
  <2>6. CheckValueRoom(f) \in Seq(Word) /\ Len(CheckValueRoom(f)) = n
    BY <2>3, <2>4, <2>5
  <2>7. CheckValueRoom(f) # <<>>
    BY <2>3, <2>6
  <2> QED BY <1>2, <2>1, <2>2, <2>6, <2>7
<1> QED BY <1>1, <1>2

(* The header points to sections that there are.                           *)
LEMMA PointersOf ==
  ASSUME NEW f \in Contents
  PROVE  /\ Pointers(f.kind, f.version) \in Seq(1 .. SectionCount(f.kind) + 1)
         /\ Len(Pointers(f.kind, f.version)) \in 2 .. 8
         /\ HeaderSize(f.kind, f.version) \in Nat
         /\ HeaderSize(f.kind, f.version) = 4 + 2 * Len(Pointers(f.kind, f.version))
         /\ CrcWords(f.kind) \in {1, 3}
<1> DEFINE order == Pointers(f.kind, f.version)
<1>1. order \in Seq(1 .. SectionCount(f.kind) + 1) /\ Len(order) \in 2 .. 8
  <2>1. CASE f.kind = "loadHeader"
    <3>1. order = (IF f.version = 2 THEN <<1, 3, 5, 6, 7>> ELSE <<1, 3, 5, 6, 7, 2, 4, 8>>)
          /\ SectionCount(f.kind) = 7
      BY <2>1 DEF Pointers, SectionCount
    <3> HIDE DEF order
    <3>2. CASE f.version = 2
      BY <3>1, <3>2
    <3>3. CASE f.version # 2
      BY <3>1, <3>3
    <3> QED BY <3>2, <3>3
  <2>2. CASE f.kind = "fileList"
    <3>1. order = (IF f.version = 2 THEN <<1, 2, 3>> ELSE <<1, 2, 3, 4>>)
          /\ SectionCount(f.kind) = 3
      BY <2>2 DEF Pointers, SectionCount
    <3> HIDE DEF order
    <3>2. CASE f.version = 2
      BY <3>1, <3>2
    <3>3. CASE f.version # 2
      BY <3>1, <3>3
    <3> QED BY <3>2, <3>3
  <2>3. CASE f.kind = "loadList"
    BY <2>3, Kinds DEF Pointers, SectionCount
  <2>4. CASE f.kind = "batchList"
    BY <2>4, Kinds DEF Pointers, SectionCount
  <2>5. CASE f.kind = "batchFile"
    BY <2>5, Kinds DEF Pointers, SectionCount
  <2> QED BY <2>1, <2>2, <2>3, <2>4, <2>5, Kinds
<1>2. HeaderSize(f.kind, f.version) = 4 + 2 * Len(order)
  BY DEF HeaderSize
<1> HIDE DEF order
<1> QED BY <1>1, <1>2 DEF order, CrcWords

(* Where the sections start: each where the one before it ends.            *)
LEMMA Starts ==
  ASSUME NEW f \in Contents, EncodableFile(f), NEW n, n = SectionCount(f.kind)
  PROVE  /\ n \in {2, 3, 7} /\ Len(Sections(f)) = n /\ Sections(f) \in Seq(Seq(Word))
         /\ \A i \in 1 .. n + 1 :
              /\ Start(f, i) = HeaderSize(f.kind, f.version) + Len(Prefix(Sections(f), i - 1))
              /\ Start(f, i) \in DoubleWord /\ Start(f, i) > 0
         /\ \A i \in 1 .. n : /\ Start(f, i + 1) = Start(f, i) + Len(Sections(f)[i])
                              /\ Len(Sections(f)[i]) \in Nat
                              /\ AllSections(f)[i] = Sections(f)[i]
         /\ AllSections(f)[n + 1] = CheckValueRoom(f)
         /\ Start(f, n + 1) = HeaderSize(f.kind, f.version) + Len(FlattenSeq(Sections(f)))
         /\ FileSize(f) = Start(f, n + 1) + Len(CheckValueRoom(f)) + CrcWords(f.kind)
         /\ FileSize(f) \in DoubleWord
<1> DEFINE s == Sections(f)
           r == CheckValueRoom(f)
           all == AllSections(f)
           h == HeaderSize(f.kind, f.version)
<1>1. n \in {2, 3, 7} /\ Len(s) = n /\ s \in Seq(Seq(Word))
  <2>1. n \in {2, 3, 7}
    BY DEF SectionCount
  <2> QED BY <2>1, SectionsWords
<1>2. r \in Seq(Word) /\ all = Append(s, r) /\ h \in Nat /\ h > 0 /\ FileSize(f) \in DoubleWord
  <2>1. h \in Nat /\ h > 0
    BY PointersOf
  <2> QED BY <2>1, Room DEF AllSections, EncodableFile
<1>3. \A i \in Int : Start(f, i) = h + Len(FlattenSeq(SubSeq(all, 1, i - 1)))
  BY DEF Start
<1>4. FileSize(f) = Start(f, Len(all) + 1) + CrcWords(f.kind)
  BY DEF FileSize
<1> HIDE DEF s, r, all, h
<1> DEFINE W == Seq(Word)
<1>5. s \in Seq(W) /\ r \in W
  BY <1>1, <1>2
<1> HIDE DEF W
<1>6. /\ all \in Seq(W) /\ Len(all) = n + 1 /\ all[n + 1] = r
      /\ \A i \in 1 .. n : all[i] = s[i]
  BY <1>1, <1>2, <1>5, AppendProperties
<1>7. \A i \in 0 .. n : SubSeq(all, 1, i) = SubSeq(s, 1, i)
  <2> SUFFICES ASSUME NEW i \in 0 .. n
               PROVE  SubSeq(all, 1, i) = SubSeq(s, 1, i)
    OBVIOUS
  <2>1. i \in Nat /\ i <= Len(all) /\ i <= Len(s)
    BY <1>1, <1>6
  <2>2. \A j \in 1 .. i : j \in 1 .. n /\ all[j] = s[j]
    BY <1>1, <1>6
  <2> QED BY <1>5, <1>6, <2>1, <2>2
<1>8. \A i \in 1 .. n + 1 : Start(f, i) = h + Len(Prefix(s, i - 1))
  <2> SUFFICES ASSUME NEW i \in 1 .. n + 1
               PROVE  Start(f, i) = h + Len(Prefix(s, i - 1))
    OBVIOUS
  <2>1. i \in Int /\ i - 1 \in 0 .. n
    BY <1>1
  <2> QED BY <1>3, <1>7, <2>1 DEF Prefix
<1>9. /\ \A i \in 0 .. n : Prefix(s, i) \in Seq(Word)
      /\ Prefix(s, 0) = <<>> /\ FlattenSeq(s) = Prefix(s, n)
      /\ \A i \in 1 .. n : Prefix(s, i) = Prefix(s, i - 1) \o s[i]
  BY <1>1, Flatten
<1>10. ASSUME NEW i \in 1 .. n
       PROVE  Start(f, i + 1) = Start(f, i) + Len(s[i]) /\ Len(s[i]) \in Nat
  <2>1. i - 1 \in 0 .. n /\ i \in 1 .. n + 1 /\ i + 1 \in 1 .. n + 1 /\ (i + 1) - 1 = i
    BY <1>1
  <2>2. s[i] \in Seq(Word)
    BY <1>1
  <2>3. Len(Prefix(s, i)) = Len(Prefix(s, i - 1)) + Len(s[i])
    <3>1. Prefix(s, i - 1) \in Seq(Word) /\ Prefix(s, i) = Prefix(s, i - 1) \o s[i]
      BY <1>9, <2>1
    <3> QED BY ONLY <2>2, <3>1, ConcatProperties
  <2>4. Start(f, i) = h + Len(Prefix(s, i - 1)) /\ Start(f, i + 1) = h + Len(Prefix(s, i))
    <3>1. Start(f, i + 1) = h + Len(Prefix(s, (i + 1) - 1))
      BY <1>8, <2>1
    <3> QED BY <1>8, <2>1, <3>1
  <2>5. Len(Prefix(s, i - 1)) \in Nat /\ Len(s[i]) \in Nat
    BY <1>9, <2>1, <2>2
  <2> DEFINE p == Len(Prefix(s, i - 1))
             q == Len(Prefix(s, i))
             l == Len(s[i])
  <2>6. /\ Start(f, i) = h + p /\ Start(f, i + 1) = h + q /\ q = p + l /\ h \in Nat /\ p \in Nat
        /\ l \in Nat
    BY <1>2, <2>3, <2>4, <2>5
  <2> HIDE DEF p, q, l
  <2>7. Start(f, i + 1) = Start(f, i) + l /\ l \in Nat
    BY <2>6
  <2> QED BY <2>7 DEF l
<1>11. Start(f, n + 1) = h + Len(FlattenSeq(s))
  <2>1. n + 1 \in 1 .. n + 1 /\ (n + 1) - 1 = n
    BY <1>1
  <2> QED BY <1>8, <1>9, <2>1
<1>12. FileSize(f) = Start(f, n + 1) + Len(r) + CrcWords(f.kind)
  <2>1. FileSize(f) = h + Len(FlattenSeq(all)) + CrcWords(f.kind)
    <3>1. Len(all) + 1 \in Int /\ (Len(all) + 1) - 1 = Len(all)
      BY <1>1, <1>6
    <3>2. SubSeq(all, 1, Len(all)) = all
      BY <1>6, SubSeqFull
    <3> QED BY <1>3, <1>4, <3>1, <3>2
  <2>2. FlattenSeq(all) = FlattenSeq(s) \o r
    <3>1. all \in Seq(Seq(Word)) /\ n + 1 \in 1 .. Len(all) /\ n \in 0 .. n /\ (n + 1) - 1 = n
      BY <1>1, <1>6 DEF W
    <3>2. FlattenSeq(all) = Prefix(all, Len(all))
      BY <3>1, Flatten
    <3>3. Prefix(all, n + 1) = Prefix(all, (n + 1) - 1) \o all[n + 1]
      BY <3>1, Flatten
    <3>4. Prefix(all, n) = Prefix(s, n)
      BY <1>7, <3>1 DEF Prefix
    <3> QED BY <1>6, <1>9, <3>1, <3>2, <3>3, <3>4
  <2>3. Len(FlattenSeq(s) \o r) = Len(FlattenSeq(s)) + Len(r)
    <3>1. FlattenSeq(s) \in Seq(Word)
      BY <1>1, FlattenedWords
    <3> QED BY <1>2, <3>1, ConcatProperties
  <2>4. Len(FlattenSeq(s)) \in Nat /\ Len(r) \in Nat /\ CrcWords(f.kind) \in Nat
    <3>1. FlattenSeq(s) \in Seq(Word)
      BY <1>1, FlattenedWords
    <3>2. CrcWords(f.kind) \in Nat
      BY PointersOf
    <3> QED BY <1>2, <3>1, <3>2
  <2> QED BY <1>2, <1>11, <2>1, <2>2, <2>3, <2>4
<1>13. \A i \in 1 .. n + 1 : Start(f, i) \in Nat /\ Start(f, i) > 0
  <2> SUFFICES ASSUME NEW i \in 1 .. n + 1
               PROVE  Start(f, i) \in Nat /\ Start(f, i) > 0
    OBVIOUS
  <2>1. i - 1 \in 0 .. n
    BY <1>1
  <2>2. Len(Prefix(s, i - 1)) \in Nat
    BY <1>9, <2>1
  <2> QED BY <1>2, <1>8, <2>2
<1>14. \A i \in 1 .. n + 1 : Start(f, i) <= FileSize(f)
  <2>1. Start(f, n + 1) <= FileSize(f)
    <3>1. Len(r) \in Nat /\ CrcWords(f.kind) \in Nat /\ Start(f, n + 1) \in Nat
      BY <1>1, <1>2, <1>13, PointersOf
    <3> QED BY <1>12, <3>1
  <2>2. \A i \in 1 .. n : Start(f, i) <= Start(f, i + 1)
    <3> SUFFICES ASSUME NEW i \in 1 .. n
                 PROVE  Start(f, i) <= Start(f, i + 1)
      OBVIOUS
    <3>1. i \in 1 .. n + 1
      BY <1>1
    <3> QED BY <1>10, <1>13, <3>1
  <2>3. FileSize(f) \in Nat
    BY <1>2, Bases DEF DoubleWord
  <2> DEFINE at == [i \in 1 .. n + 1 |-> Start(f, i)]
  <2>4. at \in [1 .. n + 1 -> Nat]
    BY <1>13
  <2>5. \A i \in 1 .. n : at[i] <= at[i + 1]
    BY <1>1, <2>2
  <2>6. at[n + 1] <= FileSize(f)
    BY <1>1, <2>1
  <2> HIDE DEF at
  <2>7. CASE n = 2
    BY <2>3, <2>4, <2>5, <2>6, <2>7 DEF at
  <2>8. CASE n = 3
    BY <2>3, <2>4, <2>5, <2>6, <2>8 DEF at
  <2>9. CASE n = 7
    <3>1. /\ at[1] <= at[2] /\ at[2] <= at[3] /\ at[3] <= at[4] /\ at[4] <= at[5]
          /\ at[5] <= at[6] /\ at[6] <= at[7] /\ at[7] <= at[8] /\ at[8] <= FileSize(f)
      BY <2>5, <2>6, <2>9
    <3>2. \A i \in 1 .. 8 : at[i] <= FileSize(f)
      BY <2>3, <2>4, <2>9, <3>1
    <3> QED BY <2>9, <3>2 DEF at
  <2> QED BY <1>1, <2>7, <2>8, <2>9
<1>15. \A i \in 1 .. n + 1 : Start(f, i) \in DoubleWord
  BY <1>2, <1>13, <1>14, Bases DEF DoubleWord
<1> QED BY <1>1, <1>2, <1>6, <1>8, <1>10, <1>11, <1>12, <1>13, <1>15 DEF s, r, all, h

-----------------------------------------------------------------------------
(* The header, and the whole of a file.                                    *)

Spare(f) == IF f.kind = "loadHeader" /\ f.version = 3 THEN f.flags ELSE 0

(* What is read from a header.                                             *)
LEMMA HeaderWords ==
  ASSUME NEW f \in Contents, EncodableFile(f)
  PROVE  /\ Header(f) \in Seq(Word) /\ Len(Header(f)) = HeaderSize(f.kind, f.version)
         /\ FormatVersion(f.kind, f.version) \in Word
         /\ \A words, b : Stands(words, 0, Header(f), b) =>
              /\ Pointer(words, 0) = FileSize(f)
              /\ words[3] = FormatVersion(f.kind, f.version) /\ words[4] = Spare(f)
              /\ \A k \in 1 .. Len(Pointers(f.kind, f.version)) :
                   Pointer(words, 2 + 2 * k) = PointerTo(f, Pointers(f.kind, f.version)[k])
<1> DEFINE order == Pointers(f.kind, f.version)
           c == Len(order)
           pick(w) == (w + 1) \div 2
           ptrs == [w \in 1 .. 2 * c |-> Double(PointerTo(f, order[pick(w)]))[2 - (w % 2)]]
           size == Double(FileSize(f))
           two == <<FormatVersion(f.kind, f.version), Spare(f)>>
           n == SectionCount(f.kind)
<1>1. /\ order \in Seq(1 .. n + 1) /\ c \in 2 .. 8 /\ c \in Nat
      /\ HeaderSize(f.kind, f.version) = 4 + 2 * c
  BY PointersOf
<1>2. Header(f) = size \o two \o ptrs
  BY DEF Header, Spare
<1>3. \A i \in 1 .. n + 1 : PointerTo(f, i) \in DoubleWord
  <2> SUFFICES ASSUME NEW i \in 1 .. n + 1
               PROVE  PointerTo(f, i) \in DoubleWord
    OBVIOUS
  <2>1. Start(f, i) \in DoubleWord
    BY Starts
  <2>2. 0 \in DoubleWord
    BY Bases DEF DoubleWord
  <2> QED BY <2>1, <2>2 DEF PointerTo
<1>4. \A k \in 1 .. c : PointerTo(f, order[k]) \in DoubleWord
  <2> SUFFICES ASSUME NEW k \in 1 .. c
               PROVE  PointerTo(f, order[k]) \in DoubleWord
    OBVIOUS
  <2> HIDE DEF order
  <2>1. order[k] \in 1 .. n + 1
    BY <1>1, ElementOfSeq
  <2> QED BY <1>3, <2>1
<1>5. \A d \in DoubleWord : Double(d)[1] \in Word /\ Double(d)[2] \in Word
  <2> SUFFICES ASSUME NEW d \in DoubleWord
               PROVE  Double(d)[1] \in Word /\ Double(d)[2] \in Word
    OBVIOUS
  <2>1. Double(d) \in Seq(Word) /\ Len(Double(d)) = 2
    BY DoubleDigits
  <2> DEFINE dd == Double(d)
  <2> HIDE DEF dd
  <2>2. dd \in Seq(Word) /\ Len(dd) = 2
    BY <2>1 DEF dd
  <2>3. dd[1] \in Word /\ dd[2] \in Word
    <3>1. 1 \in 1 .. Len(dd) /\ 2 \in 1 .. Len(dd)
      BY <2>2
    <3> QED BY <2>2, <3>1, ElementOfSeq
  <2> QED BY <2>3 DEF dd
<1> HIDE DEF order
<1>6. \A w \in 1 .. 2 * c : pick(w) \in 1 .. c /\ 2 - (w % 2) \in {1, 2}
  <2> SUFFICES ASSUME NEW w \in 1 .. 2 * c
               PROVE  pick(w) \in 1 .. c /\ 2 - (w % 2) \in {1, 2}
    OBVIOUS
  <2>1. w \in Nat /\ w >= 1 /\ w <= 2 * c
    BY <1>1
  <2>2. /\ w % 2 \in {0, 1} /\ (w + 1) \div 2 \in Nat /\ 2 * ((w + 1) \div 2) = w + (w % 2)
    BY <2>1, Halved
  <2> QED BY <1>1, <2>1, <2>2
<1>7. \A w \in 1 .. 2 * c : Double(PointerTo(f, order[pick(w)]))[2 - (w % 2)] \in Word
  <2> SUFFICES ASSUME NEW w \in 1 .. 2 * c
               PROVE  Double(PointerTo(f, order[pick(w)]))[2 - (w % 2)] \in Word
    OBVIOUS
  <2>1. pick(w) \in 1 .. c /\ 2 - (w % 2) \in {1, 2}
    BY <1>6
  <2> HIDE DEF pick, c
  <2>2. PointerTo(f, order[pick(w)]) \in DoubleWord
    BY <1>4, <2>1
  <2> QED BY <1>5, <2>1, <2>2
<1>8. ptrs \in Seq(Word) /\ Len(ptrs) = 2 * c
  <2>1. 2 * c \in Nat
    BY <1>1
  <2> HIDE DEF pick, c
  <2> QED BY <1>7, <2>1
<1>9. ASSUME NEW k \in 1 .. c
      PROVE  /\ 2 * k - 1 \in 1 .. 2 * c /\ 2 * k \in 1 .. 2 * c
             /\ ptrs[2 * k - 1] = Double(PointerTo(f, order[k]))[1]
             /\ ptrs[2 * k] = Double(PointerTo(f, order[k]))[2]
  <2>1. k \in Nat /\ k >= 1 /\ k <= c
    BY <1>1
  <2>2. 2 * k - 1 \in 1 .. 2 * c /\ 2 * k \in 1 .. 2 * c
    BY <1>1, <2>1
  <2>3. pick(2 * k - 1) = k /\ pick(2 * k) = k /\ (2 * k - 1) % 2 = 1 /\ (2 * k) % 2 = 0
    BY <2>1
  <2> HIDE DEF pick, c
  <2> QED BY <2>2, <2>3
<1>10. size \in Seq(Word) /\ Len(size) = 2 /\ FileSize(f) \in DoubleWord
  BY DoubleDigits DEF EncodableFile
<1>11. FormatVersion(f.kind, f.version) \in Word /\ Spare(f) \in Word
  <2>1. FormatVersion(f.kind, f.version) \in 0 .. 7
    BY Kinds DEF FormatVersion, Supplement
  <2>2. 0 \in Word
    BY Bases DEF Word
  <2>3. Spare(f) \in Word
    BY <2>2, Kinds DEF Spare, LoadHeader
  <2> QED BY <2>1, <2>3, Bases DEF Word
<1>12. two \in Seq(Word) /\ Len(two) = 2 /\ two[1] = FormatVersion(f.kind, f.version)
       /\ two[2] = Spare(f)
  BY <1>11
<1> HIDE DEF size, two, ptrs
<1>13. Header(f) \in Seq(Word) /\ Len(Header(f)) = HeaderSize(f.kind, f.version)
  <2>1. size \o two \in Seq(Word) /\ Len(size \o two) = 4
    <3>1. Len(size \o two) = Len(size) + Len(two) /\ size \o two \in Seq(Word)
      BY <1>10, <1>12, ConcatProperties
    <3> QED BY <1>10, <1>12, <3>1
  <2>2. Header(f) \in Seq(Word) /\ Len(Header(f)) = Len(size \o two) + Len(ptrs)
    <3> DEFINE st == size \o two
    <3>1. st \in Seq(Word) /\ ptrs \in Seq(Word) /\ Header(f) = st \o ptrs
      BY <1>2, <1>8, <2>1
    <3> HIDE DEF st
    <3>2. Header(f) \in Seq(Word) /\ Len(Header(f)) = Len(st) + Len(ptrs)
      BY ONLY <3>1, ConcatProperties
    <3> QED BY <3>2 DEF st
  <2>3. Len(Header(f)) = 4 + 2 * c
    BY <1>8, <2>1, <2>2
  <2> QED BY <1>1, <2>2, <2>3
<1>14. ASSUME NEW words, NEW b, Stands(words, 0, Header(f), b)
       PROVE  /\ Pointer(words, 0) = FileSize(f)
              /\ words[3] = FormatVersion(f.kind, f.version) /\ words[4] = Spare(f)
              /\ \A k \in 1 .. c : Pointer(words, 2 + 2 * k) = PointerTo(f, order[k])
  <2>1. PICK m, o : Stands(words, 0, size, m) /\ Stands(words, m, two, o)
        /\ Stands(words, o, ptrs, b)
    BY <1>2, <1>8, <1>10, <1>12, <1>14, Split3
  <2>2. m = 2 /\ o = 4 /\ words \in Seq(Word)
    BY <1>10, <1>12, <2>1 DEF Stands
  <2>3. Holds(words, 0, size) /\ Holds(words, 2, two) /\ Holds(words, 4, ptrs)
    BY <2>1, <2>2 DEF Stands
  <2>4. Pointer(words, 0) = FileSize(f)
    BY <1>10, <2>2, <2>3, DoubleRead DEF size
  <2>5. words[3] = FormatVersion(f.kind, f.version) /\ words[4] = Spare(f)
    BY <1>12, <2>3 DEF Holds
  <2>6. ASSUME NEW k \in 1 .. c
        PROVE  Pointer(words, 2 + 2 * k) = PointerTo(f, order[k])
    <3> DEFINE d == PointerTo(f, order[k])
    <3>1. d \in DoubleWord
      BY <1>4
    <3>2. k \in Nat /\ 2 * k - 1 \in 1 .. Len(ptrs) /\ 2 * k \in 1 .. Len(ptrs)
          /\ ptrs[2 * k - 1] = Double(d)[1] /\ ptrs[2 * k] = Double(d)[2]
      BY <1>1, <1>8, <1>9
    <3>3. words[4 + (2 * k - 1)] = ptrs[2 * k - 1] /\ words[4 + 2 * k] = ptrs[2 * k]
      BY <2>3, <3>2 DEF Holds
    <3>4. 4 + (2 * k - 1) = (2 + 2 * k) + 1 /\ 4 + 2 * k = (2 + 2 * k) + 2
      BY <3>2
    <3> HIDE DEF d
    <3>5. Double(d)[1] * WordBase + Double(d)[2] = d
      BY <3>1, DoubleDigits
    <3>6. words[(2 + 2 * k) + 1] = Double(d)[1] /\ words[(2 + 2 * k) + 2] = Double(d)[2]
      BY <3>2, <3>3, <3>4
    <3>7. Pointer(words, 2 + 2 * k) = d
      BY <3>5, <3>6 DEF Pointer
    <3> QED BY <3>7 DEF d
  <2> QED BY <2>4, <2>5, <2>6
<1> QED BY <1>11, <1>13, <1>14 DEF order

-----------------------------------------------------------------------------
(* A file: what comes before the check value, the check value, the CRC of  *)
(* both, and in load headers the load CRC.                                 *)

Lead(f) == Header(f) \o FlattenSeq(Sections(f))
CheckWords(f) ==
  IF HasCheckValue(f.kind, f.version) THEN EncodedCheckValue(CheckValueOf(f.check, Lead(f)))
  ELSE <<>>
Covered(f) == Lead(f) \o CheckWords(f)
Whole(f, tail) == Covered(f) \o <<Checksum(Covered(f))>> \o tail
Tails(kind) == {t \in Seq(Word) : Len(t) = CrcWords(kind) - 1}

(* Typing of the parts of a file.                                          *)
LEMMA CoveredWords ==
  ASSUME NEW f \in Contents, EncodableFile(f), NEW n, n = SectionCount(f.kind)
  PROVE  /\ Lead(f) \in Seq(Word) /\ Len(Lead(f)) = Start(f, n + 1)
         /\ CheckWords(f) \in Seq(Word) /\ Len(CheckWords(f)) = Len(CheckValueRoom(f))
         /\ Covered(f) \in Seq(Word) /\ Len(Covered(f)) = FileSize(f) - CrcWords(f.kind)
         /\ Len(Covered(f)) = Start(f, n + 1) + Len(CheckWords(f))
         /\ Checksum(Covered(f)) \in Word
<1>1. /\ Header(f) \in Seq(Word) /\ FlattenSeq(Sections(f)) \in Seq(Word)
      /\ Len(Header(f)) = HeaderSize(f.kind, f.version)
      /\ Start(f, n + 1) = HeaderSize(f.kind, f.version) + Len(FlattenSeq(Sections(f)))
  BY HeaderWords, Starts, FlattenedWords
<1>2. Lead(f) \in Seq(Word) /\ Len(Lead(f)) = Start(f, n + 1)
  BY <1>1, ConcatProperties DEF Lead
<1>3. CheckWords(f) \in Seq(Word) /\ Len(CheckWords(f)) = Len(CheckValueRoom(f))
  <2>1. CASE HasCheckValue(f.kind, f.version)
    BY <1>2, <2>1, Room, CheckValueOfWords DEF CheckWords
  <2>2. CASE ~ HasCheckValue(f.kind, f.version)
    BY <2>2, Room DEF CheckWords
  <2> QED BY <2>1, <2>2
<1>4. Covered(f) \in Seq(Word) /\ Len(Covered(f)) = Len(Lead(f)) + Len(CheckWords(f))
  BY <1>2, <1>3, ConcatProperties DEF Covered
<1>5. Len(Covered(f)) = FileSize(f) - CrcWords(f.kind)
  <2>1. /\ FileSize(f) = Start(f, n + 1) + Len(CheckValueRoom(f)) + CrcWords(f.kind)
        /\ Len(CheckValueRoom(f)) \in Nat /\ Start(f, n + 1) \in Nat /\ CrcWords(f.kind) \in Nat
    <3>1. FileSize(f) = Start(f, n + 1) + Len(CheckValueRoom(f)) + CrcWords(f.kind)
      BY Starts
    <3>2. Len(CheckValueRoom(f)) \in Nat /\ Start(f, n + 1) \in Nat
      BY <1>2, <1>3
    <3> QED BY <3>1, <3>2, PointersOf
  <2> QED BY <1>2, <1>3, <1>4, <2>1
<1> QED BY <1>2, <1>3, <1>4, <1>5, ChecksumWord

(* What stands where in a whole file.                                      *)
LEMMA WholeWords ==
  ASSUME NEW f \in Contents, EncodableFile(f), NEW n, n = SectionCount(f.kind),
         NEW tail \in Tails(f.kind), NEW words, words = Whole(f, tail)
  PROVE  /\ words \in Seq(Word) /\ Len(words) = FileSize(f)
         /\ Read(words, 0, Len(words) - CrcWords(f.kind)) = Covered(f)
         /\ words[Len(words) - CrcWords(f.kind) + 1] = Checksum(Covered(f))
         /\ Read(words, 0, Start(f, n + 1)) = Lead(f)
         /\ Pointer(words, 0) = Len(words)
         /\ words[3] = FormatVersion(f.kind, f.version) /\ words[4] = Spare(f)
         /\ \A k \in 1 .. Len(Pointers(f.kind, f.version)) :
              Pointer(words, 2 + 2 * k) = PointerTo(f, Pointers(f.kind, f.version)[k])
         /\ \A i \in 1 .. n : Stands(words, Start(f, i), Sections(f)[i], Start(f, i + 1))
         /\ Stands(words, Start(f, n + 1), CheckWords(f), Len(words) - CrcWords(f.kind))
<1> DEFINE v == Covered(f)
           crc == <<Checksum(Covered(f))>>
           lead == Lead(f)
           check == CheckWords(f)
           h == HeaderSize(f.kind, f.version)
<1>1. /\ v \in Seq(Word) /\ crc \in Seq(Word) /\ Len(crc) = 1 /\ crc[1] = Checksum(Covered(f))
      /\ tail \in Seq(Word) /\ Len(tail) = CrcWords(f.kind) - 1
      /\ Len(v) = FileSize(f) - CrcWords(f.kind) /\ v = lead \o check
      /\ lead \in Seq(Word) /\ check \in Seq(Word) /\ Len(lead) = Start(f, n + 1)
  BY CoveredWords DEF Tails, Covered
<1>2. words = v \o crc \o tail
  BY DEF Whole
<1> HIDE DEF v, crc, lead, check, h
<1>3. words \in Seq(Word) /\ Len(words) = Len(v) + Len(crc) + Len(tail)
  <2>1. v \o crc \in Seq(Word) /\ Len(v \o crc) = Len(v) + Len(crc)
    BY <1>1, ConcatProperties
  <2> DEFINE vc == v \o crc
  <2>2. vc \in Seq(Word) /\ words = vc \o tail /\ tail \in Seq(Word)
    BY <1>1, <1>2, <2>1
  <2> HIDE DEF vc
  <2>3. words \in Seq(Word) /\ Len(words) = Len(vc) + Len(tail)
    BY <2>2, ConcatProperties
  <2> QED BY <2>1, <2>3 DEF vc
<1>4. Len(words) = FileSize(f) /\ Len(v) = Len(words) - CrcWords(f.kind) /\ Len(v) \in Nat
  <2>1. CrcWords(f.kind) \in Nat /\ FileSize(f) \in Nat
    <3>1. FileSize(f) \in DoubleWord
      BY Starts
    <3> QED BY <3>1, PointersOf, Bases DEF DoubleWord
  <2>2. Len(v) \in Nat
    BY <1>1
  <2> DEFINE w == Len(words)
             l == Len(v)
             c == CrcWords(f.kind)
             m == FileSize(f)
             g == Len(tail)
  <2>3. w = l + Len(crc) + g /\ Len(crc) = 1 /\ g = c - 1 /\ l = m - c
    BY <1>1, <1>3
  <2> HIDE DEF w, l, c, m, g
  <2>4. l \in Nat /\ c \in Nat /\ m \in Nat
    BY <2>1, <2>2 DEF l, c, m
  <2>5. w = m /\ l = w - c
    BY <2>3, <2>4
  <2> QED BY <2>4, <2>5 DEF w, l, c, m
<1>5. Stands(words, 0, v \o crc \o tail, Len(words))
  <2>1. Len(words) \in Nat /\ 0 \in Nat /\ \A i \in 1 .. Len(words) : words[0 + i] = words[i]
    BY <1>3
  <2>2. Holds(words, 0, words)
    BY <2>1 DEF Holds
  <2> QED BY <1>2, <1>3, <2>1, <2>2 DEF Stands
<1>6. PICK m, o : Stands(words, 0, v, m) /\ Stands(words, m, crc, o)
      /\ Stands(words, o, tail, Len(words))
  BY <1>1, <1>5, Split3
<1>7. m = Len(v)
  BY <1>4, <1>6 DEF Stands
<1>8. Read(words, 0, Len(v)) = v
  BY <1>1, <1>3, <1>6, HeldRead DEF Stands
<1>9. words[Len(v) + 1] = Checksum(Covered(f))
  BY <1>1, <1>6, <1>7 DEF Stands, Holds
<1>10. PICK l : Stands(words, 0, lead, l) /\ Stands(words, l, check, Len(v))
  BY <1>1, <1>6, <1>7, Split2
<1>11. l = Start(f, n + 1)
  <2>1. Len(lead) \in Nat /\ l = 0 + Len(lead)
    BY <1>1, <1>10 DEF Stands
  <2> QED BY <1>1, <2>1
<1>12. Read(words, 0, Start(f, n + 1)) = lead
  BY <1>1, <1>3, <1>10, HeldRead DEF Stands
<1>13. /\ Header(f) \in Seq(Word) /\ Len(Header(f)) = h /\ Sections(f) \in Seq(Seq(Word))
       /\ Len(Sections(f)) = n /\ FlattenSeq(Sections(f)) \in Seq(Word) /\ h \in Nat
       /\ lead = Header(f) \o FlattenSeq(Sections(f))
  BY HeaderWords, Starts, FlattenedWords, PointersOf DEF h, lead, Lead
<1>14. PICK g : Stands(words, 0, Header(f), g) /\ Stands(words, g, FlattenSeq(Sections(f)), l)
  BY <1>10, <1>13, Split2
<1>15. g = h
  BY <1>13, <1>14 DEF Stands
<1>16. /\ Pointer(words, 0) = FileSize(f)
       /\ words[3] = FormatVersion(f.kind, f.version) /\ words[4] = Spare(f)
       /\ \A k \in 1 .. Len(Pointers(f.kind, f.version)) :
            Pointer(words, 2 + 2 * k) = PointerTo(f, Pointers(f.kind, f.version)[k])
  BY <1>14, HeaderWords
<1>17. ASSUME NEW i \in 1 .. n
       PROVE  Stands(words, Start(f, i), Sections(f)[i], Start(f, i + 1))
  <2>1. \A j \in 1 .. Len(Sections(f)) :
          Holds(words, h + Len(Prefix(Sections(f), j - 1)), Sections(f)[j])
    <3>1. Holds(words, h, FlattenSeq(Sections(f))) /\ Len(words) \in Nat
      BY <1>3, <1>14, <1>15 DEF Stands
    <3> QED BY <1>13, <3>1, HoldsFlattened
  <2>2. i \in 1 .. n + 1 /\ i \in 1 .. Len(Sections(f))
    <3>1. n \in Nat
      BY <1>13
    <3> QED BY <1>13, <3>1
  <2>3. Start(f, i) = h + Len(Prefix(Sections(f), i - 1)) /\ Start(f, i) \in DoubleWord
    BY <2>2, Starts DEF h
  <2>4. Start(f, i + 1) = Start(f, i) + Len(Sections(f)[i])
    BY Starts
  <2>5. Start(f, i) \in Nat /\ Sections(f)[i] \in Seq(Word)
    BY <1>13, <2>2, <2>3, Bases DEF DoubleWord
  <2>6. Holds(words, Start(f, i), Sections(f)[i])
    BY <2>1, <2>2, <2>3
  <2> QED BY <1>3, <2>4, <2>5, <2>6 DEF Stands
<1> QED BY <1>3, <1>4, <1>8, <1>9, <1>10, <1>11, <1>12, <1>16, <1>17 DEF v, lead, check

-----------------------------------------------------------------------------
(* What the header of a whole file leads to.                               *)

(* decodeHeader accepts a whole file, and of the supplements only its own. *)
LEMMA Opened ==
  ASSUME NEW f \in Contents, EncodableFile(f), NEW tail \in Tails(f.kind),
         NEW words, words = Whole(f, tail), NEW o, o.kind = f.kind
  PROVE  DecodedFile(o, words) = DecodedBody(Reset(o), words, f.version)
<1>1. /\ Pointer(words, 0) = Len(words) /\ words[3] = FormatVersion(f.kind, f.version)
      /\ words[4] = Spare(f)
      /\ words[Len(words) - CrcWords(f.kind) + 1] =
           Checksum(Read(words, 0, Len(words) - CrcWords(f.kind)))
  BY WholeWords
<1>2. HeaderAccepted(words, f.kind, f.version)
  BY <1>1 DEF HeaderAccepted
<1>3. SpareAccepted(words, f.kind, f.version)
  BY <1>1 DEF SpareAccepted, Spare
<1>4. f.version \in Supplement
  BY Kinds
<1>5. \A v, w \in Supplement : FormatVersion(f.kind, v) = FormatVersion(f.kind, w) => v = w
  BY DEF FormatVersion, Supplement
<1>6. (CHOOSE v \in Supplement : words[3] = FormatVersion(f.kind, v)) = f.version
  BY <1>1, <1>4, <1>5
<1> QED BY <1>2, <1>3, <1>4, <1>6 DEF DecodedFile

(* The user data stands between a and e, where the pointers say.           *)
UserBetween(words, a, e, u, at, check, kind) ==
  /\ Stands(words, a, Packed(u), e) /\ a > 0
  /\ at = IF Packed(u) = <<>> THEN 0 ELSE a
  /\ check = 0 => e = Len(words) - CrcWords(kind)
  /\ check # 0 => e = check

UserFound(read, u, former) == read.ok /\ read.value = IF u = <<>> THEN former ELSE u

LEMMA UserDecoded ==
  ASSUME NEW words, NEW a, NEW e, NEW u \in UserData, NEW at, NEW check, NEW kind, NEW former,
         UserBetween(words, a, e, u, at, check, kind)
  PROVE  UserFound(DecodedUserData(words, at, check, kind, former), u, former)
<1> DEFINE p == Packed(u)
           end == IF check = 0 THEN Len(words) - CrcWords(kind) ELSE check
<1>1. /\ p \in Seq(Word) /\ Len(u) = 2 * Len(p) /\ (p = <<>> <=> u = <<>>)
      /\ u \in Text
  BY Nonempty DEF UserData
<1>2. /\ words \in Seq(Word) /\ a \in Nat /\ e = a + Len(p) /\ Holds(words, a, p)
  BY DEF UserBetween, Stands
<1>3. end = e
  BY DEF UserBetween
<1>4. Unpacked(p, Len(u)) = u
  BY <1>1, UnpackedPacked
<1>5. Read(words, a, Len(p)) = p
  BY <1>1, <1>2, HeldRead
<1>6. DecodedUserData(words, at, check, kind, former) =
        IF at = 0 THEN Got(former, 0)
        ELSE IF check # 0 /\ check <= at THEN Failed
        ELSE Got(Unpacked(SubSeq(words, at + 1, end), 2 * (end - at)), end)
  BY DEF DecodedUserData
<1>7. (at = IF u = <<>> THEN 0 ELSE a) /\ a > 0 /\ (check # 0 => e = check)
  BY <1>1 DEF UserBetween
<1> HIDE DEF p, end
<1>8. CASE u = <<>>
  BY <1>6, <1>7, <1>8, GotFields DEF UserFound
<1>9. CASE u # <<>>
  <2>1. Len(p) \in Nat /\ Len(p) # 0
    BY <1>1, <1>9, EmptySeq
  <2>2. at = a /\ at # 0 /\ ~ (check # 0 /\ check <= at)
    BY <1>2, <1>7, <1>9, <2>1
  <2>3. 2 * (end - at) = Len(u)
    BY <1>1, <1>2, <1>3, <2>1, <2>2
  <2>4. SubSeq(words, at + 1, end) = p
    BY <1>2, <1>3, <1>5, <2>2 DEF Read
  <2>5. DecodedUserData(words, at, check, kind, former) = Got(u, end)
    BY <1>4, <1>6, <2>2, <2>3, <2>4
  <2> QED BY <1>9, <2>5, GotFields DEF UserFound
<1> QED BY <1>8, <1>9

(* The check value of the whole file.                                      *)
LEMMA WholeCheckDecoded ==
  ASSUME NEW f \in Contents, EncodableFile(f), HasCheckValue(f.kind, f.version),
         NEW words, NEW a, NEW b, Stands(words, a, CheckWords(f), b)
  PROVE  /\ DecodedCheckValue(words, a) = Got(CheckValueOf(f.check, Lead(f)), b)
         /\ CheckValueOf(f.check, Lead(f)).type = f.check
<1>1. f.check \in CheckType /\ Lead(f) \in Seq(Word)
  BY Room, CoveredWords
<1>2. CheckValueOf(f.check, Lead(f)) \in CheckValue /\ CheckValueOf(f.check, Lead(f)).type = f.check
  BY <1>1, CheckValueOfWords
<1>3. Stands(words, a, EncodedCheckValue(CheckValueOf(f.check, Lead(f))), b)
  BY DEF CheckWords
<1> QED BY <1>2, <1>3, CheckValueStands

(* Where the parts of the lists of a media set stand.                      *)
UserRead(f, words, former) ==
  DecodedUserData(words, Pointer(words, 8),
                  IF HasCheckValue(f.kind, f.version) THEN Pointer(words, 10) ELSE 0,
                  f.kind, former)
(* Where the parts of the lists of a media set stand.                      *)
LEMMA ListFileParts ==
  ASSUME NEW f \in Contents, EncodableFile(f), f.kind \in {"fileList", "loadList", "batchList"},
         Sections(f)[1] # <<>>, Sections(f)[2] # <<>>,
         Sections(f)[3] = Packed(f.user), f.user \in UserData,
         NEW tail \in Tails(f.kind), NEW words, words = Whole(f, tail)
  PROVE  /\ \E b : Stands(words, Pointer(words, 4), Sections(f)[1], b)
         /\ \E b : Stands(words, Pointer(words, 6), Sections(f)[2], b)
         /\ HasCheckValue(f.kind, f.version) =>
              /\ Pointer(words, 10) # 0
              /\ Read(words, 0, Pointer(words, 10)) = Lead(f)
              /\ \E b : Stands(words, Pointer(words, 10), CheckWords(f), b)
         /\ \A former :
              /\ UserRead(f, words, former).ok
              /\ UserRead(f, words, former).value = IF f.user = <<>> THEN former ELSE f.user
<1> DEFINE order == Pointers(f.kind, f.version)
           has == HasCheckValue(f.kind, f.version)
<1>1. /\ \A k \in 1 .. Len(order) : Pointer(words, 2 + 2 * k) = PointerTo(f, order[k])
      /\ \A i \in 1 .. 3 : Stands(words, Start(f, i), Sections(f)[i], Start(f, i + 1))
      /\ Stands(words, Start(f, 4), CheckWords(f), Len(words) - CrcWords(f.kind))
      /\ Read(words, 0, Start(f, 4)) = Lead(f)
  <2>1. SectionCount(f.kind) = 3 /\ 3 + 1 = 4
    BY DEF SectionCount
  <2>2. \A k \in 1 .. Len(order) : Pointer(words, 2 + 2 * k) = PointerTo(f, order[k])
    BY WholeWords
  <2>3. \A i \in 1 .. 3 : Stands(words, Start(f, i), Sections(f)[i], Start(f, i + 1))
    BY <2>1, WholeWords
  <2>4. /\ Stands(words, Start(f, 4), CheckWords(f), Len(words) - CrcWords(f.kind))
        /\ Read(words, 0, Start(f, 4)) = Lead(f)
    BY <2>1, WholeWords
  <2> QED BY <2>2, <2>3, <2>4
<1>2. /\ \A i \in 1 .. 3 : AllSections(f)[i] = Sections(f)[i]
      /\ AllSections(f)[4] = CheckValueRoom(f)
      /\ \A i \in 1 .. 4 : Start(f, i) \in DoubleWord /\ Start(f, i) > 0
  <2>1. SectionCount(f.kind) = 3
    BY DEF SectionCount
  <2>2. /\ \A i \in 1 .. 3 : AllSections(f)[i] = Sections(f)[i]
        /\ AllSections(f)[3 + 1] = CheckValueRoom(f)
        /\ \A i \in 1 .. 3 + 1 : Start(f, i) \in DoubleWord /\ Start(f, i) > 0
    BY <2>1, Starts
  <2>3. 3 + 1 = 4
    OBVIOUS
  <2> QED BY <2>2, <2>3
<1>3. /\ Pointer(words, 4) = PointerTo(f, 1) /\ Pointer(words, 6) = PointerTo(f, 2)
      /\ Pointer(words, 8) = PointerTo(f, 3)
      /\ has => Pointer(words, 10) = PointerTo(f, 4)
  <2>1. /\ Len(order) \in {3, 4} /\ order[1] = 1 /\ order[2] = 2 /\ order[3] = 3
        /\ has => Len(order) = 4 /\ order[4] = 4
    <3>1. order = <<1, 2, 3>> \/ order = <<1, 2, 3, 4>>
      BY DEF Pointers
    <3>2. has => order = <<1, 2, 3, 4>>
      BY DEF Pointers, HasCheckValue
    <3> QED BY <3>1, <3>2
  <2> HIDE DEF order, has
  <2>2. /\ Pointer(words, 2 + 2 * 1) = PointerTo(f, order[1])
        /\ Pointer(words, 2 + 2 * 2) = PointerTo(f, order[2])
        /\ Pointer(words, 2 + 2 * 3) = PointerTo(f, order[3])
        /\ has => Pointer(words, 2 + 2 * 4) = PointerTo(f, order[4])
    BY <1>1, <2>1
  <2> QED BY <2>1, <2>2
<1>4. Pointer(words, 4) = Start(f, 1) /\ Pointer(words, 6) = Start(f, 2)
  BY <1>2, <1>3 DEF PointerTo
<1>5. has => Pointer(words, 10) = Start(f, 4)
  BY <1>2, <1>3, Room DEF PointerTo
<1>6. ASSUME NEW former
      PROVE  /\ UserRead(f, words, former).ok
             /\ UserRead(f, words, former).value = IF f.user = <<>> THEN former ELSE f.user
  <2> DEFINE check == IF has THEN Pointer(words, 10) ELSE 0
             at == Pointer(words, 8)
  <2>1. Stands(words, Start(f, 3), Packed(f.user), Start(f, 4)) /\ Start(f, 3) > 0
        /\ Start(f, 4) > 0
    BY <1>1, <1>2
  <2>2. at = IF Packed(f.user) = <<>> THEN 0 ELSE Start(f, 3)
    BY <1>2, <1>3 DEF PointerTo
  <2>3. check # 0 => Start(f, 4) = check
    BY <1>5
  <2>4. check = 0 => Start(f, 4) = Len(words) - CrcWords(f.kind)
    <3>1. ASSUME check = 0
          PROVE  ~ has
      BY <1>5, <2>1, <3>1
    <3>2. ASSUME ~ has
          PROVE  Start(f, 4) = Len(words) - CrcWords(f.kind)
      <4>1. Stands(words, Start(f, 4), <<>>, Len(words) - CrcWords(f.kind)) /\ Len(<<>>) = 0
        BY <1>1, <3>2 DEF CheckWords
      <4>2. Start(f, 4) \in Nat
        BY <4>1 DEF Stands
      <4> QED BY <4>1, <4>2 DEF Stands
    <3> QED BY <3>1, <3>2
  <2> HIDE DEF check, at
  <2>5. UserFound(DecodedUserData(words, at, check, f.kind, former), f.user, former)
    <3>1. UserBetween(words, Start(f, 3), Start(f, 4), f.user, at, check, f.kind)
      BY <2>1, <2>2, <2>3, <2>4 DEF UserBetween
    <3> QED BY <3>1, UserDecoded
  <2>6. UserRead(f, words, former) = DecodedUserData(words, at, check, f.kind, former)
    BY DEF UserRead, check, at
  <2> QED BY <2>5, <2>6 DEF UserFound
<1>7. /\ Stands(words, Pointer(words, 4), Sections(f)[1], Start(f, 2))
      /\ Stands(words, Pointer(words, 6), Sections(f)[2], Start(f, 3))
  <2>1. Stands(words, Start(f, 1), Sections(f)[1], Start(f, 1 + 1))
        /\ Stands(words, Start(f, 2), Sections(f)[2], Start(f, 2 + 1))
    BY <1>1
  <2>2. 1 + 1 = 2 /\ 2 + 1 = 3
    OBVIOUS
  <2> QED BY <1>4, <2>1, <2>2
<1>8. ASSUME has
      PROVE  /\ Pointer(words, 10) # 0
             /\ Read(words, 0, Pointer(words, 10)) = Lead(f)
             /\ \E b : Stands(words, Pointer(words, 10), CheckWords(f), b)
  <2>1. Pointer(words, 10) = Start(f, 4) /\ Start(f, 4) > 0
    BY <1>2, <1>5, <1>8
  <2> QED BY <1>1, <2>1
<1> QED BY <1>6, <1>7, <1>8

-----------------------------------------------------------------------------
(* The lists of files, loads and batches are decoded as they were encoded. *)

(* What is read of the lists of a media set, with user defined data and    *)
(* check values.                                                           *)
LEMMA MediaRead ==
  ASSUME NEW f, f.part \in Text, f.media \in MediaInformation, StringFits(f.part),
         NEW words, NEW a, NEW b, Stands(words, a, EncodedMediaInformation(f), b)
  PROVE  /\ DecodedMediaInformation(words, a).ok
         /\ DecodedMediaInformation(words, a).value.part = f.part
         /\ DecodedMediaInformation(words, a).value.media = f.media
<1>1. DecodedMediaInformation(words, a) = Got([part |-> f.part, media |-> f.media], b)
  BY MediaInformationDecoded
<1> QED BY <1>1, GotFields

LEMMA LoadListDecoded ==
  ASSUME NEW f \in LoadList, f \in Contents, EncodableFile(f), CountersFit(f),
         NEW tail \in Tails(f.kind), NEW words, words = Whole(f, tail), NEW o, o.kind = f.kind
  PROVE  DecodedLoadList(o, words, f.version) =
           Got([o EXCEPT !.version = f.version, !.part = f.part, !.media = f.media,
                         !.loads = @ \o f.loads,
                         !.user = IF f.user = <<>> THEN o.user ELSE f.user], 0)
<1> DEFINE info == DecodedMediaInformation(words, Pointer(words, 4))
           loads == DecodedList([p \in Places(words) |-> DecodedLoadInfo(words, p)],
                                words, Pointer(words, 6))
           user == DecodedUserData(words, Pointer(words, 8), 0, o.kind, o.user)
<1>1. /\ f.kind = "loadList" /\ f.part \in Text /\ f.media \in MediaInformation
      /\ f.loads \in Seq(LoadInfo) /\ f.user \in UserData
  BY DEF LoadList
<1>2. LoadListFits(f) /\ EntriesFit(LoadEntries(f))
  BY <1>1 DEF EncodableFile, CountersFit
<1>3. /\ Sections(f)[1] = EncodedMediaInformation(f) /\ Sections(f)[2] = EncodedList(LoadEntries(f))
      /\ Sections(f)[3] = Packed(f.user) /\ Sections(f)[1] # <<>> /\ Sections(f)[2] # <<>>
  BY <1>2, LoadListSectionsWords
<1>4. ~ HasCheckValue(f.kind, f.version)
  BY <1>1 DEF HasCheckValue
<1>5. /\ \E b : Stands(words, Pointer(words, 4), Sections(f)[1], b)
      /\ \E b : Stands(words, Pointer(words, 6), Sections(f)[2], b)
  BY <1>1, <1>3, ListFileParts
<1>6. user.ok /\ user.value = IF f.user = <<>> THEN o.user ELSE f.user
  <2>1. /\ UserRead(f, words, o.user).ok
        /\ UserRead(f, words, o.user).value = IF f.user = <<>> THEN o.user ELSE f.user
    BY <1>1, <1>3, ListFileParts
  <2>2. user = UserRead(f, words, o.user)
    BY <1>4 DEF UserRead
  <2> HIDE DEF user
  <2> QED BY <2>1, <2>2
<1>7. info.ok /\ info.value.part = f.part /\ info.value.media = f.media
  BY <1>1, <1>2, <1>3, <1>5, MediaRead DEF LoadListFits
<1>8. loads.ok /\ loads.value = f.loads
  BY <1>1, <1>2, <1>3, <1>5, LoadInfosDecoded DEF LoadListFits
<1>9. DecodedLoadList(o, words, f.version) =
        IF info.ok /\ loads.ok /\ user.ok
        THEN Got([o EXCEPT !.version = f.version, !.part = info.value.part,
                           !.media = info.value.media, !.loads = @ \o loads.value,
                           !.user = user.value], 0)
        ELSE Failed
  BY DEF DecodedLoadList
<1> HIDE DEF info, loads, user
<1> QED BY <1>6, <1>7, <1>8, <1>9

LEMMA BatchListDecoded ==
  ASSUME NEW f \in BatchList, f \in Contents, EncodableFile(f), CountersFit(f),
         NEW tail \in Tails(f.kind), NEW words, words = Whole(f, tail), NEW o, o.kind = f.kind
  PROVE  DecodedBatchList(o, words, f.version) =
           Got([o EXCEPT !.version = f.version, !.part = f.part, !.media = f.media,
                         !.batches = f.batches,
                         !.user = IF f.user = <<>> THEN o.user ELSE f.user], 0)
<1> DEFINE info == DecodedMediaInformation(words, Pointer(words, 4))
           batches == DecodedList([p \in Places(words) |-> DecodedBatchInfo(words, p)],
                                  words, Pointer(words, 6))
           user == DecodedUserData(words, Pointer(words, 8), 0, o.kind, o.user)
<1>1. /\ f.kind = "batchList" /\ f.part \in Text /\ f.media \in MediaInformation
      /\ f.batches \in Seq(BatchInfo) /\ f.user \in UserData
  BY DEF BatchList
<1>2. BatchListFits(f) /\ EntriesFit(BatchEntries(f))
  BY <1>1 DEF EncodableFile, CountersFit
<1>3. /\ Sections(f)[1] = EncodedMediaInformation(f)
      /\ Sections(f)[2] = EncodedList(BatchEntries(f))
      /\ Sections(f)[3] = Packed(f.user) /\ Sections(f)[1] # <<>> /\ Sections(f)[2] # <<>>
  BY <1>2, BatchListSectionsWords
<1>4. ~ HasCheckValue(f.kind, f.version)
  BY <1>1 DEF HasCheckValue
<1>5. /\ \E b : Stands(words, Pointer(words, 4), Sections(f)[1], b)
      /\ \E b : Stands(words, Pointer(words, 6), Sections(f)[2], b)
  BY <1>1, <1>3, ListFileParts
<1>6. user.ok /\ user.value = IF f.user = <<>> THEN o.user ELSE f.user
  <2>1. /\ UserRead(f, words, o.user).ok
        /\ UserRead(f, words, o.user).value = IF f.user = <<>> THEN o.user ELSE f.user
    BY <1>1, <1>3, ListFileParts
  <2>2. user = UserRead(f, words, o.user)
    BY <1>4 DEF UserRead
  <2> HIDE DEF user
  <2> QED BY <2>1, <2>2
<1>7. info.ok /\ info.value.part = f.part /\ info.value.media = f.media
  BY <1>1, <1>2, <1>3, <1>5, MediaRead DEF BatchListFits
<1>8. batches.ok /\ batches.value = f.batches
  BY <1>1, <1>2, <1>3, <1>5, BatchInfosDecoded DEF BatchListFits
<1>9. DecodedBatchList(o, words, f.version) =
        IF info.ok /\ batches.ok /\ user.ok
        THEN Got([o EXCEPT !.version = f.version, !.part = info.value.part,
                           !.media = info.value.media, !.batches = batches.value,
                           !.user = user.value], 0)
        ELSE Failed
  BY DEF DecodedBatchList
<1> HIDE DEF info, batches, user
<1> QED BY <1>6, <1>7, <1>8, <1>9

LEMMA FileListDecoded ==
  ASSUME NEW f \in FileList, f \in Contents, EncodableFile(f), CountersFit(f),
         NEW tail \in Tails(f.kind), NEW words, words = Whole(f, tail), NEW o, o.kind = f.kind
  PROVE  DecodedFileList(o, words, f.version) =
           Got([o EXCEPT !.version = f.version, !.part = f.part, !.media = f.media,
                         !.files = [i \in DOMAIN f.files |-> ReadFile(f.version, f.files[i])],
                         !.user = IF f.user = <<>> THEN o.user ELSE f.user,
                         !.check = IF f.version = 3 THEN f.check ELSE NotUsed], 0)
<1> DEFINE v == f.version
           checkAt == IF v = 3 THEN Pointer(words, 10) ELSE 0
           info == DecodedMediaInformation(words, Pointer(words, 4))
           files == DecodedList([p \in Places(words) |-> DecodedFileInfo(v, words, p)],
                                words, Pointer(words, 6))
           user == DecodedUserData(words, Pointer(words, 8), checkAt, o.kind, o.user)
           check == Optional(checkAt, DecodedCheckValue(words, checkAt), NoCheckValue)
<1>1. /\ f.kind = "fileList" /\ f.part \in Text /\ f.media \in MediaInformation
      /\ f.files \in Seq(FileInfo) /\ f.user \in UserData /\ v \in Supplement
  BY DEF FileList
<1>2. FileListFits(f) /\ EntriesFit(FileEntries(f))
  BY <1>1 DEF EncodableFile, CountersFit
<1>3. /\ Sections(f)[1] = EncodedMediaInformation(f) /\ Sections(f)[2] = EncodedList(FileEntries(f))
      /\ Sections(f)[3] = Packed(f.user) /\ Sections(f)[1] # <<>> /\ Sections(f)[2] # <<>>
  BY <1>2, FileListSectionsWords
<1>4. HasCheckValue(f.kind, f.version) <=> v = 3
  BY <1>1 DEF HasCheckValue
<1>5. /\ \E b : Stands(words, Pointer(words, 4), Sections(f)[1], b)
      /\ \E b : Stands(words, Pointer(words, 6), Sections(f)[2], b)
      /\ v = 3 =>
           /\ Pointer(words, 10) # 0
           /\ Read(words, 0, Pointer(words, 10)) = Lead(f)
           /\ \E b : Stands(words, Pointer(words, 10), CheckWords(f), b)
  BY <1>1, <1>3, <1>4, ListFileParts
<1>6. user.ok /\ user.value = IF f.user = <<>> THEN o.user ELSE f.user
  <2>1. /\ UserRead(f, words, o.user).ok
        /\ UserRead(f, words, o.user).value = IF f.user = <<>> THEN o.user ELSE f.user
    BY <1>1, <1>3, ListFileParts
  <2>2. user = UserRead(f, words, o.user)
    BY <1>4 DEF UserRead
  <2> HIDE DEF user
  <2> QED BY <2>1, <2>2
<1>7. info.ok /\ info.value.part = f.part /\ info.value.media = f.media
  BY <1>1, <1>2, <1>3, <1>5, MediaRead DEF FileListFits
<1>8. files.ok /\ files.value = [i \in DOMAIN f.files |-> ReadFile(v, f.files[i])]
  BY <1>1, <1>2, <1>3, <1>5, FileInfosDecoded DEF FileListFits
<1>9. /\ check.ok /\ check.value.type = IF v = 3 THEN f.check ELSE NotUsed
      /\ check.value.type # NotUsed =>
           check.value = CheckValueOf(check.value.type, Read(words, 0, checkAt))
  <2>1. CASE v = 3
    <3> DEFINE c == CheckValueOf(f.check, Lead(f))
    <3>1. PICK b : DecodedCheckValue(words, Pointer(words, 10)) = Got(c, b) /\ c.type = f.check
      BY <1>4, <1>5, <2>1, WholeCheckDecoded
    <3>2. /\ checkAt = Pointer(words, 10) /\ checkAt # 0
          /\ Read(words, 0, checkAt) = Lead(f)
      BY <1>5, <2>1
    <3> HIDE DEF checkAt
    <3>3. check = Got(c, b)
      BY <3>1, <3>2 DEF Optional
    <3>4. check.ok /\ check.value = c
      BY <3>3, GotFields
    <3> HIDE DEF check
    <3> QED BY <2>1, <3>1, <3>2, <3>4
  <2>2. CASE v # 3
    <3>1. check = Got(NoCheckValue, 0)
      BY <2>2 DEF Optional
    <3>2. check.ok /\ check.value = NoCheckValue
      BY <3>1, GotFields
    <3> HIDE DEF check
    <3> QED BY <2>2, <3>2 DEF NoCheckValue
  <2> QED BY <2>1, <2>2
<1>10. DecodedFileList(o, words, v) =
        IF /\ info.ok /\ files.ok /\ user.ok /\ check.ok
           /\ check.value.type # NotUsed =>
                check.value = CheckValueOf(check.value.type, Read(words, 0, checkAt))
        THEN Got([o EXCEPT !.version = v, !.part = info.value.part,
                           !.media = info.value.media, !.files = files.value,
                           !.user = user.value, !.check = check.value.type], 0)
        ELSE Failed
  BY DEF DecodedFileList
<1> HIDE DEF info, files, user, check, checkAt
<1> QED BY <1>6, <1>7, <1>8, <1>9, <1>10

-----------------------------------------------------------------------------
(* So are batch files.                                                     *)

LEMMA BatchFileDecoded ==
  ASSUME NEW f \in BatchFile, f \in Contents, EncodableFile(f),
         NEW tail \in Tails(f.kind), NEW words, words = Whole(f, tail), NEW o, o.kind = f.kind
  PROVE  DecodedBatchFile(o, words, f.version) =
           Got([o EXCEPT !.version = f.version, !.part = f.part, !.comment = f.comment,
                         !.targets = f.targets], 0)
<1> DEFINE part == DecodedString(words, Pointer(words, 4))
           comment == DecodedString(words, part.at)
           targets == DecodedList([p \in Places(words) |-> DecodedTarget(words, p)],
                                  words, Pointer(words, 6))
           order == Pointers(f.kind, f.version)
<1>1. /\ f.kind = "batchFile" /\ f.part \in Text /\ f.comment \in Text
      /\ f.targets \in Seq(BatchTarget)
  BY DEF BatchFile
<1>2. BatchFileFits(f)
  BY <1>1 DEF EncodableFile
<1>3. /\ Sections(f)[1] = EncodedString(f.part) \o EncodedString(f.comment)
      /\ Sections(f)[2] = EncodedList(TargetEntries(f))
      /\ Sections(f)[1] # <<>> /\ Sections(f)[2] # <<>>
      /\ EncodedString(f.part) \in Seq(Word) /\ EncodedString(f.comment) \in Seq(Word)
  BY <1>2, BatchFileSectionsWords
<1>4. SectionCount(f.kind) = 2 /\ order = <<1, 2>>
  BY <1>1 DEF SectionCount, Pointers
<1>5. /\ \A k \in 1 .. Len(order) : Pointer(words, 2 + 2 * k) = PointerTo(f, order[k])
      /\ \A i \in 1 .. 2 : Stands(words, Start(f, i), Sections(f)[i], Start(f, i + 1))
  BY <1>4, WholeWords
<1>6. /\ \A i \in 1 .. 2 : AllSections(f)[i] = Sections(f)[i]
  BY <1>4, Starts
<1>7. Pointer(words, 4) = Start(f, 1) /\ Pointer(words, 6) = Start(f, 2)
  <2>1. 1 \in 1 .. Len(order) /\ 2 \in 1 .. Len(order) /\ order[1] = 1 /\ order[2] = 2
    BY <1>4
  <2> HIDE DEF order
  <2>2. Pointer(words, 2 + 2 * 1) = PointerTo(f, 1) /\ Pointer(words, 2 + 2 * 2) = PointerTo(f, 2)
    BY <1>5, <2>1
  <2>3. 2 + 2 * 1 = 4 /\ 2 + 2 * 2 = 6
    OBVIOUS
  <2> QED BY <1>3, <1>6, <2>2, <2>3 DEF PointerTo
<1>8. PICK b, e : /\ Stands(words, Pointer(words, 4), Sections(f)[1], b)
                  /\ Stands(words, Pointer(words, 6), Sections(f)[2], e)
  BY <1>5, <1>7
<1>9. part.ok /\ part.value = f.part /\ comment.ok /\ comment.value = f.comment
  <2>1. PICK m : /\ Stands(words, Pointer(words, 4), EncodedString(f.part), m)
                 /\ Stands(words, m, EncodedString(f.comment), b)
    BY <1>3, <1>8, Split2
  <2>2. part = Got(f.part, m)
    BY <1>1, <1>2, <2>1, StringStands DEF BatchFileFits
  <2>3. part.ok /\ part.value = f.part /\ part.at = m
    BY <2>2, GotFields
  <2>4. DecodedString(words, m) = Got(f.comment, b)
    BY <1>1, <1>2, <2>1, StringStands DEF BatchFileFits
  <2> HIDE DEF part
  <2>5. comment = Got(f.comment, b)
    BY <2>3, <2>4
  <2>6. comment.ok /\ comment.value = f.comment
    BY <2>5, GotFields
  <2> QED BY <2>3, <2>6
<1>10. targets.ok /\ targets.value = f.targets
  BY <1>1, <1>2, <1>3, <1>8, TargetsDecoded DEF BatchFileFits
<1>11. DecodedBatchFile(o, words, f.version) =
         IF part.ok /\ comment.ok /\ targets.ok
         THEN Got([o EXCEPT !.version = f.version, !.part = part.value,
                            !.comment = comment.value, !.targets = targets.value], 0)
         ELSE Failed
  BY DEF DecodedBatchFile
<1> HIDE DEF part, comment, targets
<1> QED BY <1>9, <1>10, <1>11

(* Where the parts of a load header stand.                                 *)
LEMMA LoadHeaderParts ==
  ASSUME NEW f \in LoadHeader, f \in Contents, EncodableFile(f),
         NEW tail \in Tails(f.kind), NEW words, words = Whole(f, tail)
  PROVE  /\ \A i \in 1 .. 7 : /\ Stands(words, Start(f, i), Sections(f)[i], Start(f, i + 1))
                              /\ Start(f, i) > 0
                              /\ PointerTo(f, i) = IF Sections(f)[i] = <<>> THEN 0 ELSE Start(f, i)
         /\ Stands(words, Start(f, 8), CheckWords(f), Len(words) - CrcWords(f.kind))
         /\ Start(f, 8) \in DoubleWord /\ Start(f, 8) > 0
         /\ Read(words, 0, Start(f, 8)) = Lead(f)
         /\ Pointer(words, 4) = PointerTo(f, 1) /\ Pointer(words, 6) = PointerTo(f, 3)
         /\ Pointer(words, 8) = PointerTo(f, 5) /\ Pointer(words, 10) = PointerTo(f, 6)
         /\ Pointer(words, 12) = PointerTo(f, 7)
         /\ f.version = 3 =>
              /\ Pointer(words, 14) = PointerTo(f, 2) /\ Pointer(words, 16) = PointerTo(f, 4)
              /\ Pointer(words, 18) = Start(f, 8)
         /\ f.version = 3 => words[4] = f.flags
<1> DEFINE order == Pointers(f.kind, f.version)
<1>1. f.kind = "loadHeader" /\ f.version \in Supplement
  BY DEF LoadHeader
<1>2. SectionCount(f.kind) = 7
  BY <1>1 DEF SectionCount
<1>3. 7 + 1 = 8
  OBVIOUS
<1>4. /\ \A k \in 1 .. Len(order) : Pointer(words, 2 + 2 * k) = PointerTo(f, order[k])
      /\ \A i \in 1 .. 7 : Stands(words, Start(f, i), Sections(f)[i], Start(f, i + 1))
      /\ Stands(words, Start(f, 7 + 1), CheckWords(f), Len(words) - CrcWords(f.kind))
      /\ Read(words, 0, Start(f, 7 + 1)) = Lead(f)
      /\ words[4] = Spare(f)
  BY <1>2, WholeWords
<1>5. /\ \A i \in 1 .. 7 : AllSections(f)[i] = Sections(f)[i]
      /\ AllSections(f)[7 + 1] = CheckValueRoom(f)
      /\ \A i \in 1 .. 7 + 1 : Start(f, i) \in DoubleWord /\ Start(f, i) > 0
  BY <1>2, Starts
<1>6. /\ Len(order) >= 5
      /\ order[1] = 1 /\ order[2] = 3 /\ order[3] = 5 /\ order[4] = 6 /\ order[5] = 7
      /\ f.version = 3 => Len(order) = 8 /\ order[6] = 2 /\ order[7] = 4 /\ order[8] = 8
  <2>1. CASE f.version = 2
    <3>1. order = <<1, 3, 5, 6, 7>>
      BY <1>1, <2>1 DEF Pointers
    <3> QED BY <2>1, <3>1
  <2>2. CASE f.version = 3
    <3>1. order = <<1, 3, 5, 6, 7, 2, 4, 8>>
      BY <1>1, <2>2 DEF Pointers
    <3> QED BY <2>2, <3>1
  <2> QED BY <1>1, <2>1, <2>2 DEF Supplement
<1>7. Len(order) \in Nat
  BY PointersOf
<1> HIDE DEF order
<1>8. /\ Pointer(words, 2 + 2 * 1) = PointerTo(f, 1) /\ Pointer(words, 2 + 2 * 2) = PointerTo(f, 3)
      /\ Pointer(words, 2 + 2 * 3) = PointerTo(f, 5) /\ Pointer(words, 2 + 2 * 4) = PointerTo(f, 6)
      /\ Pointer(words, 2 + 2 * 5) = PointerTo(f, 7)
      /\ f.version = 3 =>
           /\ Pointer(words, 2 + 2 * 6) = PointerTo(f, 2)
           /\ Pointer(words, 2 + 2 * 7) = PointerTo(f, 4)
           /\ Pointer(words, 2 + 2 * 8) = PointerTo(f, 8)
  <2>1. \A k \in 1 .. 5 : Pointer(words, 2 + 2 * k) = PointerTo(f, order[k])
    BY <1>4, <1>6, <1>7
  <2>2. f.version = 3 => \A k \in 1 .. 8 : Pointer(words, 2 + 2 * k) = PointerTo(f, order[k])
    BY <1>4, <1>6, <1>7
  <2> QED BY <1>6, <2>1, <2>2
<1>9. /\ 2 + 2 * 1 = 4 /\ 2 + 2 * 2 = 6 /\ 2 + 2 * 3 = 8 /\ 2 + 2 * 4 = 10 /\ 2 + 2 * 5 = 12
      /\ 2 + 2 * 6 = 14 /\ 2 + 2 * 7 = 16 /\ 2 + 2 * 8 = 18
  OBVIOUS
<1>10. f.version = 3 => PointerTo(f, 8) = Start(f, 8)
  <2>1. f.version = 3 => CheckValueRoom(f) # <<>>
    BY <1>1, Room DEF HasCheckValue
  <2> QED BY <1>3, <1>5, <2>1 DEF PointerTo
<1>11. \A i \in 1 .. 7 : PointerTo(f, i) = IF Sections(f)[i] = <<>> THEN 0 ELSE Start(f, i)
  BY <1>5 DEF PointerTo
<1>12. f.version = 3 => words[4] = f.flags
  BY <1>1, <1>4 DEF Spare
<1>13. \A i \in 1 .. 7 : Start(f, i) > 0
  <2>1. \A i \in 1 .. 7 : i \in 1 .. 7 + 1
    OBVIOUS
  <2> QED BY <1>5, <2>1
<1>14. Start(f, 8) \in DoubleWord /\ Start(f, 8) > 0
  BY <1>3, <1>5
<1>15. /\ Stands(words, Start(f, 8), CheckWords(f), Len(words) - CrcWords(f.kind))
       /\ Read(words, 0, Start(f, 8)) = Lead(f)
  BY <1>3, <1>4
<1>16. /\ Pointer(words, 4) = PointerTo(f, 1) /\ Pointer(words, 6) = PointerTo(f, 3)
       /\ Pointer(words, 8) = PointerTo(f, 5) /\ Pointer(words, 10) = PointerTo(f, 6)
       /\ Pointer(words, 12) = PointerTo(f, 7)
       /\ f.version = 3 =>
            /\ Pointer(words, 14) = PointerTo(f, 2) /\ Pointer(words, 16) = PointerTo(f, 4)
            /\ Pointer(words, 18) = Start(f, 8)
  BY <1>8, <1>9, <1>10
<1> QED BY <1>4, <1>11, <1>12, <1>13, <1>14, <1>15, <1>16

-----------------------------------------------------------------------------
(* The parts of load headers.                                              *)

(* What is read of the optional parts of a load header.                    *)
TypeRead(words, former) ==
  Optional(Pointer(words, 14), DecodedLoadType(words, Pointer(words, 14)), former)
PositionsRead(words, former) ==
  Optional(Pointer(words, 16),
           DecodedMany([p \in Places(words) |-> DecodedPositions(words, p)],
                       words, Pointer(words, 16)),
           former)

LEMMA LoadHeaderOptionalParts ==
  ASSUME NEW f \in LoadHeader, f \in Contents, EncodableFile(f), CountersFit(f),
         NEW tail \in Tails(f.kind), NEW words, words = Whole(f, tail), f.version = 3,
         NEW former
  PROVE  /\ TypeRead(words, former).ok
         /\ TypeRead(words, former).value = IF f.type = <<>> THEN former ELSE f.type
         /\ PositionsRead(words, former).ok
         /\ PositionsRead(words, former).value =
              IF f.positions = <<>> THEN former ELSE f.positions
<1>1. /\ f.type \in {<<>>} \cup [1 .. 1 -> LoadType] /\ f.positions \in Seq(HardwarePositions)
      /\ f.kind = "loadHeader"
  BY DEF LoadHeader
<1>2. LoadHeaderFits(f) /\ CountFits(f.positions)
  BY <1>1 DEF EncodableFile, CountersFit
<1>3. /\ Sections(f)[2] = IF f.type = <<>> THEN <<>> ELSE EncodedLoadType(f.type[1])
      /\ Sections(f)[4] = PositionsSection(f.positions)
  BY <1>2, LoadHeaderSectionsWords DEF From3
<1>4. /\ Pointer(words, 14) = IF Sections(f)[2] = <<>> THEN 0 ELSE Start(f, 2)
      /\ Pointer(words, 16) = IF Sections(f)[4] = <<>> THEN 0 ELSE Start(f, 4)
      /\ \E b : Stands(words, Start(f, 2), Sections(f)[2], b)
      /\ \E b : Stands(words, Start(f, 4), Sections(f)[4], b)
      /\ Start(f, 2) > 0 /\ Start(f, 4) > 0
  BY LoadHeaderParts
<1> DEFINE at == Pointer(words, 14)
           typeRead == Optional(at, DecodedLoadType(words, at), former)
<1>5. typeRead.ok /\ typeRead.value = IF f.type = <<>> THEN former ELSE f.type
  <2>1. CASE f.type = <<>>
    <3>1. at = 0
      BY <1>3, <1>4, <2>1
    <3> HIDE DEF at
    <3>2. typeRead = Got(former, 0)
      BY <3>1 DEF Optional
    <3> HIDE DEF typeRead
    <3> QED BY <2>1, <3>2, GotFields
  <2>2. CASE f.type # <<>>
    <3> DEFINE t == f.type[1]
    <3>1. t \in LoadType /\ StringFits(t.description) /\ f.type = <<t>>
      BY <1>1, <1>2, <2>2 DEF LoadHeaderFits
    <3>2. Sections(f)[2] = EncodedLoadType(t)
      BY <1>3, <2>2
    <3> HIDE DEF t
    <3>3. EncodedLoadType(t) # <<>>
      <4>1. /\ EncodedString(t.description) \in Seq(Word) /\ t.description \in Text
            /\ t.number \in Word
            /\ EncodedString(t.description) # <<>>
        BY <3>1, FieldWords, Nonempty DEF LoadType
      <4> DEFINE s == EncodedString(t.description)
                 n == <<t.number>>
      <4>2. s \in Seq(Word) /\ n \in Seq(Word) /\ Len(n) = 1 /\ EncodedLoadType(t) = s \o n
        BY <4>1 DEF EncodedLoadType
      <4> HIDE DEF s, n
      <4>3. Len(s \o n) = Len(s) + Len(n)
        BY <4>2, ConcatProperties
      <4>4. Len(s) \in Nat
        BY <4>2
      <4> QED BY <4>2, <4>3, <4>4
    <3>4. at = Start(f, 2) /\ at # 0
      BY <1>4, <3>2, <3>3
    <3>5. PICK b : Stands(words, at, EncodedLoadType(t), b)
      BY <1>4, <3>2, <3>4
    <3> HIDE DEF at
    <3>6. typeRead = Got(<<t>>, b)
      BY <3>1, <3>4, <3>5, LoadTypeDecoded DEF Optional
    <3> HIDE DEF typeRead
    <3> QED BY <2>2, <3>1, <3>6, GotFields
  <2> QED BY <2>1, <2>2
<1> DEFINE place == Pointer(words, 16)
           many == DecodedMany([p \in Places(words) |-> DecodedPositions(words, p)], words, place)
           positions == Optional(place, many, former)
<1>6. positions.ok /\ positions.value = IF f.positions = <<>> THEN former ELSE f.positions
  <2>1. \A i \in DOMAIN f.positions :
          StringFits(f.positions[i].thw) /\ StringsFit(f.positions[i].positions)
    BY <1>2 DEF LoadHeaderFits
  <2>2. CASE f.positions = <<>>
    <3>1. PositionsSection(f.positions) = <<>>
      BY <1>1, <2>1, <2>2, PositionsSectionDecoded
    <3>2. place = 0
      BY <1>3, <1>4, <3>1
    <3> HIDE DEF place, many
    <3>3. positions = Got(former, 0)
      BY <3>2 DEF Optional
    <3> HIDE DEF positions
    <3> QED BY <2>2, <3>3, GotFields
  <2>3. CASE f.positions # <<>>
    <3>1. PositionsSection(f.positions) # <<>>
      BY <1>1, <1>2, <2>1, <2>3, PositionsSectionDecoded
    <3>2. place = Start(f, 4) /\ place # 0
      BY <1>3, <1>4, <3>1
    <3>3. PICK b : Stands(words, place, PositionsSection(f.positions), b)
      BY <1>3, <1>4, <3>2
    <3> HIDE DEF place
    <3>4. many = Got(f.positions, b)
      BY <1>1, <1>2, <2>1, <2>3, <3>3, PositionsSectionDecoded
    <3> HIDE DEF many
    <3>5. positions = Got(f.positions, b)
      BY <3>2, <3>4 DEF Optional
    <3> HIDE DEF positions
    <3> QED BY <2>3, <3>5, GotFields
  <2> QED BY <2>2, <2>3
<1>7. typeRead = TypeRead(words, former) /\ positions = PositionsRead(words, former)
  BY DEF TypeRead, PositionsRead
<1> HIDE DEF typeRead, positions
<1> QED BY <1>5, <1>6, <1>7

LEMMA SupportRead ==
  ASSUME NEW f \in LoadHeader, f \in Contents, EncodableFile(f),
         NEW tail \in Tails(f.kind), NEW words, words = Whole(f, tail), NEW former
  PROVE  LET support ==
               Optional(Pointer(words, 10),
                        DecodedList([p \in Places(words) |->
                                       DecodedSupportFile(f.version, words, p)],
                                    words, Pointer(words, 10)),
                        former)
         IN /\ support.ok
            /\ support.value = IF f.support = <<>> THEN former
                               ELSE [i \in DOMAIN f.support |-> ReadFile(f.version, f.support[i])]
<1> DEFINE at == Pointer(words, 10)
           list == DecodedList([p \in Places(words) |-> DecodedSupportFile(f.version, words, p)],
                               words, at)
           support == Optional(at, list, former)
           value == [i \in DOMAIN f.support |-> ReadFile(f.version, f.support[i])]
           ents == SupportFileEntries(f)
<1>1. f.support \in Seq(LoadFile) /\ f.kind = "loadHeader" /\ f.version \in Supplement
  BY DEF LoadHeader
<1>2. LoadHeaderFits(f)
  BY <1>1 DEF EncodableFile
<1>3. /\ CountFits(f.support) /\ EntriesFit(ents)
      /\ \A i \in DOMAIN f.support : NamesFit(f.support[i]) /\ f.support[i].length \in DoubleWord
  BY <1>2 DEF LoadHeaderFits
<1>4. ents \in Seq(Seq(Word)) /\ Len(ents) = Len(f.support) /\ CountFits(ents)
  BY <1>1, <1>3, SupportFilesWords
<1>5. Sections(f)[6] = ListSection(ents)
  BY <1>2, LoadHeaderSectionsWords
<1>6. /\ at = IF Sections(f)[6] = <<>> THEN 0 ELSE Start(f, 6)
      /\ \E b : Stands(words, Start(f, 6), Sections(f)[6], b)
      /\ Start(f, 6) > 0
  BY LoadHeaderParts
<1>7. ents = <<>> <=> f.support = <<>>
  <2> HIDE DEF ents
  <2> QED BY <1>1, <1>4
<1>8. CASE f.support = <<>>
  <2>1. at = 0
    BY <1>5, <1>6, <1>7, <1>8 DEF ListSection
  <2> HIDE DEF at, list
  <2>2. support = Got(former, 0)
    BY <2>1 DEF Optional
  <2> HIDE DEF support
  <2>3. support.ok /\ support.value = former
    BY <2>2, GotFields
  <2> QED BY <1>8, <2>3 DEF support, list, at
<1>9. CASE f.support # <<>>
  <2>1. Sections(f)[6] = EncodedList(ents) /\ EncodedList(ents) # <<>>
    <3>1. \A e \in Seq(Seq(Word)) : CountFits(e) => EncodedList(e) # <<>>
      BY Nonempty
    <3> QED BY <1>4, <1>5, <1>7, <1>9, <3>1 DEF ListSection
  <2>2. at = Start(f, 6) /\ at # 0
    BY <1>6, <2>1
  <2>3. PICK b : Stands(words, at, EncodedList(ents), b)
    BY <1>6, <2>1, <2>2
  <2>4. list.ok /\ list.value = value
    <3> HIDE DEF at
    <3> QED BY <1>1, <1>3, <2>3, SupportFilesDecoded
  <2> HIDE DEF at, list, value
  <2>5. support = list
    BY <2>2 DEF Optional
  <2>6. support.ok /\ support.value = value
    BY <2>4, <2>5
  <2> QED BY <1>9, <2>6 DEF support, list, at, value
<1> QED BY <1>8, <1>9

-----------------------------------------------------------------------------
(* Load headers are decoded as they were encoded.                          *)

LEMMA LoadHeaderUserRead ==
  ASSUME NEW f \in LoadHeader, f \in Contents, EncodableFile(f),
         NEW tail \in Tails(f.kind), NEW words, words = Whole(f, tail), NEW former,
         NEW checkAt, checkAt = IF f.version = 3 THEN Pointer(words, 18) ELSE 0
  PROVE  LET user == DecodedUserData(words, Pointer(words, 12), checkAt, f.kind, former)
         IN user.ok /\ user.value = IF f.user = <<>> THEN former ELSE f.user
<1> DEFINE at == Pointer(words, 12)
<1>1. f.user \in UserData /\ f.kind = "loadHeader"
  BY DEF LoadHeader
<1>2. LoadHeaderFits(f)
  BY <1>1 DEF EncodableFile
<1>3. Sections(f)[7] = Packed(f.user)
  BY <1>2, LoadHeaderSectionsWords
<1>4. /\ at = IF Sections(f)[7] = <<>> THEN 0 ELSE Start(f, 7)
      /\ Start(f, 7) > 0 /\ Start(f, 8) > 0 /\ Start(f, 8) \in DoubleWord
      /\ Stands(words, Start(f, 8), CheckWords(f), Len(words) - CrcWords(f.kind))
      /\ f.version = 3 => Pointer(words, 18) = Start(f, 8)
  <2>1. at = PointerTo(f, 7) /\ PointerTo(f, 7) = IF Sections(f)[7] = <<>> THEN 0 ELSE Start(f, 7)
    BY LoadHeaderParts
  <2> QED BY <2>1, LoadHeaderParts
<1>5. Stands(words, Start(f, 7), Packed(f.user), Start(f, 8))
  <2>1. Stands(words, Start(f, 7), Sections(f)[7], Start(f, 7 + 1)) /\ 7 + 1 = 8
    BY LoadHeaderParts
  <2> QED BY <1>3, <2>1
<1>6. checkAt # 0 => Start(f, 8) = checkAt
  BY <1>4
<1>7. checkAt = 0 => Start(f, 8) = Len(words) - CrcWords(f.kind)
  <2>1. ASSUME f.version # 3
        PROVE  Start(f, 8) = Len(words) - CrcWords(f.kind)
    <3>1. CheckWords(f) = <<>>
      BY <2>1 DEF CheckWords, HasCheckValue
    <3>2. Len(words) - CrcWords(f.kind) = Start(f, 8) + 0 /\ Start(f, 8) \in Nat
      <4>1. Len(<<>>) = 0
        OBVIOUS
      <4> QED BY <1>4, <3>1, <4>1 DEF Stands
    <3> QED BY <3>2
  <2> QED BY <1>4, <2>1
<1>8. at = IF Packed(f.user) = <<>> THEN 0 ELSE Start(f, 7)
  BY <1>3, <1>4
<1> DEFINE a == Start(f, 7)
           e == Start(f, 8)
<1> HIDE DEF at, a, e
<1>9. UserBetween(words, a, e, f.user, at, checkAt, f.kind)
  BY <1>4, <1>5, <1>6, <1>7, <1>8 DEF a, e, UserBetween
<1>10. UserFound(DecodedUserData(words, at, checkAt, f.kind, former), f.user, former)
  BY <1>1, <1>9, UserDecoded
<1> QED BY <1>10 DEF at, UserFound

(* The parts that every load header has.                                   *)
LEMMA LoadHeaderFixedParts ==
  ASSUME NEW f \in LoadHeader, f \in Contents, EncodableFile(f),
         NEW tail \in Tails(f.kind), NEW words, words = Whole(f, tail)
  PROVE  /\ DecodedString(words, Pointer(words, 4)).ok
         /\ DecodedString(words, Pointer(words, 4)).value = f.part
         /\ DecodedStrings(words, Pointer(words, 6)).ok
         /\ DecodedStrings(words, Pointer(words, 6)).value = f.thw
         /\ LET data == DecodedList([p \in Places(words) |-> DecodedDataFile(f.version, words, p)],
                                    words, Pointer(words, 8))
            IN /\ data.ok
               /\ data.value = [i \in DOMAIN f.data |-> ReadDataFile(f.version, f.data[i])]
         /\ f.version = 3 =>
              LET check == Optional(Pointer(words, 18),
                                    DecodedCheckValue(words, Pointer(words, 18)),
                                    NoCheckValue)
              IN check.ok /\ check.value.type = f.check
<1>1. /\ f.kind = "loadHeader" /\ f.part \in Text /\ f.thw \in Seq(Text) /\ f.data \in Seq(LoadFile)
      /\ f.version \in Supplement
  BY DEF LoadHeader
<1>2. LoadHeaderFits(f)
  BY <1>1 DEF EncodableFile
<1>3. /\ Sections(f)[1] = EncodedString(f.part) /\ Sections(f)[3] = EncodedStrings(f.thw)
      /\ Sections(f)[5] = EncodedList(DataFileEntries(f))
  BY <1>2, LoadHeaderSectionsWords
<1>4. Sections(f)[1] # <<>> /\ Sections(f)[3] # <<>> /\ Sections(f)[5] # <<>>
  <2>1. DataFileEntries(f) \in Seq(Seq(Word)) /\ CountFits(DataFileEntries(f))
    BY <1>1, <1>2, DataFilesWords DEF LoadHeaderFits
  <2>2. StringFits(f.part) /\ StringsFit(f.thw)
    BY <1>2 DEF LoadHeaderFits
  <2>3. EncodedString(f.part) # <<>>
    BY <1>1, <2>2, Nonempty
  <2>4. EncodedStrings(f.thw) # <<>>
    BY <1>1, <2>2, Nonempty
  <2>5. EncodedList(DataFileEntries(f)) # <<>>
    BY <2>1, Nonempty
  <2> QED BY <1>3, <2>3, <2>4, <2>5
<1>5. /\ Pointer(words, 4) = Start(f, 1) /\ Pointer(words, 6) = Start(f, 3)
      /\ Pointer(words, 8) = Start(f, 5)
  <2>1. /\ PointerTo(f, 1) = IF Sections(f)[1] = <<>> THEN 0 ELSE Start(f, 1)
        /\ PointerTo(f, 3) = IF Sections(f)[3] = <<>> THEN 0 ELSE Start(f, 3)
        /\ PointerTo(f, 5) = IF Sections(f)[5] = <<>> THEN 0 ELSE Start(f, 5)
        /\ Pointer(words, 4) = PointerTo(f, 1) /\ Pointer(words, 6) = PointerTo(f, 3)
        /\ Pointer(words, 8) = PointerTo(f, 5)
    BY LoadHeaderParts
  <2> QED BY <1>4, <2>1
<1>6. /\ \E b : Stands(words, Start(f, 1), Sections(f)[1], b)
      /\ \E b : Stands(words, Start(f, 3), Sections(f)[3], b)
      /\ \E b : Stands(words, Start(f, 5), Sections(f)[5], b)
  BY LoadHeaderParts
<1>7. DecodedString(words, Pointer(words, 4)).ok
      /\ DecodedString(words, Pointer(words, 4)).value = f.part
  <2>1. PICK b : Stands(words, Pointer(words, 4), EncodedString(f.part), b)
    BY <1>3, <1>5, <1>6
  <2>2. DecodedString(words, Pointer(words, 4)) = Got(f.part, b)
    BY <1>1, <1>2, <2>1, StringStands DEF LoadHeaderFits
  <2> QED BY <2>2, GotFields
<1>8. DecodedStrings(words, Pointer(words, 6)).ok
      /\ DecodedStrings(words, Pointer(words, 6)).value = f.thw
  <2>1. PICK b : Stands(words, Pointer(words, 6), EncodedStrings(f.thw), b)
    BY <1>3, <1>5, <1>6
  <2>2. DecodedStrings(words, Pointer(words, 6)) = Got(f.thw, b)
    BY <1>1, <1>2, <2>1, StringsStand DEF LoadHeaderFits
  <2> QED BY <2>2, GotFields
<1> DEFINE data == DecodedList([p \in Places(words) |-> DecodedDataFile(f.version, words, p)],
                               words, Pointer(words, 8))
<1>9. /\ data.ok
      /\ data.value = [i \in DOMAIN f.data |-> ReadDataFile(f.version, f.data[i])]
  <2>1. PICK b : Stands(words, Pointer(words, 8), EncodedList(DataFileEntries(f)), b)
    BY <1>3, <1>5, <1>6
  <2>2. /\ CountFits(f.data) /\ EntriesFit(DataFileEntries(f))
        /\ \A i \in DOMAIN f.data :
             NamesFit(f.data[i]) /\ (f.data[i].length + 1) \div 2 \in DoubleWord
    BY <1>2 DEF LoadHeaderFits
  <2> QED BY <1>1, <2>1, <2>2, DataFilesDecoded
<1> DEFINE at == Pointer(words, 18)
           check == Optional(at, DecodedCheckValue(words, at), NoCheckValue)
<1>10. ASSUME f.version = 3
       PROVE  check.ok /\ check.value.type = f.check
  <2> DEFINE c == CheckValueOf(f.check, Lead(f))
  <2>1. HasCheckValue(f.kind, f.version)
    BY <1>1, <1>10 DEF HasCheckValue
  <2>2. /\ Stands(words, at, CheckWords(f), Len(words) - CrcWords(f.kind)) /\ at # 0
    <3>1. at = Start(f, 8) /\ Start(f, 8) > 0 /\ Start(f, 8) \in DoubleWord
      BY <1>10, LoadHeaderParts
    <3>2. Stands(words, Start(f, 8), CheckWords(f), Len(words) - CrcWords(f.kind))
      BY LoadHeaderParts
    <3> QED BY <3>1, <3>2
  <2>3. /\ DecodedCheckValue(words, at) = Got(c, Len(words) - CrcWords(f.kind))
        /\ c.type = f.check
    BY <2>1, <2>2, WholeCheckDecoded
  <2> HIDE DEF at, c
  <2>4. check = Got(c, Len(words) - CrcWords(f.kind))
    BY <2>2, <2>3 DEF Optional
  <2> HIDE DEF check
  <2> QED BY <2>3, <2>4, GotFields
<1> QED BY <1>7, <1>8, <1>9, <1>10

(* A load header with the members that are read.                           *)
Filled(o, version, flags, part, type, thw, positions, data, support, user, check) ==
  [o EXCEPT !.version = version, !.flags = flags, !.part = part, !.type = type, !.thw = thw,
            !.positions = positions, !.data = data, !.support = support, !.user = user,
            !.check = check]

(* A load header with what is read of the file of f.                       *)
ReadLoadHeader(o, f) ==
  [o EXCEPT !.version = f.version,
            !.flags = IF f.version = 3 THEN f.flags ELSE o.flags,
            !.part = f.part,
            !.type = IF f.version = 3 /\ f.type # <<>> THEN f.type ELSE o.type,
            !.thw = f.thw,
            !.positions = IF f.version = 3 /\ f.positions # <<>> THEN f.positions ELSE o.positions,
            !.data = [i \in DOMAIN f.data |-> ReadDataFile(f.version, f.data[i])],
            !.support = IF f.support = <<>> THEN o.support
                        ELSE [i \in DOMAIN f.support |-> ReadFile(f.version, f.support[i])],
            !.user = IF f.user = <<>> THEN o.user ELSE f.user,
            !.check = IF f.version = 3 THEN f.check ELSE NotUsed]

LEMMA LoadHeaderDecoded ==
  ASSUME NEW f \in LoadHeader, f \in Contents, EncodableFile(f), CountersFit(f),
         NEW tail \in Tails(f.kind), NEW words, words = Whole(f, tail), NEW o, o.kind = f.kind
  PROVE  DecodedLoadHeader(o, words, f.version) = Got(ReadLoadHeader(o, f), 0)
<1> DEFINE v == f.version
           typeAt == IF v = 3 THEN Pointer(words, 14) ELSE 0
           positionsAt == IF v = 3 THEN Pointer(words, 16) ELSE 0
           checkAt == IF v = 3 THEN Pointer(words, 18) ELSE 0
           part == DecodedString(words, Pointer(words, 4))
           type == Optional(typeAt, DecodedLoadType(words, typeAt), o.type)
           thw == DecodedStrings(words, Pointer(words, 6))
           positions ==
             Optional(positionsAt,
                      DecodedMany([p \in Places(words) |-> DecodedPositions(words, p)],
                                  words, positionsAt),
                      o.positions)
           data == DecodedList([p \in Places(words) |-> DecodedDataFile(v, words, p)],
                               words, Pointer(words, 8))
           support == Optional(Pointer(words, 10),
                               DecodedList([p \in Places(words) |->
                                              DecodedSupportFile(v, words, p)],
                                           words, Pointer(words, 10)),
                               o.support)
           user == DecodedUserData(words, Pointer(words, 12), checkAt, o.kind, o.user)
           check == Optional(checkAt, DecodedCheckValue(words, checkAt), NoCheckValue)
<1>1. part.ok /\ part.value = f.part /\ thw.ok /\ thw.value = f.thw
  BY LoadHeaderFixedParts
<1>2. data.ok /\ data.value = [i \in DOMAIN f.data |-> ReadDataFile(v, f.data[i])]
  BY LoadHeaderFixedParts
<1>3. /\ support.ok
      /\ support.value = IF f.support = <<>> THEN o.support
                         ELSE [i \in DOMAIN f.support |-> ReadFile(v, f.support[i])]
  BY SupportRead
<1>4. user.ok /\ user.value = IF f.user = <<>> THEN o.user ELSE f.user
  <2> DEFINE read == DecodedUserData(words, Pointer(words, 12), checkAt, f.kind, o.user)
  <2>1. read.ok /\ read.value = IF f.user = <<>> THEN o.user ELSE f.user
    BY LoadHeaderUserRead
  <2>2. user = read
    OBVIOUS
  <2> HIDE DEF user, read
  <2> QED BY <2>1, <2>2
<1>5. /\ type.ok
      /\ type.value = IF v = 3 /\ f.type # <<>> THEN f.type ELSE o.type
  <2>1. CASE v = 3
    <3>1. /\ TypeRead(words, o.type).ok
          /\ TypeRead(words, o.type).value = IF f.type = <<>> THEN o.type ELSE f.type
      BY <2>1, LoadHeaderOptionalParts
    <3>2. type = TypeRead(words, o.type)
      BY <2>1 DEF TypeRead
    <3> HIDE DEF type
    <3> QED BY <2>1, <3>1, <3>2
  <2>2. CASE v # 3
    <3>1. type = Got(o.type, 0)
      BY <2>2 DEF Optional
    <3> HIDE DEF type
    <3> QED BY <2>2, <3>1, GotFields
  <2> QED BY <2>1, <2>2
<1>6. /\ positions.ok
      /\ positions.value = IF v = 3 /\ f.positions # <<>> THEN f.positions ELSE o.positions
  <2>1. CASE v = 3
    <3>1. /\ PositionsRead(words, o.positions).ok
          /\ PositionsRead(words, o.positions).value =
               IF f.positions = <<>> THEN o.positions ELSE f.positions
      BY <2>1, LoadHeaderOptionalParts
    <3>2. positionsAt = Pointer(words, 16)
      BY <2>1
    <3>3. positions = PositionsRead(words, o.positions)
      <4> HIDE DEF positionsAt
      <4> QED BY <3>2 DEF PositionsRead
    <3> HIDE DEF positions
    <3> QED BY <2>1, <3>1, <3>3
  <2>2. CASE v # 3
    <3>1. positions = Got(o.positions, 0)
      BY <2>2 DEF Optional
    <3> HIDE DEF positions
    <3> QED BY <2>2, <3>1, GotFields
  <2> QED BY <2>1, <2>2
<1>7. check.ok /\ check.value.type = IF v = 3 THEN f.check ELSE NotUsed
  <2>1. CASE v = 3
    <3> DEFINE at == Pointer(words, 18)
               read == Optional(at, DecodedCheckValue(words, at), NoCheckValue)
    <3>1. read.ok /\ read.value.type = f.check
      BY <2>1, LoadHeaderFixedParts
    <3>2. checkAt = at
      BY <2>1
    <3> HIDE DEF checkAt, at
    <3>3. check = read
      BY <3>2
    <3> HIDE DEF check, read
    <3> QED BY <2>1, <3>1, <3>3
  <2>2. CASE v # 3
    <3>1. check = Got(NoCheckValue, 0)
      BY <2>2 DEF Optional
    <3>2. check.ok /\ check.value = NoCheckValue
      BY <3>1, GotFields
    <3> HIDE DEF check
    <3> QED BY <2>2, <3>2 DEF NoCheckValue
  <2> QED BY <2>1, <2>2
<1>8. v = 3 => words[4] = f.flags
  BY LoadHeaderParts
<1>9. DecodedLoadHeader(o, words, v) =
        IF /\ part.ok /\ type.ok /\ thw.ok /\ positions.ok /\ data.ok /\ support.ok /\ user.ok
           /\ check.ok
        THEN Got([o EXCEPT !.version = v, !.flags = IF v = 3 THEN words[4] ELSE @,
                           !.part = part.value, !.type = type.value, !.thw = thw.value,
                           !.positions = positions.value, !.data = data.value,
                           !.support = support.value, !.user = user.value,
                           !.check = check.value.type], 0)
        ELSE Failed
  BY DEF DecodedLoadHeader
<1> HIDE DEF part, type, thw, positions, data, support, user, check, typeAt, positionsAt, checkAt
<1>10. /\ part.ok /\ type.ok /\ thw.ok /\ positions.ok /\ data.ok /\ support.ok /\ user.ok
       /\ check.ok
  BY <1>1, <1>2, <1>3, <1>4, <1>5, <1>6, <1>7
<1>11. (IF v = 3 THEN words[4] ELSE o.flags) = IF v = 3 THEN f.flags ELSE o.flags
  BY <1>8
<1>12. DecodedLoadHeader(o, words, v) =
         Got(Filled(o, v, IF v = 3 THEN words[4] ELSE o.flags, part.value, type.value, thw.value,
                    positions.value, data.value, support.value, user.value, check.value.type), 0)
  BY <1>9, <1>10 DEF Filled
<1>13. DecodedLoadHeader(o, words, v) =
         Got(Filled(o, v, IF v = 3 THEN f.flags ELSE o.flags, f.part,
                    IF v = 3 /\ f.type # <<>> THEN f.type ELSE o.type, f.thw,
                    IF v = 3 /\ f.positions # <<>> THEN f.positions ELSE o.positions,
                    [i \in DOMAIN f.data |-> ReadDataFile(v, f.data[i])],
                    IF f.support = <<>> THEN o.support
                    ELSE [i \in DOMAIN f.support |-> ReadFile(v, f.support[i])],
                    IF f.user = <<>> THEN o.user ELSE f.user,
                    IF v = 3 THEN f.check ELSE NotUsed), 0)
  BY <1>1, <1>2, <1>3, <1>4, <1>5, <1>6, <1>7, <1>11, <1>12
<1> QED BY <1>13 DEF ReadLoadHeader, Filled

-----------------------------------------------------------------------------
(* What an object is after a file was decoded into it.                     *)

(* What an object o holds after the file of f was decoded into it.         *)
MergedLoadHeader(o, f) ==
  [kind |-> f.kind, version |-> f.version,
   flags |-> IF f.version = 3 THEN f.flags ELSE o.flags,
   part |-> f.part,
   type |-> IF f.version = 3 THEN f.type ELSE <<>>,
   thw |-> f.thw,
   positions |-> IF f.version = 3 THEN f.positions ELSE <<>>,
   data |-> [i \in DOMAIN f.data |-> ReadDataFile(f.version, f.data[i])],
   support |-> IF f.support = <<>> THEN o.support
               ELSE [i \in DOMAIN f.support |-> ReadFile(f.version, f.support[i])],
   user |-> f.user,
   check |-> IF f.version = 3 THEN f.check ELSE NotUsed]
MergedUser(o, f) == IF f.user = <<>> THEN o.user ELSE f.user
MergedFileList(o, f) ==
  [kind |-> f.kind, version |-> f.version, part |-> f.part, media |-> f.media,
   files |-> [i \in DOMAIN f.files |-> ReadFile(f.version, f.files[i])],
   user |-> MergedUser(o, f), check |-> IF f.version = 3 THEN f.check ELSE NotUsed]
MergedLoadList(o, f) ==
  [kind |-> f.kind, version |-> f.version, part |-> f.part, media |-> f.media,
   loads |-> o.loads \o f.loads, user |-> MergedUser(o, f)]
MergedBatchList(o, f) ==
  [kind |-> f.kind, version |-> f.version, part |-> f.part, media |-> f.media,
   batches |-> f.batches, user |-> MergedUser(o, f)]
MergedBatchFile(o, f) ==
  [kind |-> f.kind, version |-> f.version, part |-> f.part, comment |-> f.comment,
   targets |-> f.targets]
Merged(o, f) ==
  CASE f.kind = "loadHeader" -> MergedLoadHeader(o, f)
    [] f.kind = "fileList" -> MergedFileList(o, f)
    [] f.kind = "loadList" -> MergedLoadList(o, f)
    [] f.kind = "batchList" -> MergedBatchList(o, f)
    [] f.kind = "batchFile" -> MergedBatchFile(o, f)

LEMMA ObjectKinds ==
  ASSUME NEW f \in Contents, NEW o \in Contents, o.kind = f.kind
  PROVE  /\ f \in LoadHeader => o \in LoadHeader
         /\ f \in FileList => o \in FileList
         /\ f \in LoadList => o \in LoadList
         /\ f \in BatchList => o \in BatchList
         /\ f \in BatchFile => o \in BatchFile
BY DEF Contents, LoadHeader, FileList, LoadList, BatchList, BatchFile

(* Decoding a whole file makes of the object what Merged says.             *)
LEMMA MergedIsDecoded ==
  ASSUME NEW f \in Contents, EncodableFile(f), CountersFit(f),
         NEW tail \in Tails(f.kind), NEW o \in Contents, o.kind = f.kind
  PROVE  DecodedFile(o, Whole(f, tail)) = Got(Merged(o, f), 0)
<1> DEFINE words == Whole(f, tail)
           r == Reset(o)
<1>1. DecodedFile(o, words) = DecodedBody(r, words, f.version)
  BY Opened
<1>2. CASE f \in LoadList /\ f.kind = "loadList"
  <2>1. o \in LoadList /\ r = o
    BY <1>2, ObjectKinds DEF Reset
  <2>2. DecodedFile(o, words) = DecodedLoadList(o, words, f.version)
    BY <1>1, <1>2, <2>1 DEF DecodedBody
  <2>3. o = [kind |-> o.kind, version |-> o.version, part |-> o.part, media |-> o.media,
             loads |-> o.loads, user |-> o.user]
    BY <2>1 DEF LoadList
  <2> DEFINE user == IF f.user = <<>> THEN o.user ELSE f.user
             loads == o.loads \o f.loads
  <2>4. DecodedFile(o, words) =
          Got([o EXCEPT !.version = f.version, !.part = f.part, !.media = f.media,
                        !.loads = loads, !.user = user], 0)
    BY <1>2, <2>2, LoadListDecoded
  <2>5. Merged(o, f) = [kind |-> f.kind, version |-> f.version, part |-> f.part,
                        media |-> f.media, loads |-> loads, user |-> user]
    BY <1>2 DEF Merged, MergedLoadList, MergedUser
  <2> HIDE DEF user, loads
  <2>6. [o EXCEPT !.version = f.version, !.part = f.part, !.media = f.media,
                  !.loads = loads, !.user = user] =
          [kind |-> f.kind, version |-> f.version, part |-> f.part, media |-> f.media,
           loads |-> loads, user |-> user]
    <3>0. o.kind = f.kind
      OBVIOUS
    <3> DEFINE o1 == [o EXCEPT !.version = f.version]
               o2 == [o1 EXCEPT !.part = f.part]
               o3 == [o2 EXCEPT !.media = f.media]
               o4 == [o3 EXCEPT !.loads = loads]
               o5 == [o4 EXCEPT !.user = user]
    <3>1. [o EXCEPT !.version = f.version, !.part = f.part, !.media = f.media,
                    !.loads = loads, !.user = user] = o5
      OBVIOUS
    <3>2. o1 =
             [kind |-> f.kind, version |-> f.version, part |-> o.part, media |-> o.media,
              loads |-> o.loads, user |-> o.user]
      BY <2>3, <3>0
    <3> HIDE DEF o1
    <3>3. o2 =
             [kind |-> f.kind, version |-> f.version, part |-> f.part, media |-> o.media,
              loads |-> o.loads, user |-> o.user]
      BY <3>2
    <3> HIDE DEF o2
    <3>4. o3 =
             [kind |-> f.kind, version |-> f.version, part |-> f.part, media |-> f.media,
              loads |-> o.loads, user |-> o.user]
      BY <3>3
    <3> HIDE DEF o3
    <3>5. o4 =
             [kind |-> f.kind, version |-> f.version, part |-> f.part, media |-> f.media,
              loads |-> loads, user |-> o.user]
      BY <3>4
    <3> HIDE DEF o4
    <3>6. o5 =
             [kind |-> f.kind, version |-> f.version, part |-> f.part, media |-> f.media,
              loads |-> loads, user |-> user]
      BY <3>5
    <3> HIDE DEF o5
    <3> QED BY <3>1, <3>6
  <2> QED BY <2>4, <2>5, <2>6
<1>3. CASE f \in BatchList /\ f.kind = "batchList"
  <2>1. o \in BatchList /\ r = o
    BY <1>3, ObjectKinds DEF Reset
  <2>2. DecodedFile(o, words) = DecodedBatchList(o, words, f.version)
    BY <1>1, <1>3, <2>1 DEF DecodedBody
  <2>3. o = [kind |-> o.kind, version |-> o.version, part |-> o.part, media |-> o.media,
             batches |-> o.batches, user |-> o.user]
    BY <2>1 DEF BatchList
  <2> DEFINE user == IF f.user = <<>> THEN o.user ELSE f.user
  <2>4. DecodedFile(o, words) =
          Got([o EXCEPT !.version = f.version, !.part = f.part, !.media = f.media,
                        !.batches = f.batches, !.user = user], 0)
    BY <1>3, <2>2, BatchListDecoded
  <2>5. Merged(o, f) = [kind |-> f.kind, version |-> f.version, part |-> f.part,
                        media |-> f.media, batches |-> f.batches, user |-> user]
    BY <1>3 DEF Merged, MergedBatchList, MergedUser
  <2> HIDE DEF user
  <2>6. [o EXCEPT !.version = f.version, !.part = f.part, !.media = f.media,
                  !.batches = f.batches, !.user = user] =
          [kind |-> f.kind, version |-> f.version, part |-> f.part, media |-> f.media,
           batches |-> f.batches, user |-> user]
    <3>0. o.kind = f.kind
      OBVIOUS
    <3> DEFINE o1 == [o EXCEPT !.version = f.version]
               o2 == [o1 EXCEPT !.part = f.part]
               o3 == [o2 EXCEPT !.media = f.media]
               o4 == [o3 EXCEPT !.batches = f.batches]
               o5 == [o4 EXCEPT !.user = user]
    <3>1. [o EXCEPT !.version = f.version, !.part = f.part, !.media = f.media,
                    !.batches = f.batches, !.user = user] = o5
      OBVIOUS
    <3>2. o1 =
             [kind |-> f.kind, version |-> f.version, part |-> o.part, media |-> o.media,
              batches |-> o.batches, user |-> o.user]
      BY <2>3, <3>0
    <3> HIDE DEF o1
    <3>3. o2 =
             [kind |-> f.kind, version |-> f.version, part |-> f.part, media |-> o.media,
              batches |-> o.batches, user |-> o.user]
      BY <3>2
    <3> HIDE DEF o2
    <3>4. o3 =
             [kind |-> f.kind, version |-> f.version, part |-> f.part, media |-> f.media,
              batches |-> o.batches, user |-> o.user]
      BY <3>3
    <3> HIDE DEF o3
    <3>5. o4 =
             [kind |-> f.kind, version |-> f.version, part |-> f.part, media |-> f.media,
              batches |-> f.batches, user |-> o.user]
      BY <3>4
    <3> HIDE DEF o4
    <3>6. o5 =
             [kind |-> f.kind, version |-> f.version, part |-> f.part, media |-> f.media,
              batches |-> f.batches, user |-> user]
      BY <3>5
    <3> HIDE DEF o5
    <3> QED BY <3>1, <3>6
  <2> QED BY <2>4, <2>5, <2>6
<1>4. CASE f \in BatchFile /\ f.kind = "batchFile"
  <2>1. o \in BatchFile /\ r = o
    BY <1>4, ObjectKinds DEF Reset
  <2>2. DecodedFile(o, words) = DecodedBatchFile(o, words, f.version)
    BY <1>1, <1>4, <2>1 DEF DecodedBody
  <2>3. o = [kind |-> o.kind, version |-> o.version, part |-> o.part, comment |-> o.comment,
             targets |-> o.targets]
    BY <2>1 DEF BatchFile
  <2>4. DecodedFile(o, words) =
          Got([o EXCEPT !.version = f.version, !.part = f.part, !.comment = f.comment,
                        !.targets = f.targets], 0)
    BY <1>4, <2>2, BatchFileDecoded
  <2>5. Merged(o, f) = [kind |-> f.kind, version |-> f.version, part |-> f.part,
                        comment |-> f.comment, targets |-> f.targets]
    BY <1>4 DEF Merged, MergedBatchFile
  <2>6. [o EXCEPT !.version = f.version, !.part = f.part, !.comment = f.comment,
                  !.targets = f.targets] =
          [kind |-> f.kind, version |-> f.version, part |-> f.part, comment |-> f.comment,
           targets |-> f.targets]
    <3>0. o.kind = f.kind
      OBVIOUS
    <3> DEFINE o1 == [o EXCEPT !.version = f.version]
               o2 == [o1 EXCEPT !.part = f.part]
               o3 == [o2 EXCEPT !.comment = f.comment]
               o4 == [o3 EXCEPT !.targets = f.targets]
    <3>1. [o EXCEPT !.version = f.version, !.part = f.part, !.comment = f.comment,
                    !.targets = f.targets] = o4
      OBVIOUS
    <3>2. o1 =
             [kind |-> f.kind, version |-> f.version, part |-> o.part, comment |-> o.comment,
              targets |-> o.targets]
      BY <2>3, <3>0
    <3> HIDE DEF o1
    <3>3. o2 =
             [kind |-> f.kind, version |-> f.version, part |-> f.part, comment |-> o.comment,
              targets |-> o.targets]
      BY <3>2
    <3> HIDE DEF o2
    <3>4. o3 =
             [kind |-> f.kind, version |-> f.version, part |-> f.part, comment |-> f.comment,
              targets |-> o.targets]
      BY <3>3
    <3> HIDE DEF o3
    <3>5. o4 =
             [kind |-> f.kind, version |-> f.version, part |-> f.part, comment |-> f.comment,
              targets |-> f.targets]
      BY <3>4
    <3> HIDE DEF o4
    <3> QED BY <3>1, <3>5
  <2> QED BY <2>4, <2>5, <2>6
<1>5. CASE f \in FileList /\ f.kind = "fileList"
  <2>1. o \in FileList /\ r = [o EXCEPT !.check = NotUsed]
    BY <1>5, ObjectKinds DEF Reset
  <2>2. o = [kind |-> o.kind, version |-> o.version, part |-> o.part, media |-> o.media,
             files |-> o.files, user |-> o.user, check |-> o.check]
    BY <2>1 DEF FileList
  <2>3. r.kind = f.kind /\ r.user = o.user
        /\ r = [kind |-> f.kind, version |-> o.version, part |-> o.part, media |-> o.media,
                files |-> o.files, user |-> o.user, check |-> NotUsed]
    <3> HIDE DEF r
    <3> QED BY <2>1, <2>2
  <2> HIDE DEF r
  <2>4. DecodedFile(o, words) = DecodedFileList(r, words, f.version)
    BY <1>1, <1>5, <2>3 DEF DecodedBody
  <2> DEFINE user == IF f.user = <<>> THEN r.user ELSE f.user
             files == [i \in DOMAIN f.files |-> ReadFile(f.version, f.files[i])]
             check == IF f.version = 3 THEN f.check ELSE NotUsed
  <2>5. DecodedFile(o, words) =
          Got([r EXCEPT !.version = f.version, !.part = f.part, !.media = f.media,
                        !.files = files, !.user = user, !.check = check], 0)
    <3>1. r.kind = f.kind
      BY <2>3
    <3> QED BY <1>5, <2>4, <3>1, FileListDecoded
  <2>6. Merged(o, f) = [kind |-> f.kind, version |-> f.version, part |-> f.part,
                        media |-> f.media, files |-> files, user |-> user, check |-> check]
    BY <1>5, <2>3 DEF Merged, MergedFileList, MergedUser
  <2> HIDE DEF user, files, check
  <2>7. [r EXCEPT !.version = f.version, !.part = f.part, !.media = f.media,
                  !.files = files, !.user = user, !.check = check] =
          [kind |-> f.kind, version |-> f.version, part |-> f.part, media |-> f.media,
           files |-> files, user |-> user, check |-> check]
    <3>0. o.kind = f.kind
      OBVIOUS
    <3> DEFINE o1 == [r EXCEPT !.version = f.version]
               o2 == [o1 EXCEPT !.part = f.part]
               o3 == [o2 EXCEPT !.media = f.media]
               o4 == [o3 EXCEPT !.files = files]
               o5 == [o4 EXCEPT !.user = user]
               o6 == [o5 EXCEPT !.check = check]
    <3>1. [r EXCEPT !.version = f.version, !.part = f.part, !.media = f.media,
                    !.files = files, !.user = user, !.check = check] = o6
      OBVIOUS
    <3>2. o1 =
             [kind |-> f.kind, version |-> f.version, part |-> o.part, media |-> o.media,
              files |-> o.files, user |-> o.user, check |-> NotUsed]
      BY <2>3, <3>0
    <3> HIDE DEF o1
    <3>3. o2 =
             [kind |-> f.kind, version |-> f.version, part |-> f.part, media |-> o.media,
              files |-> o.files, user |-> o.user, check |-> NotUsed]
      BY <3>2
    <3> HIDE DEF o2
    <3>4. o3 =
             [kind |-> f.kind, version |-> f.version, part |-> f.part, media |-> f.media,
              files |-> o.files, user |-> o.user, check |-> NotUsed]
      BY <3>3
    <3> HIDE DEF o3
    <3>5. o4 =
             [kind |-> f.kind, version |-> f.version, part |-> f.part, media |-> f.media,
              files |-> files, user |-> o.user, check |-> NotUsed]
      BY <3>4
    <3> HIDE DEF o4
    <3>6. o5 =
             [kind |-> f.kind, version |-> f.version, part |-> f.part, media |-> f.media,
              files |-> files, user |-> user, check |-> NotUsed]
      BY <3>5
    <3> HIDE DEF o5
    <3>7. o6 =
             [kind |-> f.kind, version |-> f.version, part |-> f.part, media |-> f.media,
              files |-> files, user |-> user, check |-> check]
      BY <3>6
    <3> HIDE DEF o6
    <3> QED BY <3>1, <3>7
  <2> QED BY <2>5, <2>6, <2>7
<1>6. CASE f \in LoadHeader /\ f.kind = "loadHeader"
  <2>1. o \in LoadHeader
        /\ r = [o EXCEPT !.type = <<>>, !.positions = <<>>, !.user = <<>>, !.check = NotUsed]
    BY <1>6, ObjectKinds DEF Reset
  <2>2. o = [kind |-> o.kind, version |-> o.version, flags |-> o.flags, part |-> o.part,
             type |-> o.type, thw |-> o.thw, positions |-> o.positions, data |-> o.data,
             support |-> o.support, user |-> o.user, check |-> o.check]
    BY <2>1 DEF LoadHeader
  <2>3. r = [kind |-> f.kind, version |-> o.version, flags |-> o.flags, part |-> o.part,
             type |-> <<>>, thw |-> o.thw, positions |-> <<>>, data |-> o.data,
             support |-> o.support, user |-> <<>>, check |-> NotUsed]
    <3>0. o.kind = f.kind
              /\ r = [o EXCEPT !.type = <<>>, !.positions = <<>>, !.user = <<>>, !.check = NotUsed]
      BY <2>1
    <3> HIDE DEF r
    <3> DEFINE o1 == [o EXCEPT !.type = <<>>]
               o2 == [o1 EXCEPT !.positions = <<>>]
               o3 == [o2 EXCEPT !.user = <<>>]
               o4 == [o3 EXCEPT !.check = NotUsed]
    <3>1. [o EXCEPT !.type = <<>>, !.positions = <<>>, !.user = <<>>, !.check = NotUsed] = o4
      OBVIOUS
    <3>2. o1 =
             [kind |-> f.kind, version |-> o.version, flags |-> o.flags, part |-> o.part,
              type |-> <<>>, thw |-> o.thw, positions |-> o.positions, data |-> o.data,
              support |-> o.support, user |-> o.user, check |-> o.check]
      BY <2>2, <3>0
    <3> HIDE DEF o1
    <3>3. o2 =
             [kind |-> f.kind, version |-> o.version, flags |-> o.flags, part |-> o.part,
              type |-> <<>>, thw |-> o.thw, positions |-> <<>>, data |-> o.data,
              support |-> o.support, user |-> o.user, check |-> o.check]
      BY <3>2
    <3> HIDE DEF o2
    <3>4. o3 =
             [kind |-> f.kind, version |-> o.version, flags |-> o.flags, part |-> o.part,
              type |-> <<>>, thw |-> o.thw, positions |-> <<>>, data |-> o.data,
              support |-> o.support, user |-> <<>>, check |-> o.check]
      BY <3>3
    <3> HIDE DEF o3
    <3>5. o4 =
             [kind |-> f.kind, version |-> o.version, flags |-> o.flags, part |-> o.part,
              type |-> <<>>, thw |-> o.thw, positions |-> <<>>, data |-> o.data,
              support |-> o.support, user |-> <<>>, check |-> NotUsed]
      BY <3>4
    <3> HIDE DEF o4
    <3> QED BY <3>0, <3>1, <3>5
  <2> HIDE DEF r
  <2>4. /\ r.kind = f.kind /\ r.flags = o.flags /\ r.type = <<>> /\ r.positions = <<>>
        /\ r.support = o.support /\ r.user = <<>>
    BY <2>3
  <2>5. DecodedFile(o, words) = DecodedLoadHeader(r, words, f.version)
    BY <1>1, <1>6, <2>4 DEF DecodedBody
  <2> DEFINE v == f.version
             flags == IF v = 3 THEN f.flags ELSE r.flags
             type == IF v = 3 /\ f.type # <<>> THEN f.type ELSE r.type
             positions == IF v = 3 /\ f.positions # <<>> THEN f.positions ELSE r.positions
             data == [i \in DOMAIN f.data |-> ReadDataFile(v, f.data[i])]
             support == IF f.support = <<>> THEN r.support
                        ELSE [i \in DOMAIN f.support |-> ReadFile(v, f.support[i])]
             user == IF f.user = <<>> THEN r.user ELSE f.user
             check == IF v = 3 THEN f.check ELSE NotUsed
             got == [r EXCEPT !.version = v, !.flags = flags, !.part = f.part,
                              !.type = type, !.thw = f.thw, !.positions = positions,
                              !.data = data, !.support = support, !.user = user,
                              !.check = check]
             merged == [kind |-> f.kind, version |-> v, flags |-> flags, part |-> f.part,
                        type |-> type, thw |-> f.thw, positions |-> positions, data |-> data,
                        support |-> support, user |-> user, check |-> check]
  <2>6. DecodedFile(o, words) = Got(got, 0)
    <3>1. r.kind = f.kind
      BY <2>4
    <3>2. DecodedFile(o, words) = Got(ReadLoadHeader(r, f), 0)
      BY <1>6, <2>5, <3>1, LoadHeaderDecoded
    <3>3. got = ReadLoadHeader(r, f)
      BY DEF ReadLoadHeader
    <3> QED BY <3>2, <3>3
  <2>7. /\ type = IF v = 3 THEN f.type ELSE <<>>
        /\ positions = IF v = 3 THEN f.positions ELSE <<>>
        /\ user = f.user
        /\ flags = IF v = 3 THEN f.flags ELSE o.flags
        /\ support = IF f.support = <<>> THEN o.support
                     ELSE [i \in DOMAIN f.support |-> ReadFile(v, f.support[i])]
    BY <2>4
  <2>8. Merged(o, f) = MergedLoadHeader(o, f)
    BY <1>6 DEF Merged
  <2>9. MergedLoadHeader(o, f) = merged
    <3> HIDE DEF type, positions, user, flags, support
    <3> QED BY <2>7 DEF MergedLoadHeader
  <2> HIDE DEF flags, type, positions, data, support, user, check
  <2>10. got = merged
    <3> DEFINE o1 == [r EXCEPT !.version = v]
               o2 == [o1 EXCEPT !.flags = flags]
               o3 == [o2 EXCEPT !.part = f.part]
               o4 == [o3 EXCEPT !.type = type]
               o5 == [o4 EXCEPT !.thw = f.thw]
               o6 == [o5 EXCEPT !.positions = positions]
               o7 == [o6 EXCEPT !.data = data]
               o8 == [o7 EXCEPT !.support = support]
               o9 == [o8 EXCEPT !.user = user]
               o10 == [o9 EXCEPT !.check = check]
    <3>1. got = o10
      OBVIOUS
    <3>2. o1 =
             [kind |-> f.kind, version |-> v, flags |-> o.flags, part |-> o.part, type |-> <<>>,
              thw |-> o.thw, positions |-> <<>>, data |-> o.data, support |-> o.support,
              user |-> <<>>, check |-> NotUsed]
      BY <2>3
    <3> HIDE DEF o1
    <3>3. o2 =
             [kind |-> f.kind, version |-> v, flags |-> flags, part |-> o.part, type |-> <<>>,
              thw |-> o.thw, positions |-> <<>>, data |-> o.data, support |-> o.support,
              user |-> <<>>, check |-> NotUsed]
      BY <3>2
    <3> HIDE DEF o2
    <3>4. o3 =
             [kind |-> f.kind, version |-> v, flags |-> flags, part |-> f.part, type |-> <<>>,
              thw |-> o.thw, positions |-> <<>>, data |-> o.data, support |-> o.support,
              user |-> <<>>, check |-> NotUsed]
      BY <3>3
    <3> HIDE DEF o3
    <3>5. o4 =
             [kind |-> f.kind, version |-> v, flags |-> flags, part |-> f.part, type |-> type,
              thw |-> o.thw, positions |-> <<>>, data |-> o.data, support |-> o.support,
              user |-> <<>>, check |-> NotUsed]
      BY <3>4
    <3> HIDE DEF o4
    <3>6. o5 =
             [kind |-> f.kind, version |-> v, flags |-> flags, part |-> f.part, type |-> type,
              thw |-> f.thw, positions |-> <<>>, data |-> o.data, support |-> o.support,
              user |-> <<>>, check |-> NotUsed]
      BY <3>5
    <3> HIDE DEF o5
    <3>7. o6 =
             [kind |-> f.kind, version |-> v, flags |-> flags, part |-> f.part, type |-> type,
              thw |-> f.thw, positions |-> positions, data |-> o.data, support |-> o.support,
              user |-> <<>>, check |-> NotUsed]
      BY <3>6
    <3> HIDE DEF o6
    <3>8. o7 =
             [kind |-> f.kind, version |-> v, flags |-> flags, part |-> f.part, type |-> type,
              thw |-> f.thw, positions |-> positions, data |-> data, support |-> o.support,
              user |-> <<>>, check |-> NotUsed]
      BY <3>7
    <3> HIDE DEF o7
    <3>9. o8 =
             [kind |-> f.kind, version |-> v, flags |-> flags, part |-> f.part, type |-> type,
              thw |-> f.thw, positions |-> positions, data |-> data, support |-> support,
              user |-> <<>>, check |-> NotUsed]
      BY <3>8
    <3> HIDE DEF o8
    <3>10. o9 =
             [kind |-> f.kind, version |-> v, flags |-> flags, part |-> f.part, type |-> type,
              thw |-> f.thw, positions |-> positions, data |-> data, support |-> support,
              user |-> user, check |-> NotUsed]
      BY <3>9
    <3> HIDE DEF o9
    <3>11. o10 =
             [kind |-> f.kind, version |-> v, flags |-> flags, part |-> f.part, type |-> type,
              thw |-> f.thw, positions |-> positions, data |-> data, support |-> support,
              user |-> user, check |-> check]
      BY <3>10
    <3> HIDE DEF o10
    <3> QED BY <3>1, <3>11
  <2> QED BY <2>6, <2>8, <2>9, <2>10
<1> QED BY <1>2, <1>3, <1>4, <1>5, <1>6, Kinds

-----------------------------------------------------------------------------
(* Decoding into a new object.                                             *)

LEMMA SameSequence ==
  ASSUME NEW S, NEW s \in Seq(S)
  PROVE  [i \in DOMAIN s |-> s[i]] = s
OBVIOUS

LEMMA ReadIn3 ==
  /\ \A e : ReadFile(3, e) = e /\ ReadDataFile(3, e) = e
  /\ \A e : ReadFile(2, e) = Unchecked(e)
  /\ \A e : ReadDataFile(2, e) = [Unchecked(e) EXCEPT !.length = @ + (@ % 2)]
BY DEF ReadFile, ReadDataFile

(* A new object holds what can be expressed of the content.                *)
LEMMA LoadHeaderOfBlank ==
  ASSUME NEW f \in LoadHeader
  PROVE  MergedLoadHeader(Blank("loadHeader"), f) = Expressible(f)
<1> DEFINE o == Blank("loadHeader")
<1>1. /\ f.kind = "loadHeader" /\ f.version \in Supplement
      /\ f.data \in Seq(LoadFile) /\ f.support \in Seq(LoadFile)
      /\ f = [kind |-> f.kind, version |-> f.version, flags |-> f.flags, part |-> f.part,
              type |-> f.type, thw |-> f.thw, positions |-> f.positions, data |-> f.data,
              support |-> f.support, user |-> f.user, check |-> f.check]
  BY DEF LoadHeader
<1>2. o.flags = 0 /\ o.support = <<>>
  BY DEF Blank
<1> DEFINE datas == [i \in DOMAIN f.data |-> ReadDataFile(f.version, f.data[i])]
           supports == [i \in DOMAIN f.support |-> ReadFile(f.version, f.support[i])]
<1>3. f.support = <<>> => supports = <<>>
  OBVIOUS
<1> DEFINE v3 == f.version = 3
<1>4. MergedLoadHeader(o, f) =
        [kind |-> f.kind, version |-> f.version, flags |-> IF f.version = 3 THEN f.flags ELSE 0,
         part |-> f.part, type |-> IF f.version = 3 THEN f.type ELSE <<>>, thw |-> f.thw,
         positions |-> IF f.version = 3 THEN f.positions ELSE <<>>, data |-> datas,
         support |-> supports, user |-> f.user,
         check |-> IF f.version = 3 THEN f.check ELSE NotUsed]
  <2>1. MergedLoadHeader(o, f) =
        [kind |-> f.kind, version |-> f.version,
         flags |-> IF f.version = 3 THEN f.flags ELSE o.flags, part |-> f.part,
         type |-> IF f.version = 3 THEN f.type ELSE <<>>, thw |-> f.thw,
         positions |-> IF f.version = 3 THEN f.positions ELSE <<>>, data |-> datas,
         support |-> IF f.support = <<>> THEN o.support ELSE supports, user |-> f.user,
         check |-> IF f.version = 3 THEN f.check ELSE NotUsed]
    BY DEF MergedLoadHeader
  <2>2. (IF f.support = <<>> THEN o.support ELSE supports) = supports
    <3> HIDE DEF supports, o
    <3> QED BY <1>2, <1>3
  <2> HIDE DEF o, datas, supports
  <2> QED BY <1>2, <2>1, <2>2
<1> HIDE DEF o
<1>5. CASE f.version = 3
  <2>1. Expressible(f) = f
    BY <1>5 DEF Expressible
  <2>2. datas = f.data /\ supports = f.support
    <3>1. datas = [i \in DOMAIN f.data |-> f.data[i]]
      BY <1>5, ReadIn3
    <3>2. supports = [i \in DOMAIN f.support |-> f.support[i]]
      BY <1>5, ReadIn3
    <3> QED BY <1>1, <3>1, <3>2, SameSequence
  <2> HIDE DEF datas, supports
  <2>3. MergedLoadHeader(o, f) =
          [kind |-> f.kind, version |-> f.version, flags |-> f.flags, part |-> f.part,
           type |-> f.type, thw |-> f.thw, positions |-> f.positions, data |-> f.data,
           support |-> f.support, user |-> f.user, check |-> f.check]
    BY <1>4, <1>5, <2>2
  <2> QED BY <1>1, <2>1, <2>3 DEF o
<1>6. CASE f.version = 2
  <2> DEFINE data == [i \in DOMAIN f.data |-> [Unchecked(f.data[i]) EXCEPT !.length = @ + (@ % 2)]]
             support == [i \in DOMAIN f.support |-> Unchecked(f.support[i])]
  <2>0. datas = data /\ supports = support
    BY <1>6, ReadIn3
  <2>1. f = [kind |-> f.kind, version |-> f.version, flags |-> f.flags, part |-> f.part,
             type |-> f.type, thw |-> f.thw, positions |-> f.positions, data |-> f.data,
             support |-> f.support, user |-> f.user, check |-> f.check]
    BY <1>1
  <2>2. Expressible(f) =
          [f EXCEPT !.flags = 0, !.type = <<>>, !.positions = <<>>, !.check = NotUsed,
                    !.data = data, !.support = support]
    BY <1>1, <1>6 DEF Expressible
  <2> HIDE DEF data, support, datas, supports
  <2>3. [f EXCEPT !.flags = 0, !.type = <<>>, !.positions = <<>>, !.check = NotUsed,
                  !.data = data, !.support = support] =
          [kind |-> f.kind, version |-> f.version, flags |-> 0, part |-> f.part, type |-> <<>>,
           thw |-> f.thw, positions |-> <<>>, data |-> data, support |-> support,
           user |-> f.user, check |-> NotUsed]
    <3> DEFINE o1 == [f EXCEPT !.flags = 0]
               o2 == [o1 EXCEPT !.type = <<>>]
               o3 == [o2 EXCEPT !.positions = <<>>]
               o4 == [o3 EXCEPT !.check = NotUsed]
               o5 == [o4 EXCEPT !.data = data]
               o6 == [o5 EXCEPT !.support = support]
    <3>1. [f EXCEPT !.flags = 0, !.type = <<>>, !.positions = <<>>, !.check = NotUsed,
                    !.data = data, !.support = support] = o6
      OBVIOUS
    <3>2. o1 =
             [kind |-> f.kind, version |-> f.version, flags |-> 0, part |-> f.part,
              type |-> f.type, thw |-> f.thw, positions |-> f.positions, data |-> f.data,
              support |-> f.support, user |-> f.user, check |-> f.check]
      BY <2>1
    <3> HIDE DEF o1
    <3>3. o2 =
             [kind |-> f.kind, version |-> f.version, flags |-> 0, part |-> f.part,
              type |-> <<>>, thw |-> f.thw, positions |-> f.positions, data |-> f.data,
              support |-> f.support, user |-> f.user, check |-> f.check]
      BY <3>2
    <3> HIDE DEF o2
    <3>4. o3 =
             [kind |-> f.kind, version |-> f.version, flags |-> 0, part |-> f.part,
              type |-> <<>>, thw |-> f.thw, positions |-> <<>>, data |-> f.data,
              support |-> f.support, user |-> f.user, check |-> f.check]
      BY <3>3
    <3> HIDE DEF o3
    <3>5. o4 =
             [kind |-> f.kind, version |-> f.version, flags |-> 0, part |-> f.part,
              type |-> <<>>, thw |-> f.thw, positions |-> <<>>, data |-> f.data,
              support |-> f.support, user |-> f.user, check |-> NotUsed]
      BY <3>4
    <3> HIDE DEF o4
    <3>6. o5 =
             [kind |-> f.kind, version |-> f.version, flags |-> 0, part |-> f.part,
              type |-> <<>>, thw |-> f.thw, positions |-> <<>>, data |-> data,
              support |-> f.support, user |-> f.user, check |-> NotUsed]
      BY <3>5
    <3> HIDE DEF o5
    <3>7. o6 =
             [kind |-> f.kind, version |-> f.version, flags |-> 0, part |-> f.part,
              type |-> <<>>, thw |-> f.thw, positions |-> <<>>, data |-> data,
              support |-> support, user |-> f.user, check |-> NotUsed]
      BY <3>6
    <3> HIDE DEF o6
    <3> QED BY <3>1, <3>7
  <2>4. MergedLoadHeader(o, f) =
          [kind |-> f.kind, version |-> f.version, flags |-> 0, part |-> f.part, type |-> <<>>,
           thw |-> f.thw, positions |-> <<>>, data |-> data, support |-> support,
           user |-> f.user, check |-> NotUsed]
    BY <1>4, <1>6, <2>0
  <2> QED BY <2>2, <2>3, <2>4 DEF o
<1> QED BY <1>1, <1>5, <1>6 DEF Supplement

LEMMA FileListOfBlank ==
  ASSUME NEW f \in FileList
  PROVE  MergedFileList(Blank("fileList"), f) = Expressible(f)
<1> DEFINE o == Blank("fileList")
           read == [i \in DOMAIN f.files |-> ReadFile(f.version, f.files[i])]
<1>1. /\ f.kind = "fileList" /\ f.version \in Supplement /\ f.files \in Seq(FileInfo)
      /\ f = [kind |-> f.kind, version |-> f.version, part |-> f.part, media |-> f.media,
              files |-> f.files, user |-> f.user, check |-> f.check]
  BY DEF FileList
<1>2. MergedUser(o, f) = f.user
  BY DEF MergedUser, Blank
<1>3. MergedFileList(o, f) =
        [kind |-> f.kind, version |-> f.version, part |-> f.part, media |-> f.media,
         files |-> read, user |-> f.user, check |-> IF f.version = 3 THEN f.check ELSE NotUsed]
  BY <1>2 DEF MergedFileList
<1> HIDE DEF o
<1>4. CASE f.version = 3
  <2>1. Expressible(f) = f
    BY <1>4 DEF Expressible
  <2>2. read = f.files
    <3>1. read = [i \in DOMAIN f.files |-> f.files[i]]
      BY <1>4, ReadIn3
    <3> QED BY <1>1, <3>1, SameSequence
  <2> HIDE DEF read
  <2>3. MergedFileList(o, f) =
          [kind |-> f.kind, version |-> f.version, part |-> f.part, media |-> f.media,
           files |-> f.files, user |-> f.user, check |-> f.check]
    BY <1>3, <1>4, <2>2
  <2> QED BY <1>1, <2>1, <2>3 DEF o
<1>5. CASE f.version = 2
  <2> DEFINE files == [i \in DOMAIN f.files |-> Unchecked(f.files[i])]
  <2>0. read = files
    BY <1>5, ReadIn3
  <2>1. f = [kind |-> f.kind, version |-> f.version, part |-> f.part, media |-> f.media,
             files |-> f.files, user |-> f.user, check |-> f.check]
    BY <1>1
  <2>2. Expressible(f) = [f EXCEPT !.check = NotUsed, !.files = files]
    BY <1>1, <1>5 DEF Expressible
  <2> HIDE DEF read, files
  <2>3. [f EXCEPT !.check = NotUsed, !.files = files] =
          [kind |-> f.kind, version |-> f.version, part |-> f.part, media |-> f.media,
           files |-> files, user |-> f.user, check |-> NotUsed]
    <3> DEFINE o1 == [f EXCEPT !.check = NotUsed]
               o2 == [o1 EXCEPT !.files = files]
    <3>1. [f EXCEPT !.check = NotUsed, !.files = files] = o2
      OBVIOUS
    <3>2. o1 =
             [kind |-> f.kind, version |-> f.version, part |-> f.part, media |-> f.media,
              files |-> f.files, user |-> f.user, check |-> NotUsed]
      BY <2>1
    <3> HIDE DEF o1
    <3>3. o2 =
             [kind |-> f.kind, version |-> f.version, part |-> f.part, media |-> f.media,
              files |-> files, user |-> f.user, check |-> NotUsed]
      BY <3>2
    <3> HIDE DEF o2
    <3> QED BY <3>1, <3>3
  <2>4. MergedFileList(o, f) =
          [kind |-> f.kind, version |-> f.version, part |-> f.part, media |-> f.media,
           files |-> files, user |-> f.user, check |-> NotUsed]
    BY <1>3, <1>5, <2>0
  <2> QED BY <2>2, <2>3, <2>4 DEF o
<1> QED BY <1>1, <1>4, <1>5 DEF Supplement

(* A new object is like any other.                                         *)
LEMMA BlankIsContent ==
  ASSUME NEW kind \in {"loadHeader", "fileList", "loadList", "batchList", "batchFile"}
  PROVE  Blank(kind) \in Contents /\ Blank(kind).kind = kind
<1>1. <<>> \in Text /\ <<>> \in UserData
  BY DEF Text, UserData
<1>2. 1 \in MediumNumber /\ 0 \in Word
  BY Bases DEF MediumNumber, Byte, Word
<1>3. NotUsed \in CheckType
  BY FilesAssumption DEF FilesAssumption
<1>4. CASE kind = "loadHeader"
  <2>1. Blank(kind) \in LoadHeader
    BY <1>1, <1>2, <1>3, <1>4 DEF Blank, LoadHeader, Supplement
  <2> QED BY <2>1, <1>4 DEF Contents, LoadHeader
<1>5. CASE kind = "fileList"
  <2>1. Blank(kind) \in FileList
    BY <1>1, <1>2, <1>3, <1>5 DEF Blank, FileList, MediaInformation, Supplement
  <2> QED BY <2>1, <1>5 DEF Contents, FileList
<1>6. CASE kind = "loadList"
  <2>1. Blank(kind) \in LoadList
    BY <1>1, <1>2, <1>6 DEF Blank, LoadList, MediaInformation, Supplement
  <2> QED BY <2>1, <1>6 DEF Contents, LoadList
<1>7. CASE kind = "batchList"
  <2>1. Blank(kind) \in BatchList
    BY <1>1, <1>2, <1>7 DEF Blank, BatchList, MediaInformation, Supplement
  <2> QED BY <2>1, <1>7 DEF Contents, BatchList
<1>8. CASE kind = "batchFile"
  <2>1. Blank(kind) \in BatchFile
    BY <1>1, <1>8 DEF Blank, BatchFile, Supplement
  <2> QED BY <2>1, <1>8 DEF Contents, BatchFile
<1> QED BY <1>4, <1>5, <1>6, <1>7, <1>8

(* Into a new object, only what the supplement cannot express is lost.     *)
LEMMA MergedOfBlank ==
  ASSUME NEW f \in Contents
  PROVE  Merged(Blank(f.kind), f) = Expressible(f)
<1> DEFINE o == Blank(f.kind)
<1>1. CASE f \in LoadHeader /\ f.kind = "loadHeader"
  BY <1>1, LoadHeaderOfBlank DEF Merged
<1>2. CASE f \in FileList /\ f.kind = "fileList"
  BY <1>2, FileListOfBlank DEF Merged
<1>3. CASE f \in LoadList /\ f.kind = "loadList"
  <2>1. o.loads = <<>> /\ o.user = <<>>
    BY <1>3 DEF Blank
  <2>2. f.loads \in Seq(LoadInfo)
        /\ f = [kind |-> f.kind, version |-> f.version, part |-> f.part, media |-> f.media,
                loads |-> f.loads, user |-> f.user]
    BY <1>3 DEF LoadList
  <2> HIDE DEF o
  <2>3. <<>> \o f.loads = f.loads
    BY <2>2
  <2>4. MergedUser(o, f) = f.user
    BY <2>1 DEF MergedUser
  <2>5. Merged(o, f) = [kind |-> f.kind, version |-> f.version, part |-> f.part,
                        media |-> f.media, loads |-> f.loads, user |-> f.user]
    BY <1>3, <2>1, <2>3, <2>4 DEF Merged, MergedLoadList
  <2>6. Expressible(f) = f
    BY <1>3 DEF Expressible
  <2> QED BY <2>2, <2>5, <2>6 DEF o
<1>4. CASE f \in BatchList /\ f.kind = "batchList"
  <2>1. o.user = <<>>
    BY <1>4 DEF Blank
  <2>2. f = [kind |-> f.kind, version |-> f.version, part |-> f.part, media |-> f.media,
             batches |-> f.batches, user |-> f.user]
    BY <1>4 DEF BatchList
  <2> HIDE DEF o
  <2>3. MergedUser(o, f) = f.user
    BY <2>1 DEF MergedUser
  <2>4. Merged(o, f) = [kind |-> f.kind, version |-> f.version, part |-> f.part,
                        media |-> f.media, batches |-> f.batches, user |-> f.user]
    BY <1>4, <2>3 DEF Merged, MergedBatchList
  <2>5. Expressible(f) = f
    BY <1>4 DEF Expressible
  <2> QED BY <2>2, <2>4, <2>5 DEF o
<1>5. CASE f \in BatchFile /\ f.kind = "batchFile"
  <2>1. f = [kind |-> f.kind, version |-> f.version, part |-> f.part, comment |-> f.comment,
             targets |-> f.targets]
    BY <1>5 DEF BatchFile
  <2> HIDE DEF o
  <2>2. Merged(o, f) = [kind |-> f.kind, version |-> f.version, part |-> f.part,
                        comment |-> f.comment, targets |-> f.targets]
    BY <1>5 DEF Merged, MergedBatchFile
  <2>3. Expressible(f) = f
    BY <1>5 DEF Expressible
  <2> QED BY <2>1, <2>2, <2>3 DEF o
<1> QED BY <1>1, <1>2, <1>3, <1>4, <1>5, Kinds

-----------------------------------------------------------------------------
(* Decoding into a used object.                                            *)

(* The members that keep their former value.                               *)
Left(o, f) ==
  {m \in DOMAIN o :
     \/ m = "support" /\ f.support = <<>>
     \/ m = "flags" /\ f.version = 2
     \/ m = "user" /\ f.kind # "loadHeader" /\ f.user = <<>>}

MemberAfter(o, f, m) ==
  IF m = "loads" THEN o.loads \o f.loads
  ELSE IF m \in Left(o, f) THEN o[m] ELSE Expressible(f)[m]

(* The same, member by member.                                             *)
LEMMA MergedMembers ==
  ASSUME NEW f \in Contents, NEW o \in Contents, o.kind = f.kind,
         NEW r, r = Merged(o, f), NEW m \in DOMAIN r
  PROVE  r[m] = MemberAfter(o, f, m)
<1> SUFFICES r[m] = IF m = "loads" THEN o.loads \o f.loads
                    ELSE IF m \in Left(o, f) THEN o[m] ELSE Expressible(f)[m]
  BY DEF MemberAfter
<1> DEFINE e == Expressible(f)
<1>1. e = Merged(Blank(f.kind), f)
  BY MergedOfBlank
<1> HIDE DEF e
<1>2. CASE f \in LoadHeader /\ f.kind = "loadHeader"
  <2> DEFINE b == Blank(f.kind)
             data == [i \in DOMAIN f.data |-> ReadDataFile(f.version, f.data[i])]
             support == [i \in DOMAIN f.support |-> ReadFile(f.version, f.support[i])]
             type == IF f.version = 3 THEN f.type ELSE <<>>
             positions == IF f.version = 3 THEN f.positions ELSE <<>>
             check == IF f.version = 3 THEN f.check ELSE NotUsed
             record(x) ==
               [kind |-> f.kind, version |-> f.version,
                flags |-> IF f.version = 3 THEN f.flags ELSE x.flags, part |-> f.part,
                type |-> type, thw |-> f.thw, positions |-> positions, data |-> data,
                support |-> IF f.support = <<>> THEN x.support ELSE support, user |-> f.user,
                check |-> check]
  <2>1. r = record(o) /\ e = record(b)
    BY <1>1, <1>2 DEF Merged, MergedLoadHeader
  <2>2. o \in LoadHeader /\ f.version \in {2, 3}
    BY <1>2, ObjectKinds DEF LoadHeader, Supplement
  <2>3. DOMAIN o = {"kind", "version", "flags", "part", "type", "thw", "positions", "data",
                    "support", "user", "check"}
    BY <2>2 DEF LoadHeader
  <2> HIDE DEF b, data, support, type, positions, check
  <2>4. m \in {"kind", "version", "flags", "part", "type", "thw", "positions", "data",
               "support", "user", "check"}
    BY <2>1
  <2>5. CASE m = "flags"
    <3>1. m \in Left(o, f) <=> f.version = 2
      BY <2>3, <2>5 DEF Left
    <3>2. f.version = 3 => r[m] = e[m]
      BY <2>1, <2>5
    <3>3. f.version = 2 => r[m] = o[m]
      BY <2>1, <2>5
    <3> QED BY <2>2, <2>5, <3>1, <3>2, <3>3 DEF e
  <2>6. CASE m = "support"
    <3>1. m \in Left(o, f) <=> f.support = <<>>
      BY <2>3, <2>6 DEF Left
    <3>2. f.support # <<>> => r[m] = e[m]
      BY <2>1, <2>6
    <3>3. f.support = <<>> => r[m] = o[m]
      BY <2>1, <2>6
    <3> QED BY <2>6, <3>1, <3>2, <3>3 DEF e
  <2>7. CASE m \notin {"flags", "support"}
    <3>1. m \notin Left(o, f) /\ m # "loads"
      BY <1>2, <2>4, <2>7 DEF Left
    <3>2. r[m] = e[m]
      BY <2>1, <2>4, <2>7
    <3> QED BY <3>1, <3>2 DEF e
  <2> QED BY <2>5, <2>6, <2>7
<1>3. ASSUME f.kind \in {"fileList", "loadList", "batchList"},
             "user" \in DOMAIN o, m = "user",
             r.user = MergedUser(o, f), e.user = MergedUser(Blank(f.kind), f)
      PROVE  r[m] = IF m = "loads" THEN o.loads \o f.loads
                    ELSE IF m \in Left(o, f) THEN o[m] ELSE e[m]
  <2>1. m \in Left(o, f) <=> f.user = <<>>
    BY <1>3 DEF Left
  <2>2. f.user = <<>> => r[m] = o[m]
    BY <1>3 DEF MergedUser
  <2>3. f.user # <<>> => r[m] = e[m]
    BY <1>3 DEF MergedUser
  <2> QED BY <1>3, <2>1, <2>2, <2>3
<1>4. CASE f \in FileList /\ f.kind = "fileList"
  <2> DEFINE b == Blank(f.kind)
             files == [i \in DOMAIN f.files |-> ReadFile(f.version, f.files[i])]
             check == IF f.version = 3 THEN f.check ELSE NotUsed
             record(x) ==
               [kind |-> f.kind, version |-> f.version, part |-> f.part, media |-> f.media,
                files |-> files, user |-> MergedUser(x, f), check |-> check]
  <2>1. r = record(o) /\ e = record(b)
    BY <1>1, <1>4 DEF Merged, MergedFileList
  <2>2. "user" \in DOMAIN o
    BY <1>4, ObjectKinds DEF FileList
  <2> HIDE DEF files, check
  <2>3. m \in {"kind", "version", "part", "media", "files", "user", "check"}
    BY <2>1
  <2>4. CASE m = "user"
    <3>1. r.user = MergedUser(o, f) /\ e.user = MergedUser(b, f)
      BY <2>1
    <3> QED BY <1>3, <1>4, <2>2, <2>4, <3>1 DEF e
  <2>5. CASE m # "user"
    <3>1. m \notin Left(o, f) /\ m # "loads"
      BY <2>3, <2>5 DEF Left
    <3>2. r[m] = e[m]
      BY <2>1, <2>3, <2>5
    <3> QED BY <3>1, <3>2 DEF e
  <2> QED BY <2>4, <2>5
<1>5. CASE f \in LoadList /\ f.kind = "loadList"
  <2> DEFINE b == Blank(f.kind)
             loads(x) == x.loads \o f.loads
             record(x) ==
               [kind |-> f.kind, version |-> f.version, part |-> f.part, media |-> f.media,
                loads |-> loads(x), user |-> MergedUser(x, f)]
  <2>1. r = record(o) /\ e = record(b)
    BY <1>1, <1>5 DEF Merged, MergedLoadList
  <2>2. "user" \in DOMAIN o
    BY <1>5, ObjectKinds DEF LoadList
  <2>3. m \in {"kind", "version", "part", "media", "loads", "user"}
    BY <2>1
  <2>4. CASE m = "user"
    <3>1. r.user = MergedUser(o, f) /\ e.user = MergedUser(b, f)
      BY <2>1
    <3> QED BY <1>3, <1>5, <2>2, <2>4, <3>1 DEF e
  <2>5. CASE m = "loads"
    <3> HIDE DEF loads
    <3>1. r[m] = loads(o)
      BY <2>1, <2>5
    <3> QED BY <2>5, <3>1 DEF loads
  <2>6. CASE m \notin {"user", "loads"}
    <3>1. m \notin Left(o, f) /\ m # "loads"
      BY <2>3, <2>6 DEF Left
    <3>2. r[m] = e[m]
      <4> HIDE DEF loads
      <4> QED BY <2>1, <2>3, <2>6
    <3> QED BY <3>1, <3>2 DEF e
  <2> QED BY <2>4, <2>5, <2>6
<1>6. CASE f \in BatchList /\ f.kind = "batchList"
  <2> DEFINE b == Blank(f.kind)
             record(x) ==
               [kind |-> f.kind, version |-> f.version, part |-> f.part, media |-> f.media,
                batches |-> f.batches, user |-> MergedUser(x, f)]
  <2>1. r = record(o) /\ e = record(b)
    BY <1>1, <1>6 DEF Merged, MergedBatchList
  <2>2. "user" \in DOMAIN o
    BY <1>6, ObjectKinds DEF BatchList
  <2>3. m \in {"kind", "version", "part", "media", "batches", "user"}
    BY <2>1
  <2>4. CASE m = "user"
    <3>1. r.user = MergedUser(o, f) /\ e.user = MergedUser(b, f)
      BY <2>1
    <3> QED BY <1>3, <1>6, <2>2, <2>4, <3>1 DEF e
  <2>5. CASE m # "user"
    <3>1. m \notin Left(o, f) /\ m # "loads"
      BY <2>3, <2>5 DEF Left
    <3>2. r[m] = e[m]
      BY <2>1, <2>3, <2>5
    <3> QED BY <3>1, <3>2 DEF e
  <2> QED BY <2>4, <2>5
<1>7. CASE f \in BatchFile /\ f.kind = "batchFile"
  <2>1. /\ r = [kind |-> f.kind, version |-> f.version, part |-> f.part, comment |-> f.comment,
                targets |-> f.targets]
        /\ e = r
    BY <1>1, <1>7 DEF Merged, MergedBatchFile
  <2>2. m \in {"kind", "version", "part", "comment", "targets"}
    BY <2>1
  <2>3. m \notin Left(o, f) /\ m # "loads"
    BY <2>2 DEF Left
  <2> QED BY <2>1, <2>3 DEF e
<1> QED BY <1>2, <1>4, <1>5, <1>6, <1>7, Kinds

-----------------------------------------------------------------------------
(* A word that differs makes another checksum.                             *)

LEMMA SumsDiffer ==
  ASSUME NEW w \in Nat, w > 0, NEW a \in 0 .. w - 1, NEW b \in 0 .. w - 1, NEW d \in 0 .. w - 1,
         a # b
  PROVE  (a + d) % w # (b + d) % w
<1>1. (a + d) % w = IF a + d < w THEN a + d ELSE a + d - w
  BY Remainders
<1>2. (b + d) % w = IF b + d < w THEN b + d ELSE b + d - w
  BY Remainders
<1> QED BY <1>1, <1>2

(* Words that differ in one place have different checksums.                *)
LEMMA ChecksumsDiffer ==
  ASSUME NEW s \in Seq(Word), NEW t \in Seq(Word), Len(t) = Len(s),
         NEW i \in 1 .. Len(s), s[i] # t[i], \A j \in 1 .. Len(s) : j # i => s[j] = t[j]
  PROVE  Checksum(s) # Checksum(t)
<1> DEFINE n == Len(s)
<1>1. WordBase \in Nat /\ WordBase > 0 /\ n \in Nat
  BY Bases
<1>2. PICK f \in [0 .. n -> Word] :
        /\ f[0] = 0 /\ \A k \in 1 .. n : f[k] = (f[k - 1] + s[k]) % WordBase
        /\ Checksum(s) = f[n]
  BY <1>1, ChecksumSteps
<1>3. PICK g \in [0 .. n -> Word] :
        /\ g[0] = 0 /\ \A k \in 1 .. n : g[k] = (g[k - 1] + t[k]) % WordBase
        /\ Checksum(t) = g[n]
  BY <1>1, ChecksumSteps
<1> DEFINE S == {k \in Nat : k <= n => IF k < i THEN f[k] = g[k] ELSE f[k] # g[k]}
<1>4. 0 \in S
  BY <1>2, <1>3
<1>5. ASSUME NEW k \in S
      PROVE  k + 1 \in S
  <2> SUFFICES ASSUME k + 1 <= n
               PROVE  IF k + 1 < i THEN f[k + 1] = g[k + 1] ELSE f[k + 1] # g[k + 1]
    OBVIOUS
  <2>1. k \in Nat /\ k + 1 \in 1 .. n /\ k \in 0 .. n /\ (k + 1) - 1 = k
        /\ IF k < i THEN f[k] = g[k] ELSE f[k] # g[k]
    OBVIOUS
  <2> HIDE DEF S
  <2>2. /\ f[k + 1] = (f[k] + s[k + 1]) % WordBase /\ g[k + 1] = (g[k] + t[k + 1]) % WordBase
        /\ f[k] \in 0 .. WordBase - 1 /\ g[k] \in 0 .. WordBase - 1
        /\ s[k + 1] \in 0 .. WordBase - 1 /\ t[k + 1] \in 0 .. WordBase - 1
    <3>1. f[k] \in Word /\ g[k] \in Word
      BY <1>2, <1>3, <2>1
    <3>2. s[k + 1] \in Word /\ t[k + 1] \in Word
      BY <2>1, ElementOfSeq
    <3>3. f[k + 1] = (f[(k + 1) - 1] + s[k + 1]) % WordBase
      BY <1>2, <2>1
    <3>4. g[k + 1] = (g[(k + 1) - 1] + t[k + 1]) % WordBase
      BY <1>3, <2>1
    <3> QED BY <2>1, <3>1, <3>2, <3>3, <3>4 DEF Word
  <2>3. CASE k + 1 < i
    <3>1. k < i /\ k + 1 # i
      BY <2>1, <2>3
    <3> QED BY <2>1, <2>2, <2>3, <3>1
  <2>4. CASE k + 1 = i
    <3>1. f[k] = g[k] /\ s[k + 1] # t[k + 1]
      BY <2>1, <2>4
    <3>2. (s[k + 1] + f[k]) % WordBase # (t[k + 1] + f[k]) % WordBase
      BY <1>1, <2>2, <3>1, SumsDiffer
    <3>3. s[k + 1] + f[k] = f[k] + s[k + 1] /\ t[k + 1] + f[k] = f[k] + t[k + 1]
      BY <1>1, <2>2
    <3> QED BY <2>2, <2>4, <3>1, <3>2, <3>3
  <2>5. CASE k + 1 > i
    <3>1. f[k] # g[k] /\ s[k + 1] = t[k + 1]
      BY <2>1, <2>5
    <3>2. (f[k] + s[k + 1]) % WordBase # (g[k] + s[k + 1]) % WordBase
      BY <1>1, <2>2, <3>1, SumsDiffer
    <3> QED BY <2>1, <2>2, <2>5, <3>1, <3>2
  <2> QED BY <2>1, <2>3, <2>4, <2>5
<1>6. \A k \in Nat : k \in S
  <2> HIDE DEF S
  <2>1. S \in SUBSET Nat
    BY DEF S
  <2> QED BY <1>4, <1>5, <2>1, Induction
<1>7. f[n] # g[n]
  BY <1>1, <1>6
<1> QED BY <1>2, <1>3, <1>7

(* Pieces of a sequence of words.                                          *)
LEMMA SameWords ==
  ASSUME NEW s \in Seq(Word), NEW t \in Seq(Word), Len(s) = Len(t),
         \A j \in 1 .. Len(s) : s[j] = t[j]
  PROVE  s = t
OBVIOUS

LEMMA Piece ==
  ASSUME NEW t \in Seq(Word), NEW k \in Nat, NEW m \in Nat, k <= m, m <= Len(t)
  PROVE  /\ SubSeq(t, k + 1, m) \in Seq(Word) /\ Len(SubSeq(t, k + 1, m)) = m - k
         /\ \A j \in 1 .. m - k : SubSeq(t, k + 1, m)[j] = t[k + j]
<1>1. \A i \in k + 1 .. m : t[i] \in Word
  <2> SUFFICES ASSUME NEW i \in k + 1 .. m
               PROVE  t[i] \in Word
    OBVIOUS
  <2>1. i \in 1 .. Len(t)
    OBVIOUS
  <2> QED BY <2>1, ElementOfSeq
<1>2. /\ SubSeq(t, k + 1, m) \in Seq(Word)
      /\ Len(SubSeq(t, k + 1, m)) = IF k + 1 <= m THEN m - (k + 1) + 1 ELSE 0
      /\ \A i \in 1 .. m - (k + 1) + 1 : SubSeq(t, k + 1, m)[i] = t[(k + 1) + i - 1]
  <2>1. k + 1 \in Nat /\ k + 1 >= 1 /\ k + 1 <= m + 1
    OBVIOUS
  <2> QED BY <1>1, <2>1, SubSeqProperties
<1> QED BY <1>2

LEMMA Joined ==
  ASSUME NEW s \in Seq(Word), NEW t \in Seq(Word)
  PROVE  /\ s \o t \in Seq(Word) /\ Len(s \o t) = Len(s) + Len(t)
         /\ \A j \in 1 .. Len(s) + Len(t) :
              (s \o t)[j] = IF j <= Len(s) THEN s[j] ELSE t[j - Len(s)]
BY ConcatProperties

LEMMA Cut ==
  ASSUME NEW t \in Seq(Word), NEW k \in Nat, k <= Len(t)
  PROVE  t = SubSeq(t, 1, k) \o SubSeq(t, k + 1, Len(t))
<1> DEFINE n == Len(t)
           a == SubSeq(t, 1, k)
           b == SubSeq(t, k + 1, n)
<1>1. n \in Nat /\ k <= n
  OBVIOUS
<1>2. a \in Seq(Word) /\ Len(a) = k /\ \A j \in 1 .. k : a[j] = t[j]
  <2>1. /\ SubSeq(t, 0 + 1, k) \in Seq(Word) /\ Len(SubSeq(t, 0 + 1, k)) = k - 0
        /\ \A j \in 1 .. k - 0 : SubSeq(t, 0 + 1, k)[j] = t[0 + j]
    BY Piece
  <2>2. 0 + 1 = 1 /\ k - 0 = k /\ \A j \in 1 .. k : 0 + j = j
    OBVIOUS
  <2> QED BY <2>1, <2>2
<1>3. b \in Seq(Word) /\ Len(b) = n - k /\ \A j \in 1 .. n - k : b[j] = t[k + j]
  BY <1>1, Piece
<1> HIDE DEF a, b
<1> DEFINE ab == a \o b
<1>4. ab \in Seq(Word) /\ Len(ab) = Len(a) + Len(b)
      /\ \A j \in 1 .. Len(a) + Len(b) : ab[j] = IF j <= Len(a) THEN a[j] ELSE b[j - Len(a)]
  BY <1>2, <1>3, Joined
<1>5. Len(a) + Len(b) = n
  BY <1>1, <1>2, <1>3
<1> HIDE DEF ab
<1>6. ASSUME NEW j \in 1 .. n
      PROVE  ab[j] = t[j]
  <2>1. CASE j <= k
    <3>1. j \in 1 .. k
      BY <1>1, <2>1
    <3> QED BY <1>2, <1>4, <1>5, <3>1, <2>1
  <2>2. CASE j > k
    <3>1. j - k \in 1 .. n - k /\ k + (j - k) = j /\ ~ (j <= k)
      BY <1>1, <2>2
    <3> QED BY <1>2, <1>3, <1>4, <1>5, <3>1
  <2> QED BY <1>1, <2>1, <2>2
<1>7. ab = t
  BY <1>4, <1>5, <1>6, SameWords
<1> QED BY <1>7 DEF ab, a, b

(* A word that is damaged differs.                                         *)
Damaged(words, i, d) == [words EXCEPT ![i] = (@ + d) % WordBase]

LEMMA DamagedWords ==
  ASSUME NEW words \in Seq(Word), NEW i \in DOMAIN words, NEW d \in Deltas,
         NEW t, t = Damaged(words, i, d)
  PROVE  /\ t \in Seq(Word) /\ Len(t) = Len(words) /\ t[i] # words[i]
         /\ \A j \in 1 .. Len(words) : j # i => t[j] = words[j]
<1>1. d \in Word \ {0} /\ WordBase \in Nat /\ WordBase > 0
  BY Bases, FilesAssumption DEF FilesAssumption
<1>2. words[i] \in Word /\ i \in 1 .. Len(words) /\ Len(words) \in Nat
  OBVIOUS
<1>3. t[i] = (words[i] + d) % WordBase /\ \A j \in 1 .. Len(words) : j # i => t[j] = words[j]
  BY <1>2 DEF Damaged
<1>4. (words[i] + d) % WordBase \in Word /\ (words[i] + d) % WordBase # words[i]
  <2> DEFINE a == words[i]
  <2>1. a \in 0 .. WordBase - 1 /\ d \in 0 .. WordBase - 1 /\ d # 0
    BY <1>1, <1>2 DEF Word
  <2> HIDE DEF a
  <2>2. (a + d) % WordBase = IF a + d < WordBase THEN a + d ELSE a + d - WordBase
    BY <1>1, <2>1, Remainders
  <2>3. (a + d) % WordBase \in 0 .. WordBase - 1 /\ (a + d) % WordBase # a
    BY <1>1, <2>1, <2>2
  <2> QED BY <2>3 DEF Word, a
<1>5. t \in Seq(Word) /\ Len(t) = Len(words)
  BY <1>2, <1>4 DEF Damaged
<1> QED BY <1>3, <1>4, <1>5

(* A file with a damaged word is not accepted, except for the load CRC.    *)
LEMMA DamagedFile ==
  ASSUME NEW f \in Contents, EncodableFile(f), NEW tail \in Tails(f.kind),
         NEW words, words = Whole(f, tail), NEW i \in DOMAIN words, NEW d \in Deltas,
         NEW t, t = Damaged(words, i, d)
  PROVE  \/ \A v : ~ HeaderAccepted(t, f.kind, v)
         \/ /\ f.kind = "loadHeader" /\ i > Len(words) - 2
            /\ \E other \in Tails(f.kind) : t = Whole(f, other)
<1> DEFINE c == CrcWords(f.kind)
           crc == Len(words) - c
           v == Covered(f)
           sum == <<Checksum(v)>>
<1>1. /\ words \in Seq(Word) /\ Len(words) = FileSize(f) /\ Read(words, 0, crc) = v
      /\ words[crc + 1] = Checksum(v)
  BY WholeWords
<1>2. /\ t \in Seq(Word) /\ Len(t) = Len(words) /\ t[i] # words[i]
      /\ \A j \in 1 .. Len(words) : j # i => t[j] = words[j]
  <2>1. words \in Seq(Word) /\ i \in DOMAIN words /\ d \in Deltas /\ t = Damaged(words, i, d)
    BY <1>1
  <2> QED BY ONLY <2>1, DamagedWords
<1>3. /\ v \in Seq(Word) /\ Len(v) = crc /\ Checksum(v) \in Word /\ c \in {1, 3}
      /\ crc \in Nat /\ Len(words) \in Nat
  <2>1. v \in Seq(Word) /\ Len(v) = FileSize(f) - c /\ Checksum(v) \in Word
    BY CoveredWords
  <2>2. c \in {1, 3}
    BY PointersOf
  <2> QED BY <1>1, <2>1, <2>2
<1>4. Read(t, 0, crc) \in Seq(Word) /\ Len(Read(t, 0, crc)) = crc
      /\ \A j \in 1 .. crc : Read(t, 0, crc)[j] = t[j] /\ v[j] = words[j]
  <2>1. Read(t, 0, crc) = SubSeq(t, 0 + 1, crc) /\ v = SubSeq(words, 0 + 1, crc)
    BY <1>1, <1>3 DEF Read
  <2> HIDE DEF v, crc
  <2>2. crc <= Len(t) /\ crc <= Len(words) /\ crc \in Nat /\ 0 <= crc
    <3>1. Len(t) = Len(words) /\ c \in {1, 3} /\ crc \in Nat /\ Len(words) \in Nat
      BY <1>2, <1>3
    <3> HIDE DEF c
    <3>2. crc = Len(words) - c
      BY DEF crc
    <3> QED BY <3>1, <3>2
  <2>3. /\ SubSeq(t, 0 + 1, crc) \in Seq(Word) /\ Len(SubSeq(t, 0 + 1, crc)) = crc - 0
        /\ \A j \in 1 .. crc - 0 : SubSeq(t, 0 + 1, crc)[j] = t[0 + j]
    BY <1>2, <2>2, Piece
  <2>4. \A j \in 1 .. crc - 0 : SubSeq(words, 0 + 1, crc)[j] = words[0 + j]
    <3> DEFINE k == 0
    <3>1. words \in Seq(Word) /\ k \in Nat /\ crc \in Nat /\ k <= crc /\ crc <= Len(words)
      BY <1>1, <2>2
    <3> HIDE DEF k
    <3>2. \A j \in 1 .. crc - k : SubSeq(words, k + 1, crc)[j] = words[k + j]
      BY ONLY <3>1, Piece
    <3> QED BY <3>2 DEF k
  <2>5. crc - 0 = crc /\ \A j \in 1 .. crc : 0 + j = j
    BY <2>2
  <2> QED BY <2>1, <2>3, <2>4, <2>5
<1> HIDE DEF v, crc, c
<1>5. CASE i <= crc
  <2>1. i \in 1 .. crc
    BY <1>1, <1>3, <1>5
  <2>2. Checksum(Read(t, 0, crc)) # Checksum(v)
    <3> DEFINE r == Read(t, 0, crc)
    <3>1. r \in Seq(Word) /\ Len(r) = Len(v) /\ i \in 1 .. Len(v) /\ v[i] # r[i]
          /\ \A j \in 1 .. Len(v) : j # i => v[j] = r[j]
      <4>1. \A j \in 1 .. crc : j \in 1 .. Len(words)
        BY <1>3 DEF crc
      <4>2. r \in Seq(Word) /\ Len(r) = Len(v)
        BY <1>3, <1>4
      <4>3. \A j \in 1 .. crc : r[j] = t[j] /\ v[j] = words[j]
        BY <1>4
      <4> HIDE DEF r
      <4> QED BY <1>2, <1>3, <2>1, <4>1, <4>2, <4>3
    <3> HIDE DEF r
    <3>2. Checksum(v) # Checksum(r)
      BY <1>3, <3>1, ChecksumsDiffer
    <3> QED BY <3>2 DEF r
  <2>3. t[crc + 1] = Checksum(v)
    <3>1. crc + 1 # i /\ crc + 1 \in 1 .. Len(words)
      BY <1>3, <1>5, <2>1 DEF crc
    <3> QED BY <1>1, <1>2, <3>1
  <2> QED BY <1>2, <2>2, <2>3 DEF HeaderAccepted, crc, c
<1>6. CASE i >= crc + 1
  <2>1. Read(t, 0, crc) = v
    <3> DEFINE r == Read(t, 0, crc)
    <3>1. r \in Seq(Word) /\ Len(r) = crc /\ \A j \in 1 .. crc : r[j] = v[j]
      <4>1. \A j \in 1 .. crc : j # i /\ j \in 1 .. Len(words)
        BY <1>3, <1>6 DEF crc
      <4> QED BY <1>2, <1>4, <4>1
    <3> HIDE DEF r
    <3>2. r = v
      BY <1>3, <3>1
    <3> QED BY <3>2 DEF r
  <2>2. CASE i = crc + 1
    <3>1. t[crc + 1] # Checksum(v)
      BY <1>1, <1>2, <2>2
    <3> QED BY <1>2, <2>1, <3>1 DEF HeaderAccepted, crc, c
  <2>3. CASE i > crc + 1
    <3>1. c = 3 /\ i > Len(words) - 2 /\ i <= Len(words)
      <4>1. i \in 1 .. Len(words)
        BY <1>1
      <4> QED BY <1>3, <2>3, <4>1 DEF crc
    <3>2. f.kind = "loadHeader"
      BY <3>1 DEF CrcWords, c
    <3> DEFINE other == SubSeq(t, crc + 2, Len(t))
    <3>3. crc + 3 = Len(t) /\ crc \in Nat /\ Len(t) \in Nat
      BY <1>2, <1>3, <3>1 DEF crc
    <3>4. other \in Seq(Word) /\ Len(other) = 2
      <4>1. crc + 1 \in Nat /\ crc + 1 <= Len(t) /\ (crc + 1) + 1 = crc + 2
            /\ Len(t) - (crc + 1) = 2
        BY <3>3
      <4>2. /\ SubSeq(t, (crc + 1) + 1, Len(t)) \in Seq(Word)
            /\ Len(SubSeq(t, (crc + 1) + 1, Len(t))) = Len(t) - (crc + 1)
        BY <1>2, <3>3, <4>1, Piece
      <4> QED BY <4>1, <4>2
    <3>5. t[crc + 1] = Checksum(v)
      <4>1. crc + 1 # i /\ crc + 1 \in 1 .. Len(words)
        BY <1>2, <2>3, <3>3
      <4> QED BY <1>1, <1>2, <4>1
    <3> DEFINE lead == SubSeq(t, 1, crc + 1)
    <3>6. t = lead \o other
      <4>1. crc + 1 \in Nat /\ crc + 1 <= Len(t) /\ (crc + 1) + 1 = crc + 2
        BY <3>3
      <4> QED BY <1>2, <4>1, Cut
    <3>7. lead = v \o sum
      <4>1. /\ lead \in Seq(Word) /\ Len(lead) = crc + 1
            /\ \A j \in 1 .. crc + 1 : lead[j] = t[j]
        <5>1. crc + 1 \in Nat /\ crc + 1 <= Len(t) /\ 0 <= crc + 1 /\ 0 + 1 = 1
              /\ (crc + 1) - 0 = crc + 1 /\ \A j \in 1 .. crc + 1 : 0 + j = j
          BY <3>3
        <5>2. /\ SubSeq(t, 0 + 1, crc + 1) \in Seq(Word)
              /\ Len(SubSeq(t, 0 + 1, crc + 1)) = (crc + 1) - 0
              /\ \A j \in 1 .. (crc + 1) - 0 : SubSeq(t, 0 + 1, crc + 1)[j] = t[0 + j]
          BY <1>2, <5>1, Piece
        <5> QED BY <5>1, <5>2
      <4>2. sum \in Seq(Word) /\ Len(sum) = 1 /\ sum[1] = Checksum(v)
        BY <1>3
      <4> HIDE DEF sum, lead
      <4> DEFINE vs == v \o sum
      <4>3. /\ vs \in Seq(Word) /\ Len(vs) = Len(v) + Len(sum)
            /\ \A j \in 1 .. Len(v) + Len(sum) :
                 vs[j] = IF j <= Len(v) THEN v[j] ELSE sum[j - Len(v)]
        BY <1>3, <4>2, Joined
      <4>4. Len(v) + Len(sum) = crc + 1
        BY <1>3, <3>3, <4>2
      <4> HIDE DEF vs
      <4>5. ASSUME NEW j \in 1 .. crc + 1
            PROVE  lead[j] = vs[j]
        <5>1. CASE j <= crc
          <6>1. j \in 1 .. crc
            BY <3>3, <5>1
          <6>2. j <= Len(v) /\ j \in 1 .. Len(v) + Len(sum)
            BY <1>3, <4>4, <5>1
          <6>3. vs[j] = v[j]
            BY <4>3, <6>2
          <6>4. lead[j] = t[j] /\ t[j] = v[j]
            BY <1>4, <2>1, <4>1, <6>1
          <6> QED BY <6>3, <6>4
        <5>2. CASE j = crc + 1
          <6>1. ~ (j <= Len(v)) /\ j - Len(v) = 1
            BY <1>3, <3>3, <5>2
          <6> QED BY <3>5, <4>1, <4>2, <4>3, <4>4, <5>2, <6>1
        <5> QED BY <3>3, <5>1, <5>2
      <4>6. lead = vs
        BY <4>1, <4>3, <4>4, <4>5, SameWords
      <4> QED BY <4>6 DEF vs
    <3>8. other \in Tails(f.kind)
      BY <3>1, <3>4 DEF Tails, c
    <3>9. t = Whole(f, other)
      BY <3>6, <3>7 DEF Whole, v
    <3>10. i > Len(words) - 2
      BY <3>1
    <3> HIDE DEF other
    <3> QED BY <3>2, <3>8, <3>9, <3>10
  <2> QED BY <1>3, <1>6, <2>2, <2>3
<1>7. i <= crc \/ i >= crc + 1
  <2>1. i \in Nat
    BY <1>1
  <2> QED BY <1>3, <2>1
<1> QED BY <1>5, <1>6, <1>7

-----------------------------------------------------------------------------
(* What every file that is decoded has.                                    *)

(* What every file that is decoded has, whether or not its counters fit.   *)
TypedAs(o, f) ==
  /\ o.kind = f.kind /\ o.version \in {2, 3}
  /\ "user" \in DOMAIN o => Len(o.user) % 2 = 0

LEMMA FailedIsNotOk == ~ Failed.ok
BY DEF Failed

LEMMA EvenUser ==
  ASSUME NEW u \in UserData, NEW w \in UserData, NEW x, x = IF u = <<>> THEN w ELSE u
  PROVE  Len(x) % 2 = 0
BY DEF UserData

LEMMA TypedLoadList ==
  ASSUME NEW f \in LoadList, f \in Contents, EncodableFile(f), NEW tail \in Tails(f.kind),
         NEW words, words = Whole(f, tail), NEW r \in LoadList,
         DecodedLoadList(r, words, f.version).ok
  PROVE  TypedAs(DecodedLoadList(r, words, f.version).value, f)
<1> DEFINE info == DecodedMediaInformation(words, Pointer(words, 4))
           loads == DecodedList([p \in Places(words) |-> DecodedLoadInfo(words, p)],
                                words, Pointer(words, 6))
           user == DecodedUserData(words, Pointer(words, 8), 0, r.kind, r.user)
           all == r.loads \o loads.value
           got == [r EXCEPT !.version = f.version, !.part = info.value.part, !.media =
                   info.value.media, !.loads = all, !.user = user.value]
<1>1. f.kind = "loadList" /\ r.kind = f.kind /\ f.version \in {2, 3}
  BY DEF LoadList, Supplement
<1>2. r = [kind |-> f.kind, version |-> r.version, part |-> r.part, media |-> r.media,
           loads |-> r.loads, user |-> r.user]
  BY <1>1 DEF LoadList
<1>3. DecodedLoadList(r, words, f.version) =
        IF info.ok /\ loads.ok /\ user.ok THEN Got(got, 0) ELSE Failed
  BY DEF DecodedLoadList
<1>4. DecodedLoadList(r, words, f.version).value = got
  <2> HIDE DEF info, loads, user, all, got
  <2> QED BY <1>3, FailedIsNotOk, GotFields
<1>5. user.value = IF f.user = <<>> THEN r.user ELSE f.user
  <2>1. /\ Sections(f)[3] = Packed(f.user) /\ Sections(f)[1] # <<>> /\ Sections(f)[2] # <<>>
    <3>1. LoadListFits(f)
      BY <1>1 DEF EncodableFile
    <3> QED BY <3>1, LoadListSectionsWords
  <2>2. UserRead(f, words, r.user).value = IF f.user = <<>> THEN r.user ELSE f.user
    <3>1. f.user \in UserData /\ f.kind \in {"fileList", "loadList", "batchList"}
      BY <1>1 DEF LoadList
    <3> QED BY <2>1, <3>1, ListFileParts
  <2>3. user = UserRead(f, words, r.user)
    BY <1>1 DEF UserRead, HasCheckValue
  <2> HIDE DEF user
  <2> QED BY <2>2, <2>3
<1> HIDE DEF info, loads, user, all
<1>6. got = [kind |-> f.kind, version |-> f.version, part |-> info.value.part,
             media |-> info.value.media, loads |-> all, user |-> user.value]
  <2> DEFINE o1 == [r EXCEPT !.version = f.version]
             o2 == [o1 EXCEPT !.part = info.value.part]
             o3 == [o2 EXCEPT !.media = info.value.media]
             o4 == [o3 EXCEPT !.loads = all]
             o5 == [o4 EXCEPT !.user = user.value]
  <2>1. got = o5
    OBVIOUS
  <2>2. o1 =
           [kind |-> f.kind, version |-> f.version, part |-> r.part, media |-> r.media,
            loads |-> r.loads, user |-> r.user]
    BY <1>2
  <2> HIDE DEF o1
  <2>3. o2 =
           [kind |-> f.kind, version |-> f.version, part |-> info.value.part, media |-> r.media,
            loads |-> r.loads, user |-> r.user]
    BY <2>2
  <2> HIDE DEF o2
  <2>4. o3 =
           [kind |-> f.kind, version |-> f.version, part |-> info.value.part,
            media |-> info.value.media, loads |-> r.loads, user |-> r.user]
    BY <2>3
  <2> HIDE DEF o3
  <2>5. o4 =
           [kind |-> f.kind, version |-> f.version, part |-> info.value.part,
            media |-> info.value.media, loads |-> all, user |-> r.user]
    BY <2>4
  <2> HIDE DEF o4
  <2>6. o5 =
           [kind |-> f.kind, version |-> f.version, part |-> info.value.part,
            media |-> info.value.media, loads |-> all, user |-> user.value]
    BY <2>5
  <2> HIDE DEF o5
  <2> QED BY <2>1, <2>6
<1>7. got.kind = f.kind /\ got.version = f.version /\ got.user = user.value
  <2> HIDE DEF got
  <2> QED BY <1>6
<1>8. Len(user.value) % 2 = 0
  <2>1. f.user \in UserData /\ r.user \in UserData
    BY DEF LoadList
  <2> QED BY <1>5, <2>1, EvenUser
<1> HIDE DEF got
<1> QED BY <1>1, <1>4, <1>7, <1>8 DEF TypedAs

LEMMA TypedBatchList ==
  ASSUME NEW f \in BatchList, f \in Contents, EncodableFile(f), NEW tail \in Tails(f.kind),
         NEW words, words = Whole(f, tail), NEW r \in BatchList,
         DecodedBatchList(r, words, f.version).ok
  PROVE  TypedAs(DecodedBatchList(r, words, f.version).value, f)
<1> DEFINE info == DecodedMediaInformation(words, Pointer(words, 4))
           batches == DecodedList([p \in Places(words) |-> DecodedBatchInfo(words, p)],
                                  words, Pointer(words, 6))
           user == DecodedUserData(words, Pointer(words, 8), 0, r.kind, r.user)
           got == [r EXCEPT !.version = f.version, !.part = info.value.part, !.media =
                   info.value.media, !.batches = batches.value, !.user = user.value]
<1>1. f.kind = "batchList" /\ r.kind = f.kind /\ f.version \in {2, 3}
  BY DEF BatchList, Supplement
<1>2. r = [kind |-> f.kind, version |-> r.version, part |-> r.part, media |-> r.media,
           batches |-> r.batches, user |-> r.user]
  BY <1>1 DEF BatchList
<1>3. DecodedBatchList(r, words, f.version) =
        IF info.ok /\ batches.ok /\ user.ok THEN Got(got, 0) ELSE Failed
  BY DEF DecodedBatchList
<1>4. DecodedBatchList(r, words, f.version).value = got
  <2> HIDE DEF info, batches, user, got
  <2> QED BY <1>3, FailedIsNotOk, GotFields
<1>5. user.value = IF f.user = <<>> THEN r.user ELSE f.user
  <2>1. /\ Sections(f)[3] = Packed(f.user) /\ Sections(f)[1] # <<>> /\ Sections(f)[2] # <<>>
    <3>1. BatchListFits(f)
      BY <1>1 DEF EncodableFile
    <3> QED BY <3>1, BatchListSectionsWords
  <2>2. UserRead(f, words, r.user).value = IF f.user = <<>> THEN r.user ELSE f.user
    <3>1. f.user \in UserData /\ f.kind \in {"fileList", "loadList", "batchList"}
      BY <1>1 DEF BatchList
    <3> QED BY <2>1, <3>1, ListFileParts
  <2>3. user = UserRead(f, words, r.user)
    BY <1>1 DEF UserRead, HasCheckValue
  <2> HIDE DEF user
  <2> QED BY <2>2, <2>3
<1> HIDE DEF info, batches, user
<1>6. got = [kind |-> f.kind, version |-> f.version, part |-> info.value.part,
             media |-> info.value.media, batches |-> batches.value, user |-> user.value]
  <2> DEFINE o1 == [r EXCEPT !.version = f.version]
             o2 == [o1 EXCEPT !.part = info.value.part]
             o3 == [o2 EXCEPT !.media = info.value.media]
             o4 == [o3 EXCEPT !.batches = batches.value]
             o5 == [o4 EXCEPT !.user = user.value]
  <2>1. got = o5
    OBVIOUS
  <2>2. o1 =
           [kind |-> f.kind, version |-> f.version, part |-> r.part, media |-> r.media,
            batches |-> r.batches, user |-> r.user]
    BY <1>2
  <2> HIDE DEF o1
  <2>3. o2 =
           [kind |-> f.kind, version |-> f.version, part |-> info.value.part, media |-> r.media,
            batches |-> r.batches, user |-> r.user]
    BY <2>2
  <2> HIDE DEF o2
  <2>4. o3 =
           [kind |-> f.kind, version |-> f.version, part |-> info.value.part,
            media |-> info.value.media, batches |-> r.batches, user |-> r.user]
    BY <2>3
  <2> HIDE DEF o3
  <2>5. o4 =
           [kind |-> f.kind, version |-> f.version, part |-> info.value.part,
            media |-> info.value.media, batches |-> batches.value, user |-> r.user]
    BY <2>4
  <2> HIDE DEF o4
  <2>6. o5 =
           [kind |-> f.kind, version |-> f.version, part |-> info.value.part,
            media |-> info.value.media, batches |-> batches.value, user |-> user.value]
    BY <2>5
  <2> HIDE DEF o5
  <2> QED BY <2>1, <2>6
<1>7. got.kind = f.kind /\ got.version = f.version /\ got.user = user.value
  <2> HIDE DEF got
  <2> QED BY <1>6
<1>8. Len(user.value) % 2 = 0
  <2>1. f.user \in UserData /\ r.user \in UserData
    BY DEF BatchList
  <2> QED BY <1>5, <2>1, EvenUser
<1> HIDE DEF got
<1> QED BY <1>1, <1>4, <1>7, <1>8 DEF TypedAs

LEMMA TypedFileList ==
  ASSUME NEW f \in FileList, f \in Contents, EncodableFile(f), NEW tail \in Tails(f.kind),
         NEW words, words = Whole(f, tail), NEW r \in FileList,
         DecodedFileList(r, words, f.version).ok
  PROVE  TypedAs(DecodedFileList(r, words, f.version).value, f)
<1> DEFINE v == f.version
           checkAt == IF v = 3 THEN Pointer(words, 10) ELSE 0
           info == DecodedMediaInformation(words, Pointer(words, 4))
           files == DecodedList([p \in Places(words) |-> DecodedFileInfo(v, words, p)],
                                words, Pointer(words, 6))
           user == DecodedUserData(words, Pointer(words, 8), checkAt, r.kind, r.user)
           check == Optional(checkAt, DecodedCheckValue(words, checkAt), NoCheckValue)
           verified == check.value.type # NotUsed =>
                         check.value = CheckValueOf(check.value.type, Read(words, 0, checkAt))
           got == [r EXCEPT !.version = f.version, !.part = info.value.part, !.media =
                   info.value.media, !.files = files.value, !.user = user.value, !.check =
                   check.value.type]
<1>1. f.kind = "fileList" /\ r.kind = f.kind /\ f.version \in {2, 3}
  BY DEF FileList, Supplement
<1>2. r = [kind |-> f.kind, version |-> r.version, part |-> r.part, media |-> r.media,
           files |-> r.files, user |-> r.user, check |-> r.check]
  BY <1>1 DEF FileList
<1>3. DecodedFileList(r, words, f.version) =
         IF info.ok /\ files.ok /\ user.ok /\ check.ok /\ verified THEN Got(got, 0) ELSE Failed
  BY DEF DecodedFileList
<1>4. DecodedFileList(r, words, f.version).value = got
  <2> HIDE DEF info, files, user, check, verified, checkAt, got
  <2> QED BY <1>3, FailedIsNotOk, GotFields
<1>5. user.value = IF f.user = <<>> THEN r.user ELSE f.user
  <2>1. /\ Sections(f)[3] = Packed(f.user) /\ Sections(f)[1] # <<>> /\ Sections(f)[2] # <<>>
    <3>1. FileListFits(f)
      BY <1>1 DEF EncodableFile
    <3> QED BY <3>1, FileListSectionsWords
  <2>2. UserRead(f, words, r.user).value = IF f.user = <<>> THEN r.user ELSE f.user
    <3>1. f.user \in UserData /\ f.kind \in {"fileList", "loadList", "batchList"}
      BY <1>1 DEF FileList
    <3> QED BY <2>1, <3>1, ListFileParts
  <2>3. user = UserRead(f, words, r.user)
    BY <1>1 DEF UserRead, HasCheckValue
  <2> HIDE DEF user
  <2> QED BY <2>2, <2>3
<1> HIDE DEF info, files, user, check, verified, checkAt
<1>6. got = [kind |-> f.kind, version |-> f.version, part |-> info.value.part,
             media |-> info.value.media, files |-> files.value, user |-> user.value,
             check |-> check.value.type]
  <2> DEFINE o1 == [r EXCEPT !.version = f.version]
             o2 == [o1 EXCEPT !.part = info.value.part]
             o3 == [o2 EXCEPT !.media = info.value.media]
             o4 == [o3 EXCEPT !.files = files.value]
             o5 == [o4 EXCEPT !.user = user.value]
             o6 == [o5 EXCEPT !.check = check.value.type]
  <2>1. got = o6
    OBVIOUS
  <2>2. o1 =
           [kind |-> f.kind, version |-> f.version, part |-> r.part, media |-> r.media,
            files |-> r.files, user |-> r.user, check |-> r.check]
    BY <1>2
  <2> HIDE DEF o1
  <2>3. o2 =
           [kind |-> f.kind, version |-> f.version, part |-> info.value.part, media |-> r.media,
            files |-> r.files, user |-> r.user, check |-> r.check]
    BY <2>2
  <2> HIDE DEF o2
  <2>4. o3 =
           [kind |-> f.kind, version |-> f.version, part |-> info.value.part,
            media |-> info.value.media, files |-> r.files, user |-> r.user, check |-> r.check]
    BY <2>3
  <2> HIDE DEF o3
  <2>5. o4 =
           [kind |-> f.kind, version |-> f.version, part |-> info.value.part,
            media |-> info.value.media, files |-> files.value, user |-> r.user,
            check |-> r.check]
    BY <2>4
  <2> HIDE DEF o4
  <2>6. o5 =
           [kind |-> f.kind, version |-> f.version, part |-> info.value.part,
            media |-> info.value.media, files |-> files.value, user |-> user.value,
            check |-> r.check]
    BY <2>5
  <2> HIDE DEF o5
  <2>7. o6 =
           [kind |-> f.kind, version |-> f.version, part |-> info.value.part,
            media |-> info.value.media, files |-> files.value, user |-> user.value,
            check |-> check.value.type]
    BY <2>6
  <2> HIDE DEF o6
  <2> QED BY <2>1, <2>7
<1>7. got.kind = f.kind /\ got.version = f.version /\ got.user = user.value
  <2> HIDE DEF got
  <2> QED BY <1>6
<1>8. Len(user.value) % 2 = 0
  <2>1. f.user \in UserData /\ r.user \in UserData
    BY DEF FileList
  <2> QED BY <1>5, <2>1, EvenUser
<1> HIDE DEF got
<1> QED BY <1>1, <1>4, <1>7, <1>8 DEF TypedAs

LEMMA TypedBatchFile ==
  ASSUME NEW f \in BatchFile, f \in Contents, EncodableFile(f), NEW tail \in Tails(f.kind),
         NEW words, words = Whole(f, tail), NEW r \in BatchFile,
         DecodedBatchFile(r, words, f.version).ok
  PROVE  TypedAs(DecodedBatchFile(r, words, f.version).value, f)
<1> DEFINE part == DecodedString(words, Pointer(words, 4))
           comment == DecodedString(words, part.at)
           targets == DecodedList([p \in Places(words) |-> DecodedTarget(words, p)],
                                  words, Pointer(words, 6))
           got == [r EXCEPT !.version = f.version, !.part = part.value, !.comment = comment.value,
                   !.targets = targets.value]
<1>1. f.kind = "batchFile" /\ r.kind = f.kind /\ f.version \in {2, 3}
  BY DEF BatchFile, Supplement
<1>2. r = [kind |-> f.kind, version |-> r.version, part |-> r.part, comment |-> r.comment,
           targets |-> r.targets]
  BY <1>1 DEF BatchFile
<1>3. DecodedBatchFile(r, words, f.version) =
        IF part.ok /\ comment.ok /\ targets.ok THEN Got(got, 0) ELSE Failed
  BY DEF DecodedBatchFile
<1>4. DecodedBatchFile(r, words, f.version).value = got
  <2> HIDE DEF part, comment, targets, got
  <2> QED BY <1>3, FailedIsNotOk, GotFields
<1> HIDE DEF part, comment, targets
<1>6. got = [kind |-> f.kind, version |-> f.version, part |-> part.value,
             comment |-> comment.value, targets |-> targets.value]
  <2> DEFINE o1 == [r EXCEPT !.version = f.version]
             o2 == [o1 EXCEPT !.part = part.value]
             o3 == [o2 EXCEPT !.comment = comment.value]
             o4 == [o3 EXCEPT !.targets = targets.value]
  <2>1. got = o4
    OBVIOUS
  <2>2. o1 =
           [kind |-> f.kind, version |-> f.version, part |-> r.part, comment |-> r.comment,
            targets |-> r.targets]
    BY <1>2
  <2> HIDE DEF o1
  <2>3. o2 =
           [kind |-> f.kind, version |-> f.version, part |-> part.value, comment |-> r.comment,
            targets |-> r.targets]
    BY <2>2
  <2> HIDE DEF o2
  <2>4. o3 =
           [kind |-> f.kind, version |-> f.version, part |-> part.value,
            comment |-> comment.value, targets |-> r.targets]
    BY <2>3
  <2> HIDE DEF o3
  <2>5. o4 =
           [kind |-> f.kind, version |-> f.version, part |-> part.value,
            comment |-> comment.value, targets |-> targets.value]
    BY <2>4
  <2> HIDE DEF o4
  <2> QED BY <2>1, <2>5
<1>7. got.kind = f.kind /\ got.version = f.version /\ "user" \notin DOMAIN got
  <2> HIDE DEF got
  <2> QED BY <1>6
<1> HIDE DEF got
<1> QED BY <1>1, <1>4, <1>7 DEF TypedAs

LEMMA TypedLoadHeader ==
  ASSUME NEW f \in LoadHeader, f \in Contents, EncodableFile(f), NEW tail \in Tails(f.kind),
         NEW words, words = Whole(f, tail), NEW r \in LoadHeader,
         DecodedLoadHeader(r, words, f.version).ok
  PROVE  TypedAs(DecodedLoadHeader(r, words, f.version).value, f)
<1> DEFINE v == f.version
           typeAt == IF v = 3 THEN Pointer(words, 14) ELSE 0
           positionsAt == IF v = 3 THEN Pointer(words, 16) ELSE 0
           checkAt == IF v = 3 THEN Pointer(words, 18) ELSE 0
           part == DecodedString(words, Pointer(words, 4))
           type == Optional(typeAt, DecodedLoadType(words, typeAt), r.type)
           thw == DecodedStrings(words, Pointer(words, 6))
           positions ==
             Optional(positionsAt,
                      DecodedMany([p \in Places(words) |-> DecodedPositions(words, p)],
                                  words, positionsAt),
                      r.positions)
           data == DecodedList([p \in Places(words) |-> DecodedDataFile(v, words, p)],
                               words, Pointer(words, 8))
           support == Optional(Pointer(words, 10),
                               DecodedList([p \in Places(words) |->
                                              DecodedSupportFile(v, words, p)],
                                           words, Pointer(words, 10)),
                               r.support)
           user == DecodedUserData(words, Pointer(words, 12), checkAt, r.kind, r.user)
           check == Optional(checkAt, DecodedCheckValue(words, checkAt), NoCheckValue)
           flags == IF v = 3 THEN words[4] ELSE r.flags
           got == [r EXCEPT !.version = f.version, !.flags = flags, !.part = part.value, !.type =
                   type.value, !.thw = thw.value, !.positions = positions.value, !.data =
                   data.value, !.support = support.value, !.user = user.value, !.check =
                   check.value.type]
<1>1. f.kind = "loadHeader" /\ r.kind = f.kind /\ f.version \in {2, 3}
  BY DEF LoadHeader, Supplement
<1>2. r = [kind |-> f.kind, version |-> r.version, flags |-> r.flags, part |-> r.part,
           type |-> r.type, thw |-> r.thw, positions |-> r.positions, data |-> r.data,
           support |-> r.support, user |-> r.user, check |-> r.check]
  BY <1>1 DEF LoadHeader
<1>3. DecodedLoadHeader(r, words, f.version) =
        IF /\ part.ok /\ type.ok /\ thw.ok /\ positions.ok /\ data.ok /\ support.ok
           /\ user.ok /\ check.ok THEN Got(got, 0) ELSE Failed
  BY DEF DecodedLoadHeader
<1>4. DecodedLoadHeader(r, words, f.version).value = got
  <2> HIDE DEF part, type, thw, positions, data, support, user, check, flags, typeAt, positionsAt,
               checkAt, got
  <2> QED BY <1>3, FailedIsNotOk, GotFields
<1>5. user.value = IF f.user = <<>> THEN r.user ELSE f.user
  <2> DEFINE read == DecodedUserData(words, Pointer(words, 12), checkAt, f.kind, r.user)
  <2>1. read.value = IF f.user = <<>> THEN r.user ELSE f.user
    BY LoadHeaderUserRead
  <2>2. user = read
    BY <1>1
  <2> HIDE DEF user, read
  <2> QED BY <2>1, <2>2
<1> HIDE DEF part, type, thw, positions, data, support, user, check, flags, typeAt, positionsAt,
             checkAt
<1>6. got = [kind |-> f.kind, version |-> f.version, flags |-> flags, part |-> part.value,
             type |-> type.value, thw |-> thw.value, positions |-> positions.value,
             data |-> data.value, support |-> support.value, user |-> user.value,
             check |-> check.value.type]
  <2> DEFINE o1 == [r EXCEPT !.version = f.version]
             o2 == [o1 EXCEPT !.flags = flags]
             o3 == [o2 EXCEPT !.part = part.value]
             o4 == [o3 EXCEPT !.type = type.value]
             o5 == [o4 EXCEPT !.thw = thw.value]
             o6 == [o5 EXCEPT !.positions = positions.value]
             o7 == [o6 EXCEPT !.data = data.value]
             o8 == [o7 EXCEPT !.support = support.value]
             o9 == [o8 EXCEPT !.user = user.value]
             o10 == [o9 EXCEPT !.check = check.value.type]
  <2>1. got = o10
    OBVIOUS
  <2>2. o1 =
           [kind |-> f.kind, version |-> f.version, flags |-> r.flags, part |-> r.part,
            type |-> r.type, thw |-> r.thw, positions |-> r.positions, data |-> r.data,
            support |-> r.support, user |-> r.user, check |-> r.check]
    BY <1>2
  <2> HIDE DEF o1
  <2>3. o2 =
           [kind |-> f.kind, version |-> f.version, flags |-> flags, part |-> r.part,
            type |-> r.type, thw |-> r.thw, positions |-> r.positions, data |-> r.data,
            support |-> r.support, user |-> r.user, check |-> r.check]
    BY <2>2
  <2> HIDE DEF o2
  <2>4. o3 =
           [kind |-> f.kind, version |-> f.version, flags |-> flags, part |-> part.value,
            type |-> r.type, thw |-> r.thw, positions |-> r.positions, data |-> r.data,
            support |-> r.support, user |-> r.user, check |-> r.check]
    BY <2>3
  <2> HIDE DEF o3
  <2>5. o4 =
           [kind |-> f.kind, version |-> f.version, flags |-> flags, part |-> part.value,
            type |-> type.value, thw |-> r.thw, positions |-> r.positions, data |-> r.data,
            support |-> r.support, user |-> r.user, check |-> r.check]
    BY <2>4
  <2> HIDE DEF o4
  <2>6. o5 =
           [kind |-> f.kind, version |-> f.version, flags |-> flags, part |-> part.value,
            type |-> type.value, thw |-> thw.value, positions |-> r.positions, data |-> r.data,
            support |-> r.support, user |-> r.user, check |-> r.check]
    BY <2>5
  <2> HIDE DEF o5
  <2>7. o6 =
           [kind |-> f.kind, version |-> f.version, flags |-> flags, part |-> part.value,
            type |-> type.value, thw |-> thw.value, positions |-> positions.value,
            data |-> r.data, support |-> r.support, user |-> r.user, check |-> r.check]
    BY <2>6
  <2> HIDE DEF o6
  <2>8. o7 =
           [kind |-> f.kind, version |-> f.version, flags |-> flags, part |-> part.value,
            type |-> type.value, thw |-> thw.value, positions |-> positions.value,
            data |-> data.value, support |-> r.support, user |-> r.user, check |-> r.check]
    BY <2>7
  <2> HIDE DEF o7
  <2>9. o8 =
           [kind |-> f.kind, version |-> f.version, flags |-> flags, part |-> part.value,
            type |-> type.value, thw |-> thw.value, positions |-> positions.value,
            data |-> data.value, support |-> support.value, user |-> r.user, check |-> r.check]
    BY <2>8
  <2> HIDE DEF o8
  <2>10. o9 =
           [kind |-> f.kind, version |-> f.version, flags |-> flags, part |-> part.value,
            type |-> type.value, thw |-> thw.value, positions |-> positions.value,
            data |-> data.value, support |-> support.value, user |-> user.value,
            check |-> r.check]
    BY <2>9
  <2> HIDE DEF o9
  <2>11. o10 =
           [kind |-> f.kind, version |-> f.version, flags |-> flags, part |-> part.value,
            type |-> type.value, thw |-> thw.value, positions |-> positions.value,
            data |-> data.value, support |-> support.value, user |-> user.value,
            check |-> check.value.type]
    BY <2>10
  <2> HIDE DEF o10
  <2> QED BY <2>1, <2>11
<1>7. got.kind = f.kind /\ got.version = f.version /\ got.user = user.value
  <2> HIDE DEF got
  <2> QED BY <1>6
<1>8. Len(user.value) % 2 = 0
  <2>1. f.user \in UserData /\ r.user \in UserData
    BY DEF LoadHeader
  <2> QED BY <1>5, <2>1, EvenUser
<1> HIDE DEF got
<1> QED BY <1>1, <1>4, <1>7, <1>8 DEF TypedAs

(* That holds of all kinds of files.                                       *)
LEMMA DecodedIsTyped ==
  ASSUME NEW f \in Contents, EncodableFile(f), NEW tail \in Tails(f.kind),
         NEW o \in Contents, o.kind = f.kind, DecodedFile(o, Whole(f, tail)).ok
  PROVE  TypedAs(DecodedFile(o, Whole(f, tail)).value, f)
<1> DEFINE words == Whole(f, tail)
           r == Reset(o)
<1>1. DecodedFile(o, words) = DecodedBody(r, words, f.version)
  BY Opened
<1>2. <<>> \in Seq(HardwarePositions) /\ <<>> \in UserData /\ NotUsed \in CheckType
  BY FilesAssumption DEF FilesAssumption, UserData, Text
<1>3. CASE f \in LoadHeader /\ f.kind = "loadHeader"
  <2>1. o \in LoadHeader
        /\ r = [o EXCEPT !.type = <<>>, !.positions = <<>>, !.user = <<>>, !.check = NotUsed]
    BY <1>3, ObjectKinds DEF Reset
  <2>2. o = [kind |-> o.kind, version |-> o.version, flags |-> o.flags, part |-> o.part,
             type |-> o.type, thw |-> o.thw, positions |-> o.positions, data |-> o.data,
             support |-> o.support, user |-> o.user, check |-> o.check]
    BY <2>1 DEF LoadHeader
  <2>3. r = [kind |-> o.kind, version |-> o.version, flags |-> o.flags, part |-> o.part,
             type |-> <<>>, thw |-> o.thw, positions |-> <<>>, data |-> o.data,
             support |-> o.support, user |-> <<>>, check |-> NotUsed]
    <3>0. r = [o EXCEPT !.type = <<>>, !.positions = <<>>, !.user = <<>>, !.check = NotUsed]
      BY <2>1
    <3> HIDE DEF r
    <3> DEFINE o1 == [o EXCEPT !.type = <<>>]
               o2 == [o1 EXCEPT !.positions = <<>>]
               o3 == [o2 EXCEPT !.user = <<>>]
               o4 == [o3 EXCEPT !.check = NotUsed]
    <3>1. [o EXCEPT !.type = <<>>, !.positions = <<>>, !.user = <<>>, !.check = NotUsed] = o4
      OBVIOUS
    <3>2. o1 =
             [kind |-> o.kind, version |-> o.version, flags |-> o.flags, part |-> o.part,
              type |-> <<>>, thw |-> o.thw, positions |-> o.positions, data |-> o.data,
              support |-> o.support, user |-> o.user, check |-> o.check]
      BY <2>2
    <3> HIDE DEF o1
    <3>3. o2 =
             [kind |-> o.kind, version |-> o.version, flags |-> o.flags, part |-> o.part,
              type |-> <<>>, thw |-> o.thw, positions |-> <<>>, data |-> o.data,
              support |-> o.support, user |-> o.user, check |-> o.check]
      BY <3>2
    <3> HIDE DEF o2
    <3>4. o3 =
             [kind |-> o.kind, version |-> o.version, flags |-> o.flags, part |-> o.part,
              type |-> <<>>, thw |-> o.thw, positions |-> <<>>, data |-> o.data,
              support |-> o.support, user |-> <<>>, check |-> o.check]
      BY <3>3
    <3> HIDE DEF o3
    <3>5. o4 =
             [kind |-> o.kind, version |-> o.version, flags |-> o.flags, part |-> o.part,
              type |-> <<>>, thw |-> o.thw, positions |-> <<>>, data |-> o.data,
              support |-> o.support, user |-> <<>>, check |-> NotUsed]
      BY <3>4
    <3> HIDE DEF o4
    <3> QED BY <3>0, <3>1, <3>5
  <2> HIDE DEF r
  <2>4. r \in LoadHeader
    <3>1. /\ o.kind \in {"loadHeader"} /\ o.version \in Supplement /\ o.flags \in Word
          /\ o.part \in Text /\ o.thw \in Seq(Text) /\ o.data \in Seq(LoadFile)
          /\ o.support \in Seq(LoadFile)
      BY <2>1 DEF LoadHeader
    <3> QED BY <1>2, <2>3, <3>1 DEF LoadHeader
  <2>5. DecodedFile(o, words) = DecodedLoadHeader(r, words, f.version)
    <3>1. r.kind = "loadHeader"
      BY <1>3, <2>3
    <3> QED BY <1>1, <3>1 DEF DecodedBody
  <2>6. TypedAs(DecodedLoadHeader(r, words, f.version).value, f)
    <3>1. DecodedLoadHeader(r, words, f.version).ok
      BY <2>5
    <3> HIDE DEF words
    <3>2. words = Whole(f, tail)
      BY DEF words
    <3> QED BY <1>3, <2>4, <3>1, <3>2, TypedLoadHeader
  <2> QED BY <2>5, <2>6
<1>4. CASE f \in FileList /\ f.kind = "fileList"
  <2>1. o \in FileList /\ r = [o EXCEPT !.check = NotUsed]
    BY <1>4, ObjectKinds DEF Reset
  <2>2. r \in FileList /\ r.kind = "fileList"
    <3> HIDE DEF r
    <3> QED BY <1>2, <2>1 DEF FileList
  <2> HIDE DEF r
  <2>3. DecodedFile(o, words) = DecodedFileList(r, words, f.version)
    BY <1>1, <2>2 DEF DecodedBody
  <2>4. TypedAs(DecodedFileList(r, words, f.version).value, f)
    <3>1. DecodedFileList(r, words, f.version).ok /\ words = Whole(f, tail)
      BY <2>3
    <3> HIDE DEF words
    <3> QED BY <1>4, <2>2, <3>1, TypedFileList
  <2> QED BY <2>3, <2>4
<1>5. CASE f \in LoadList /\ f.kind = "loadList"
  <2>1. o \in LoadList /\ r = o /\ o.kind = "loadList"
    BY <1>5, ObjectKinds DEF Reset
  <2>2. DecodedFile(o, words) = DecodedLoadList(o, words, f.version)
    BY <1>1, <2>1 DEF DecodedBody
  <2>3. TypedAs(DecodedLoadList(o, words, f.version).value, f)
    <3>1. DecodedLoadList(o, words, f.version).ok /\ words = Whole(f, tail)
      BY <2>2
    <3> HIDE DEF words
    <3> QED BY <1>5, <2>1, <3>1, TypedLoadList
  <2> QED BY <2>2, <2>3
<1>6. CASE f \in BatchList /\ f.kind = "batchList"
  <2>1. o \in BatchList /\ r = o /\ o.kind = "batchList"
    BY <1>6, ObjectKinds DEF Reset
  <2>2. DecodedFile(o, words) = DecodedBatchList(o, words, f.version)
    BY <1>1, <2>1 DEF DecodedBody
  <2>3. TypedAs(DecodedBatchList(o, words, f.version).value, f)
    <3>1. DecodedBatchList(o, words, f.version).ok /\ words = Whole(f, tail)
      BY <2>2
    <3> HIDE DEF words
    <3> QED BY <1>6, <2>1, <3>1, TypedBatchList
  <2> QED BY <2>2, <2>3
<1>7. CASE f \in BatchFile /\ f.kind = "batchFile"
  <2>1. o \in BatchFile /\ r = o /\ o.kind = "batchFile"
    BY <1>7, ObjectKinds DEF Reset
  <2>2. DecodedFile(o, words) = DecodedBatchFile(o, words, f.version)
    BY <1>1, <2>1 DEF DecodedBody
  <2>3. TypedAs(DecodedBatchFile(o, words, f.version).value, f)
    <3>1. DecodedBatchFile(o, words, f.version).ok /\ words = Whole(f, tail)
      BY <2>2
    <3> HIDE DEF words
    <3> QED BY <1>7, <2>1, <3>1, TypedBatchFile
  <2> QED BY <2>2, <2>3
<1> QED BY <1>3, <1>4, <1>5, <1>6, <1>7, Kinds

-----------------------------------------------------------------------------
(* Encoding, and what is stored into a load header afterwards.             *)

LEMMA StandsItself ==
  ASSUME NEW s \in Seq(Word), NEW t \in Seq(Word), NEW u \in Seq(Word)
  PROVE  Stands(s \o t \o u, 0, s \o t \o u, Len(s \o t \o u))
<1> DEFINE words == s \o t \o u
<1>1. words \in Seq(Word)
  <2>1. s \o t \in Seq(Word)
    BY ConcatProperties
  <2> QED BY <2>1, ConcatProperties
<1> HIDE DEF words
<1>2. Len(words) \in Nat /\ 0 \in Nat /\ \A i \in 1 .. Len(words) : words[0 + i] = words[i]
  BY <1>1
<1>3. Stands(words, 0, words, Len(words))
  BY <1>1, <1>2 DEF Stands, Holds
<1> QED BY <1>3 DEF words

Ended(words, v, one, tail) ==
  /\ words \in Seq(Word) /\ Len(words) = Len(v) + 1 + Len(tail)
  /\ Stands(words, 0, v, Len(v))
  /\ Read(words, 0, Len(v) + 1) = v \o one
  /\ SubSeq(words, Len(v) + 2, Len(words)) = tail

(* A file is split into what the CRC covers, the CRC and the load CRC.     *)
LEMMA Concluded ==
  ASSUME NEW v \in Seq(Word), NEW one \in Seq(Word), Len(one) = 1, NEW tail \in Seq(Word),
         NEW words, Stands(words, 0, v \o one \o tail, Len(words))
  PROVE  Ended(words, v, one, tail)
<1>1. PICK l, m : Stands(words, 0, v, l) /\ Stands(words, l, one, m)
                  /\ Stands(words, m, tail, Len(words))
  BY Split3
<1>2. /\ words \in Seq(Word) /\ l = Len(v) /\ m = Len(v) + 1 /\ Len(words) = m + Len(tail)
      /\ m \in Nat /\ Len(v) \in Nat /\ Len(tail) \in Nat
  <2>1. /\ words \in Seq(Word) /\ l = 0 + Len(v) /\ m = l + Len(one) /\ Len(words) = m + Len(tail)
    BY <1>1 DEF Stands
  <2>5. Len(v) \in Nat /\ Len(tail) \in Nat
    OBVIOUS
  <2>2. l = Len(v)
    BY <2>1, <2>5
  <2>3. m = Len(v) + 1
    BY <2>1, <2>2
  <2>4. m \in Nat
    BY <2>3, <2>5
  <2> QED BY <2>1, <2>2, <2>3, <2>4, <2>5
<1>3. Read(words, m, Len(tail)) = tail
  BY <1>1, <1>2, HeldRead DEF Stands
<1>4. SubSeq(words, Len(v) + 2, Len(words)) = tail
  <2>1. m + 1 = Len(v) + 2 /\ m + Len(tail) = Len(words)
    BY <1>2
  <2> QED BY <1>3, <2>1 DEF Read
<1>5. Read(words, 0, Len(v) + 1) = v \o one
  <2> DEFINE head == v \o one
  <2>1. head \in Seq(Word)
    BY ConcatProperties
  <2>2. Len(head) = Len(v) + Len(one)
    BY ConcatProperties
  <2> HIDE DEF head
  <2>3. Stands(words, 0, head \o tail, Len(words))
    BY DEF head
  <2>4. PICK k : Stands(words, 0, head, k)
    BY <2>1, <2>3, Split2
  <2>5. Read(words, 0, Len(head)) = head
    BY <1>2, <2>1, <2>4, HeldRead DEF Stands
  <2> QED BY <2>2, <2>5 DEF head
<1>6. Stands(words, 0, v, Len(v)) /\ Len(words) = Len(v) + 1 + Len(tail) /\ words \in Seq(Word)
  BY <1>1, <1>2
<1> QED BY <1>4, <1>5, <1>6 DEF Ended

Zeros(kind) == [i \in 1 .. CrcWords(kind) - 1 |-> 0]

LEMMA ZerosAreTail ==
  ASSUME NEW f \in Contents
  PROVE  Zeros(f.kind) \in Tails(f.kind) /\ Zeros(f.kind) \in Seq(Word)
<1> DEFINE n == CrcWords(f.kind) - 1
<1>1. n \in Nat
  <2>1. CrcWords(f.kind) \in {1, 3}
    BY PointersOf
  <2> QED BY <2>1
<1>2. 0 \in Word
  BY Bases DEF Word
<1>3. Zeros(f.kind) = [i \in 1 .. n |-> 0]
  BY DEF Zeros
<1> HIDE DEF n
<1>4. Zeros(f.kind) \in Seq(Word) /\ Len(Zeros(f.kind)) = n
  BY <1>1, <1>2, <1>3
<1> QED BY <1>4 DEF Tails, n

(* Only load headers of Supplement 3 are not complete after encode.        *)
LEMMA EncodedIsWhole ==
  ASSUME NEW f \in Contents, ~ (f.kind = "loadHeader" /\ f.version = 3)
  PROVE  EncodedFile(f) = Whole(f, Zeros(f.kind))
<1>1. EncodedFile(f) = WithCrc(Lead(f) \o CheckValueWords(f, Lead(f)), f.kind)
  BY DEF EncodedFile, Lead
<1>2. CheckValueWords(f, Lead(f)) = CheckWords(f)
  <2>1. CASE f.kind = "fileList" /\ f.version = 3
    BY <2>1 DEF CheckValueWords, CheckWords, HasCheckValue
  <2>2. CASE ~ (f.kind = "fileList" /\ f.version = 3)
    <3>1. ~ HasCheckValue(f.kind, f.version)
      BY <2>2 DEF HasCheckValue
    <3> QED BY <2>2, <3>1, Room DEF CheckValueWords, CheckWords
  <2> QED BY <2>1, <2>2
<1> QED BY <1>1, <1>2 DEF WithCrc, Whole, Covered, Zeros

(* Where StoreLoadCheckValue finds the room for the check value.           *)
LEMMA RoomIsEncoded ==
  ASSUME NEW f \in Contents, EncodableFile(f), f.kind = "loadHeader", f.version = 3,
         NEW words, words = EncodedFile(f)
  PROVE  /\ words \in Seq(Word) /\ Pointer(words, 18) = Start(f, 8)
         /\ Read(words, 0, Start(f, 8)) = Lead(f)
         /\ SubSeq(words, (Len(words) - CrcWords(f.kind)) + 2, Len(words)) = Zeros(f.kind)
<1> DEFINE room == CheckValueRoom(f)
           v == Lead(f) \o room
           h == Header(f)
           s == FlattenSeq(Sections(f))
<1>1. words = v \o <<Checksum(v)>> \o Zeros(f.kind)
  BY DEF EncodedFile, Lead, CheckValueWords, WithCrc, Zeros
<1>2. SectionCount(f.kind) = 7 /\ CrcWords(f.kind) = 3 /\ HasCheckValue(f.kind, f.version)
  BY DEF SectionCount, CrcWords, HasCheckValue
<1>3. 7 + 1 = 8
  OBVIOUS
<1>4. Lead(f) \in Seq(Word) /\ Len(Lead(f)) = Start(f, 8)
  BY <1>2, <1>3, CoveredWords
<1>5. room \in Seq(Word) /\ room # <<>>
  BY <1>2, Room
<1>6. v \in Seq(Word)
  BY <1>4, <1>5, ConcatProperties
<1>7. Checksum(v) \in Word /\ Zeros(f.kind) \in Seq(Word) /\ Len(Zeros(f.kind)) = 2
  <2>1. Zeros(f.kind) \in Seq(Word) /\ Len(Zeros(f.kind)) = CrcWords(f.kind) - 1
    BY ZerosAreTail DEF Tails
  <2>2. Checksum(v) \in Word
    BY <1>6, ChecksumWord
  <2>3. CrcWords(f.kind) - 1 = 2
    BY <1>2
  <2> HIDE DEF v
  <2> QED BY <2>1, <2>2, <2>3
<1>8. h \in Seq(Word) /\ s \in Seq(Word) /\ Lead(f) = h \o s
  BY HeaderWords, FlattenedWords, Starts DEF Lead
<1> HIDE DEF room, v, h, s
<1>9. /\ words \in Seq(Word) /\ Len(words) = Len(v) + 1 + 2
      /\ Stands(words, 0, v, Len(v)) /\ SubSeq(words, Len(v) + 2, Len(words)) = Zeros(f.kind)
  <2> DEFINE one == <<Checksum(v)>>
             tail == Zeros(f.kind)
  <2>1. words = v \o one \o tail /\ v \in Seq(Word) /\ one \in Seq(Word) /\ Len(one) = 1
        /\ tail \in Seq(Word) /\ Len(tail) = 2
    BY <1>1, <1>6, <1>7
  <2> HIDE DEF one, tail
  <2>3. Stands(words, 0, v \o one \o tail, Len(words))
    BY <2>1, StandsItself
  <2>2. Ended(words, v, one, tail)
    BY <2>1, <2>3, Concluded
  <2>4. /\ words \in Seq(Word) /\ Len(words) = Len(v) + 1 + Len(tail)
        /\ Stands(words, 0, v, Len(v)) /\ SubSeq(words, Len(v) + 2, Len(words)) = tail
    BY <2>2 DEF Ended
  <2> QED BY <2>1, <2>4 DEF tail
<1>10. PICK l : Stands(words, 0, Lead(f), l)
  BY <1>4, <1>5, <1>9, Split2 DEF v
<1>11. Read(words, 0, Start(f, 8)) = Lead(f)
  BY <1>4, <1>9, <1>10, HeldRead DEF Stands
<1>12. PICK g : Stands(words, 0, h, g)
  BY <1>8, <1>10, Split2
<1>13. Pointer(words, 18) = PointerTo(f, 8)
  <2>1. Pointers(f.kind, f.version) = <<1, 3, 5, 6, 7, 2, 4, 8>>
    BY DEF Pointers
  <2>2. \A k \in 1 .. Len(Pointers(f.kind, f.version)) :
          Pointer(words, 2 + 2 * k) = PointerTo(f, Pointers(f.kind, f.version)[k])
    BY <1>12, HeaderWords DEF h
  <2>3. 8 \in 1 .. Len(Pointers(f.kind, f.version)) /\ Pointers(f.kind, f.version)[8] = 8
    BY <2>1
  <2>4. Pointer(words, 2 + 2 * 8) = PointerTo(f, 8)
    BY <2>2, <2>3
  <2>5. 2 + 2 * 8 = 18
    OBVIOUS
  <2> QED BY <2>4, <2>5
<1>14. PointerTo(f, 8) = Start(f, 8)
  <2>1. AllSections(f)[8] = room
    BY <1>2, <1>3, Starts DEF room
  <2> QED BY <1>5, <2>1 DEF PointerTo
<1>15. (Len(words) - CrcWords(f.kind)) + 2 = Len(v) + 2
  <2>1. Len(v) \in Nat
    BY <1>6
  <2> QED BY <1>2, <1>9, <2>1
<1> QED BY <1>9, <1>11, <1>13, <1>14, <1>15

(* With its check value a load header is complete but for the load CRC.    *)
LEMMA CheckValueStored ==
  ASSUME file \in Contents, EncodableFile(file), file.kind = "loadHeader", file.version = 3
  PROVE  WithLoadCheckValue(EncodedFile(file)) = Whole(file, Zeros(file.kind))
<1> DEFINE words == EncodedFile(file)
<1>1. /\ words \in Seq(Word) /\ Pointer(words, 18) = Start(file, 8)
      /\ Read(words, 0, Start(file, 8)) = Lead(file)
      /\ SubSeq(words, (Len(words) - CrcWords(file.kind)) + 2, Len(words)) = Zeros(file.kind)
  BY RoomIsEncoded
<1>2. EncodedCheckValue(CheckValueOf(file.check, Lead(file))) = CheckWords(file)
  BY DEF CheckWords, HasCheckValue
<1> HIDE DEF words
<1>3. WithLoadCheckValue(words) =
        Lead(file) \o CheckWords(file) \o <<Checksum(Lead(file) \o CheckWords(file))>>
          \o Zeros(file.kind)
  BY <1>1, <1>2 DEF WithLoadCheckValue
<1> QED BY <1>3 DEF words, Whole, Covered

(* The load CRC replaces the one that was there.                           *)
LEMMA LoadCrcStored ==
  ASSUME NEW f \in Contents, EncodableFile(f), f.kind = "loadHeader", NEW tail \in Tails(f.kind),
         NEW crc \in LoadCrcs, NEW words, words = Whole(f, tail)
  PROVE  /\ Double(crc) \in Tails(f.kind)
         /\ Read(words, 0, Len(words) - 2) \o Double(crc) = Whole(f, Double(crc))
<1> DEFINE v == Covered(f)
           one == <<Checksum(v)>>
<1>1. crc \in DoubleWord /\ CrcWords(f.kind) = 3 /\ 3 - 1 = 2
  BY FilesAssumption DEF FilesAssumption, CrcWords
<1>2. Double(crc) \in Tails(f.kind)
  BY <1>1, DoubleDigits DEF Tails
<1>3. v \in Seq(Word) /\ one \in Seq(Word) /\ Len(one) = 1
  BY CoveredWords
<1>4. tail \in Seq(Word) /\ Len(tail) = 2 /\ words = v \o one \o tail
  BY <1>1 DEF Tails, Whole
<1> HIDE DEF v, one
<1>5. Len(words) = Len(v) + 1 + 2 /\ Read(words, 0, Len(v) + 1) = v \o one
  <2>1. Len(words) = Len(v) + 1 + Len(tail) /\ Read(words, 0, Len(v) + 1) = v \o one
    <3>1. Stands(words, 0, v \o one \o tail, Len(words))
      BY <1>3, <1>4, StandsItself
    <3>2. Ended(words, v, one, tail)
      BY <1>3, <1>4, <3>1, Concluded
    <3> QED BY <3>2 DEF Ended
  <2> QED BY <1>4, <2>1
<1>6. Len(words) - 2 = Len(v) + 1
  <2>1. Len(v) \in Nat
    BY <1>3
  <2> QED BY <1>5, <2>1
<1>7. Read(words, 0, Len(words) - 2) \o Double(crc) = v \o one \o Double(crc)
  BY <1>5, <1>6
<1> QED BY <1>2, <1>7 DEF Whole, v, one

-----------------------------------------------------------------------------
(* The inductive invariant.                                                *)

(* The setters keep the kind of a content.                                 *)
LEMMA ContentKind ==
  ASSUME NEW g \in Files \cup Before
  PROVE  Content(g) \in Contents /\ Content(g).kind = g.kind
<1> DEFINE c == Content(g)
<1>1. c \in Contents
  BY FilesAssumption DEF FilesAssumption
<1>2. "kind" \in DOMAIN c
  BY <1>1 DEF Contents, LoadHeader, FileList, LoadList, BatchList, BatchFile
<1>3. CASE g.kind = "batchFile"
  <2>1. c = g
    BY <1>3 DEF Content
  <2> QED BY <1>1, <2>1
<1>4. CASE g.kind = "loadHeader"
  <2> DEFINE d == [g EXCEPT !.user = Padded(@)]
             positions == SelectSeq(g.positions, LAMBDA p : p.positions # <<>>)
             e == [d EXCEPT !.positions = positions]
  <2>1. c = [g EXCEPT !.user = Padded(@),
                      !.positions = SelectSeq(@, LAMBDA p : p.positions # <<>>)]
    BY <1>4 DEF Content
  <2>2. DOMAIN c = DOMAIN g
    BY <2>1
  <2>3. c["kind"] = g["kind"]
    BY <1>2, <2>1, <2>2
  <2> QED BY <1>1, <2>3
<1>5. CASE g.kind \notin {"batchFile", "loadHeader"}
  <2>1. c = [g EXCEPT !.user = Padded(@)]
    BY <1>5 DEF Content
  <2>2. DOMAIN c = DOMAIN g
    BY <2>1
  <2>3. c["kind"] = g["kind"]
    BY <1>2, <2>1, <2>2
  <2> QED BY <1>1, <2>3
<1> QED BY <1>3, <1>4, <1>5

LEMMA ContentTyped ==
  ASSUME NEW f \in Contents, NEW o \in Contents, o.kind = f.kind
  PROVE  TypedAs(o, f)
<1>1. o.version \in {2, 3}
  BY Kinds DEF Supplement
<1>2. "user" \in DOMAIN o => Len(o.user) % 2 = 0
  BY Kinds DEF LoadHeader, FileList, LoadList, BatchList, BatchFile, UserData
<1> QED BY <1>1, <1>2 DEF TypedAs

(* The stored words are those of the whole file with some load CRC; or one *)
(* word of them is damaged.                                                *)
Intact == \E tail \in Tails(file.kind) : raw = Whole(file, tail)
Broken ==
  \E tail \in Tails(file.kind), d \in Deltas :
    damage \in DOMAIN Whole(file, tail) /\ raw = Damaged(Whole(file, tail), damage, d)

NotEncoded ==
  status \in {"new", "refused"} /\ raw = <<>> /\ damage = NoDamage /\ result = before
LoadCheckMissing ==
  /\ status = "encoded" /\ file.kind = "loadHeader" /\ EncodableFile(file)
  /\ raw = EncodedFile(file) /\ damage = NoDamage /\ result = before
LoadCrcMissing ==
  /\ status = "checked" /\ file.kind = "loadHeader" /\ EncodableFile(file)
  /\ Intact /\ damage = NoDamage /\ result = before
Decoding ==
  \/ status = "written" /\ result = before
  \/ status = "decoded" /\ DecodedFile(before, raw).ok /\ result = DecodedFile(before, raw).value
  \/ status = "rejected" /\ ~ DecodedFile(before, raw).ok /\ result = before
OnMedium ==
  /\ EncodableFile(file)
  /\ \/ damage = NoDamage /\ Intact
     \/ damage # NoDamage /\ Broken
  /\ Decoding
FilesInv ==
  /\ file \in Contents /\ before \in Contents /\ before.kind = file.kind
  /\ NotEncoded \/ LoadCheckMissing \/ LoadCrcMissing \/ OnMedium

LEMMA FilesInvInit == Init => FilesInv
<1> SUFFICES ASSUME Init
             PROVE  FilesInv
  OBVIOUS
<1>1. PICK g \in Files : file = Content(g)
  BY DEF Init
<1>2. file \in Contents
  BY <1>1, ContentKind
<1>3. before \in Contents /\ before.kind = file.kind
  <2>1. CASE before = Blank(file.kind)
    <3>1. file.kind \in {"loadHeader", "fileList", "loadList", "batchList", "batchFile"}
      BY <1>2, Kinds
    <3> QED BY <2>1, <3>1, BlankIsContent
  <2>2. CASE \E h \in {b \in Before : b.kind = file.kind} : before = Content(h)
    BY <2>2, ContentKind
  <2> QED BY <2>1, <2>2 DEF Init
<1> QED BY <1>2, <1>3 DEF Init, FilesInv, NotEncoded

LEMMA EncodeStep == FilesInv /\ Encode => FilesInv'
<1> SUFFICES ASSUME FilesInv, Encode
             PROVE  FilesInv'
  OBVIOUS
<1>1. /\ file \in Contents /\ before \in Contents /\ before.kind = file.kind
      /\ EncodableFile(file) /\ raw' = EncodedFile(file)
      /\ damage = NoDamage /\ result = before
      /\ file' = file /\ before' = before /\ damage' = damage /\ result' = result
  BY DEF FilesInv, Encode, NotEncoded, LoadCheckMissing, LoadCrcMissing, OnMedium, Decoding
<1>2. CASE file.kind = "loadHeader"
  <2>1. status' = "encoded"
    BY <1>2 DEF Encode
  <2>2. LoadCheckMissing'
    BY <1>1, <1>2, <2>1 DEF LoadCheckMissing
  <2> QED BY <1>1, <2>2 DEF FilesInv
<1>3. CASE file.kind # "loadHeader"
  <2>1. status' = "written"
    BY <1>3 DEF Encode
  <2>2. EncodedFile(file) = Whole(file, Zeros(file.kind)) /\ Zeros(file.kind) \in Tails(file.kind)
    BY <1>1, <1>3, EncodedIsWhole, ZerosAreTail
  <2>3. Intact'
    BY <1>1, <2>2 DEF Intact
  <2>4. OnMedium'
    BY <1>1, <2>1, <2>3 DEF OnMedium, Decoding
  <2> QED BY <1>1, <2>4 DEF FilesInv
<1> QED BY <1>2, <1>3

LEMMA RefuseStep == FilesInv /\ RefuseToEncode => FilesInv'
<1> SUFFICES ASSUME FilesInv, RefuseToEncode
             PROVE  FilesInv'
  OBVIOUS
<1>1. NotEncoded
  BY DEF FilesInv, RefuseToEncode, NotEncoded, LoadCheckMissing, LoadCrcMissing, OnMedium, Decoding
<1>2. NotEncoded'
  BY <1>1 DEF RefuseToEncode, NotEncoded
<1> QED BY <1>2 DEF FilesInv, RefuseToEncode

LEMMA LoadCheckValueStep == FilesInv /\ StoreLoadCheckValue => FilesInv'
<1> SUFFICES ASSUME FilesInv, StoreLoadCheckValue
             PROVE  FilesInv'
  OBVIOUS
<1>1. /\ file \in Contents /\ before \in Contents /\ before.kind = file.kind
      /\ LoadCheckMissing /\ status' = "checked"
      /\ raw' = (IF file.version = 3 THEN WithLoadCheckValue(raw) ELSE raw)
      /\ file' = file /\ before' = before /\ damage' = damage /\ result' = result
  BY DEF FilesInv, StoreLoadCheckValue, NotEncoded, LoadCheckMissing, LoadCrcMissing, OnMedium,
         Decoding
<1>2. raw' = Whole(file, Zeros(file.kind)) /\ Zeros(file.kind) \in Tails(file.kind)
  <2>1. CASE file.version = 3
    BY <1>1, <2>1, CheckValueStored, ZerosAreTail DEF LoadCheckMissing
  <2>2. CASE file.version # 3
    BY <1>1, <2>2, EncodedIsWhole, ZerosAreTail DEF LoadCheckMissing
  <2> QED BY <2>1, <2>2
<1>3. Intact'
  BY <1>1, <1>2 DEF Intact
<1>4. LoadCrcMissing'
  BY <1>1, <1>3 DEF LoadCheckMissing, LoadCrcMissing
<1> QED BY <1>1, <1>4 DEF FilesInv

LEMMA LoadCrcStep == FilesInv /\ StoreLoadCrc => FilesInv'
<1> SUFFICES ASSUME FilesInv, StoreLoadCrc
             PROVE  FilesInv'
  OBVIOUS
<1>1. /\ file \in Contents /\ before \in Contents /\ before.kind = file.kind
      /\ LoadCrcMissing /\ status' = "written"
      /\ file' = file /\ before' = before /\ damage' = damage /\ result' = result
  BY DEF FilesInv, StoreLoadCrc, NotEncoded, LoadCheckMissing, LoadCrcMissing, OnMedium, Decoding
<1>2. PICK crc \in LoadCrcs : raw' = Read(raw, 0, Len(raw) - 2) \o Double(crc)
  BY DEF StoreLoadCrc
<1>3. PICK tail \in Tails(file.kind) : raw = Whole(file, tail)
  BY <1>1 DEF LoadCrcMissing, Intact
<1>4. EncodableFile(file) /\ file.kind = "loadHeader"
  BY <1>1 DEF LoadCrcMissing
<1>5. /\ Double(crc) \in Tails(file.kind)
      /\ Read(raw, 0, Len(raw) - 2) \o Double(crc) = Whole(file, Double(crc))
  BY <1>1, <1>3, <1>4, LoadCrcStored
<1>6. Intact'
  BY <1>1, <1>2, <1>5 DEF Intact
<1>7. OnMedium'
  BY <1>1, <1>6 DEF LoadCrcMissing, OnMedium, Decoding
<1> QED BY <1>1, <1>7 DEF FilesInv

LEMMA DamageStep == FilesInv /\ Damage => FilesInv'
<1> SUFFICES ASSUME FilesInv, Damage
             PROVE  FilesInv'
  OBVIOUS
<1>1. /\ file \in Contents /\ before \in Contents /\ before.kind = file.kind
      /\ OnMedium /\ status = "written" /\ damage = NoDamage
      /\ file' = file /\ before' = before /\ status' = status /\ result' = result
  BY DEF FilesInv, Damage, NotEncoded, LoadCheckMissing, LoadCrcMissing
<1>2. EncodableFile(file) /\ Intact /\ result = before
  BY <1>1 DEF OnMedium, Decoding
<1>3. PICK tail \in Tails(file.kind) : raw = Whole(file, tail)
  BY <1>2 DEF Intact
<1>4. PICK i \in DOMAIN raw, d \in Deltas :
        raw' = [raw EXCEPT ![i] = (@ + d) % WordBase] /\ damage' = i
  BY DEF Damage
<1>5. raw \in Seq(Word)
  BY <1>1, <1>2, <1>3, WholeWords
<1>6. damage' # NoDamage
  BY <1>4, <1>5 DEF NoDamage
<1>7. Broken'
  <2>1. damage' \in DOMAIN Whole(file, tail) /\ raw' = Damaged(Whole(file, tail), damage', d)
    BY <1>3, <1>4 DEF Damaged
  <2> QED BY <1>1, <2>1 DEF Broken
<1>8. OnMedium'
  BY <1>1, <1>2, <1>6, <1>7 DEF OnMedium, Decoding
<1> QED BY <1>1, <1>8 DEF FilesInv

LEMMA DecodeStep == FilesInv /\ Decode => FilesInv'
<1> SUFFICES ASSUME FilesInv, Decode
             PROVE  FilesInv'
  OBVIOUS
<1>1. /\ file \in Contents /\ before \in Contents /\ before.kind = file.kind
      /\ OnMedium /\ status = "written"
      /\ file' = file /\ before' = before /\ raw' = raw /\ damage' = damage
  BY DEF FilesInv, Decode, NotEncoded, LoadCheckMissing, LoadCrcMissing
<1>2. EncodableFile(file) /\ result = before
  BY <1>1 DEF OnMedium, Decoding
<1>3. ((damage = NoDamage /\ Intact) \/ (damage # NoDamage /\ Broken))'
  <2>1. CASE damage = NoDamage /\ Intact
    BY <1>1, <2>1 DEF Intact
  <2>2. CASE damage # NoDamage /\ Broken
    BY <1>1, <2>2 DEF Broken
  <2> QED BY <1>1, <2>1, <2>2 DEF OnMedium
<1>4. Decoding'
  BY <1>1, <1>2 DEF Decode, Decoding
<1>5. OnMedium'
  BY <1>1, <1>2, <1>3, <1>4 DEF OnMedium
<1> QED BY <1>1, <1>5 DEF FilesInv

LEMMA FilesInvStep == FilesInv /\ [Next]_vars => FilesInv'
<1> SUFFICES ASSUME FilesInv, [Next]_vars
             PROVE  FilesInv'
  OBVIOUS
<1>1. CASE Encode
  BY <1>1, EncodeStep
<1>2. CASE RefuseToEncode
  BY <1>2, RefuseStep
<1>3. CASE StoreLoadCheckValue
  BY <1>3, LoadCheckValueStep
<1>4. CASE StoreLoadCrc
  BY <1>4, LoadCrcStep
<1>5. CASE Damage
  BY <1>5, DamageStep
<1>6. CASE Decode
  BY <1>6, DecodeStep
<1>7. CASE UNCHANGED vars
  BY <1>7 DEF vars, FilesInv, NotEncoded, LoadCheckMissing, LoadCrcMissing, OnMedium, Intact,
              Broken,
              Decoding
<1> QED BY <1>1, <1>2, <1>3, <1>4, <1>5, <1>6, <1>7 DEF Next

(* At each moment the stored words are none, the file that still lacks its *)
(* check value, the whole file, or the whole file with a damaged word, and *)
(* the object is what it was before or what decoding these words makes of it. *)
THEOREM Inductive == Spec => []FilesInv
BY FilesInvInit, FilesInvStep, PTL DEF Spec

-----------------------------------------------------------------------------
(* What follows from the invariant.                                        *)

(* A damaged file that is decoded is a file with another load CRC.         *)
LEMMA BrokenIsIntact ==
  ASSUME file \in Contents, before.kind = file.kind, EncodableFile(file), Broken,
         DecodedFile(before, raw).ok
  PROVE  file.kind = "loadHeader" /\ damage > Len(raw) - 2 /\ Intact
<1>1. PICK tail \in Tails(file.kind), d \in Deltas :
        damage \in DOMAIN Whole(file, tail) /\ raw = Damaged(Whole(file, tail), damage, d)
  BY DEF Broken
<1> DEFINE words == Whole(file, tail)
<1>2. words \in Seq(Word)
  BY WholeWords
<1>3. damage \in DOMAIN words /\ raw = Damaged(words, damage, d) /\ words = Whole(file, tail)
  BY <1>1
<1> HIDE DEF words
<1>4. Len(raw) = Len(words)
  BY <1>2, <1>3, DamagedWords
<1>5. \/ \A v : ~ HeaderAccepted(raw, file.kind, v)
      \/ /\ file.kind = "loadHeader" /\ damage > Len(words) - 2
         /\ \E other \in Tails(file.kind) : raw = Whole(file, other)
  BY <1>3, DamagedFile
<1>6. ~ \A v : ~ HeaderAccepted(raw, file.kind, v)
  <2> SUFFICES ASSUME \A v : ~ HeaderAccepted(raw, file.kind, v)
               PROVE  FALSE
    OBVIOUS
  <2>1. DecodedFile(before, raw) = Failed
    BY DEF DecodedFile
  <2> QED BY <2>1, FailedIsNotOk
<1> QED BY <1>4, <1>5, <1>6 DEF Intact

(* What is decoded was stored by encode, with some load CRC.               *)
LEMMA DecodedIsIntact ==
  ASSUME FilesInv, status = "decoded"
  PROVE  /\ EncodableFile(file) /\ Intact
         /\ DecodedFile(before, raw).ok /\ result = DecodedFile(before, raw).value
         /\ damage # NoDamage => file.kind = "loadHeader" /\ damage > Len(raw) - 2
<1>1. OnMedium /\ file \in Contents /\ before.kind = file.kind
  BY DEF FilesInv, NotEncoded, LoadCheckMissing, LoadCrcMissing
<1>2. /\ EncodableFile(file)
      /\ DecodedFile(before, raw).ok /\ result = DecodedFile(before, raw).value
  BY <1>1 DEF OnMedium, Decoding
<1>3. CASE damage = NoDamage
  BY <1>1, <1>2, <1>3 DEF OnMedium
<1>4. CASE damage # NoDamage
  <2>1. Broken
    BY <1>1, <1>4 DEF OnMedium
  <2> QED BY <1>1, <1>2, <2>1, BrokenIsIntact
<1> QED BY <1>3, <1>4

(* What was stored by encode is decoded.                                   *)
LEMMA IntactDecoded ==
  ASSUME FilesInv, EncodableFile(file), Intact, CountersFit(file)
  PROVE  /\ DecodedFile(before, raw).ok
         /\ DecodedFile(before, raw).value = Merged(before, file)
<1>1. file \in Contents /\ before \in Contents /\ before.kind = file.kind
  BY DEF FilesInv
<1>2. PICK tail \in Tails(file.kind) : raw = Whole(file, tail)
  BY DEF Intact
<1>3. DecodedFile(before, raw) = Got(Merged(before, file), 0)
  BY <1>1, <1>2, MergedIsDecoded
<1> QED BY <1>3, GotFields

LEMMA StoredWords ==
  ASSUME FilesInv
  PROVE  raw \in Seq(Word) /\ damage \in 0 .. Len(raw)
<1>1. file \in Contents
  BY DEF FilesInv
<1>2. CASE NotEncoded
  BY <1>2 DEF NotEncoded, NoDamage
<1>3. ASSUME EncodableFile(file), Intact
      PROVE  raw \in Seq(Word)
  BY <1>1, <1>3, WholeWords DEF Intact
<1>4. CASE LoadCheckMissing
  <2>1. raw \in Seq(Word)
    <3>1. CASE file.version = 3
      BY <1>1, <1>4, <3>1, RoomIsEncoded DEF LoadCheckMissing
    <3>2. CASE file.version # 3
      <4>1. Intact
        BY <1>1, <1>4, <3>2, EncodedIsWhole, ZerosAreTail DEF LoadCheckMissing, Intact
      <4> QED BY <1>3, <1>4, <4>1 DEF LoadCheckMissing
    <3> QED BY <3>1, <3>2
  <2> QED BY <1>4, <2>1 DEF LoadCheckMissing, NoDamage
<1>5. CASE LoadCrcMissing
  BY <1>3, <1>5 DEF LoadCrcMissing, NoDamage
<1>6. CASE OnMedium
  <2>1. CASE damage = NoDamage /\ Intact
    BY <1>3, <1>6, <2>1 DEF OnMedium, NoDamage
  <2>2. CASE damage # NoDamage /\ Broken
    <3>1. PICK tail \in Tails(file.kind), d \in Deltas :
            damage \in DOMAIN Whole(file, tail) /\ raw = Damaged(Whole(file, tail), damage, d)
      BY <2>2 DEF Broken
    <3> DEFINE words == Whole(file, tail)
    <3>2. words \in Seq(Word)
      BY <1>1, <1>6, WholeWords DEF OnMedium
    <3>3. damage \in DOMAIN words /\ raw = Damaged(words, damage, d)
      BY <3>1
    <3> HIDE DEF words
    <3>4. raw \in Seq(Word) /\ Len(raw) = Len(words)
      BY <3>2, <3>3, DamagedWords
    <3> QED BY <3>2, <3>3, <3>4
  <2> QED BY <1>6, <2>1, <2>2 DEF OnMedium
<1> QED BY <1>2, <1>4, <1>5, <1>6 DEF FilesInv

(* Type correctness: each word of a file has 16 bits, whatever is encoded, *)
(* stored into it or damaged, and a decoded object is of the kind of the   *)
(* file and has whole words of user defined data, also where next pointers *)
(* or counters were cut to their fields. (encode of the five kinds of      *)
(* files, insertHeader, userDefinedData)                                   *)
THEOREM Typing == Spec => []TypeOK
<1>1. ASSUME FilesInv
      PROVE  TypeOK
  <2>1. file \in Contents /\ before \in Contents /\ before.kind = file.kind
    BY <1>1 DEF FilesInv
  <2>2. raw \in Seq(Word) /\ damage \in 0 .. Len(raw)
    BY <1>1, StoredWords
  <2>3. status \in {"new", "encoded", "checked", "written", "refused", "decoded", "rejected"}
        /\ (status # "decoded" => result = before)
    BY <1>1 DEF FilesInv, NotEncoded, LoadCheckMissing, LoadCrcMissing, OnMedium, Decoding
  <2>4. TypedAs(result, file)
    <3>1. CASE status # "decoded"
      BY <2>1, <2>3, <3>1, ContentTyped
    <3>2. CASE status = "decoded"
      <4>1. /\ EncodableFile(file) /\ Intact
            /\ DecodedFile(before, raw).ok /\ result = DecodedFile(before, raw).value
        BY <1>1, <3>2, DecodedIsIntact
      <4>2. PICK tail \in Tails(file.kind) : raw = Whole(file, tail)
        BY <4>1 DEF Intact
      <4> QED BY <2>1, <4>1, <4>2, DecodedIsTyped
    <3> QED BY <3>1, <3>2
  <2> QED BY <2>2, <2>3, <2>4 DEF TypeOK, TypedAs
<1> QED BY <1>1, Inductive, PTL

(* What encode wrote, processLoadCheckValue and the load CRC included, is  *)
(* read by decodeBody as it was, as far as the supplement can express it:  *)
(* for contents of any length, and every check value and load CRC.         *)
THEOREM Decoded == Spec => []DecodesWhatWasEncoded
<1>1. ASSUME FilesInv
      PROVE  DecodesWhatWasEncoded
  <2> SUFFICES ASSUME CountersFit(file), before = Blank(file.kind)
               PROVE  /\ status = "decoded" => result = Expressible(file)
                      /\ status = "rejected" => damage # NoDamage
    BY DEF DecodesWhatWasEncoded
  <2>1. file \in Contents
    BY <1>1 DEF FilesInv
  <2>2. ASSUME status = "decoded"
        PROVE  result = Expressible(file)
    <3>1. EncodableFile(file) /\ Intact /\ result = DecodedFile(before, raw).value
      BY <1>1, <2>2, DecodedIsIntact
    <3>2. result = Merged(before, file)
      BY <1>1, <3>1, IntactDecoded
    <3> QED BY <2>1, <3>2, MergedOfBlank
  <2>3. ASSUME status = "rejected", damage = NoDamage
        PROVE  FALSE
    <3>1. EncodableFile(file) /\ Intact /\ ~ DecodedFile(before, raw).ok
      BY <1>1, <2>3 DEF FilesInv, NotEncoded, LoadCheckMissing, LoadCrcMissing, OnMedium, Decoding
    <3> QED BY <1>1, <3>1, IntactDecoded
  <2> QED BY <2>2, <2>3
<1> QED BY <1>1, Inductive, PTL

(* One damaged word makes decodeHeader refuse the file, wherever it is, but *)
(* for the two words of the load CRC, which it does not read.              *)
THEOREM Detected == Spec => []DamageDetected
<1>1. ASSUME FilesInv
      PROVE  DamageDetected
  BY <1>1, DecodedIsIntact DEF DamageDetected
<1> QED BY <1>1, Inductive, PTL

(* operator= with a second file replaces the members of the object by those *)
(* of the file, but for those that Leftovers names and the former loads.   *)
THEOREM Forgotten == Spec => []ForgetsFormerContent
<1>1. ASSUME FilesInv
      PROVE  ForgetsFormerContent
  <2> SUFFICES ASSUME status = "decoded", CountersFit(file), NEW m \in DOMAIN result
               PROVE  result[m] = IF m = "loads" THEN before.loads \o file.loads
                                  ELSE IF m \in Leftovers THEN before[m]
                                  ELSE Expressible(file)[m]
    BY DEF ForgetsFormerContent
  <2>1. EncodableFile(file) /\ Intact /\ result = DecodedFile(before, raw).value
    BY <1>1, DecodedIsIntact
  <2>2. result = Merged(before, file)
    BY <1>1, <2>1, IntactDecoded
  <2>3. file \in Contents /\ before \in Contents /\ before.kind = file.kind
    BY <1>1 DEF FilesInv
  <2>4. Leftovers = Left(before, file)
    BY DEF Leftovers, Left
  <2> DEFINE r == Merged(before, file)
  <2>5. r = Merged(before, file) /\ m \in DOMAIN r
    BY <2>2
  <2> HIDE DEF r
  <2>6. r[m] = MemberAfter(before, file, m)
    BY <2>3, <2>5, MergedMembers
  <2>7. result = r
    BY <2>2, <2>5
  <2> QED BY <2>4, <2>6, <2>7 DEF MemberAfter
<1> QED BY <1>1, Inductive, PTL
=============================================================================
