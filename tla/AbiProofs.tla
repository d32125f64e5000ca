------------------------------- MODULE AbiProofs -------------------------------
(***************************************************************************)
(* What the operators of Abi do with values and lists of any length: that  *)
(* what is written is read back, how long a list is, and that a guest that *)
(* splits it has the strings it was made of.                               *)
(***************************************************************************)
EXTENDS Abi, SequenceTheorems, FiniteSetTheorems, WellFoundedInduction, TLAPS

-----------------------------------------------------------------------------
(* Natural numbers *)

\* The least number of a set.
LEMMA Least ==
  ASSUME NEW T, T \subseteq Nat, T # {}
  PROVE  Min(T) \in T /\ \A n \in T : Min(T) <= n
<1>1. PICK R : R = {ss \in Nat \X Nat : ss[1] < ss[2]}
  OBVIOUS
<1>2. IsWellFoundedOn(R, Nat)
  BY <1>1, NatLessThanWellFounded, Zenon DEF OpToRel
<1>3. PICK m \in T : \A n \in T : ~ (<<n, m>> \in R)
  BY <1>2, WFMin, ZenonT(30)
<1>4. ASSUME NEW n \in T
      PROVE  m <= n
  <2>1. n < m => <<n, m>> \in R
    <3>1. <<n, m>> \in Nat \X Nat /\ <<n, m>>[1] = n /\ <<n, m>>[2] = m
      OBVIOUS
    <3> QED
      BY <1>1, <3>1
  <2>2. n \in Nat /\ m \in Nat
    OBVIOUS
  <2> QED
    BY <1>3, <2>1, <2>2
<1> QED
  BY <1>4 DEF Min

LEMMA MinOfTwo ==
  ASSUME NEW m \in Nat, NEW n \in Nat
  PROVE  Min({m, n}) = IF m <= n THEN m ELSE n
BY DEF Min

\* Induction up to n, over the set of the numbers for which it was shown.
LEMMA Induction ==
  ASSUME NEW n \in Nat, NEW T, 0 \in T, \A k \in 1 .. n : k - 1 \in T => k \in T
  PROVE  0 .. n \subseteq T
<1> DEFINE U == (0 .. n) \ T
<1>1. SUFFICES ASSUME U # {} PROVE FALSE
  OBVIOUS
<1>2. PICK m \in U : \A k \in U : m <= k
  <2>1. U \subseteq Nat
    OBVIOUS
  <2> QED
    BY <1>1, <2>1, Least
<1>3. m \in 1 .. n /\ m - 1 \in 0 .. n
  BY <1>2
<1>4. m - 1 \in T
  BY <1>2, <1>3
<1> QED
  BY <1>2, <1>3, <1>4

\* A function defined by recursion over 0 .. n, as far as k: what it has at i is
\* what F makes of what it has at i - 1.
Upto(k, S, c, F) ==
  {g \in [0 .. k -> S] : g[0] = c /\ \A i \in 1 .. k : g[i] = F[i][g[i - 1]]}

LEMMA Recursion ==
  ASSUME NEW n \in Nat, NEW S, NEW c \in S, NEW F \in [1 .. n -> [S -> S]]
  PROVE  \E g : g \in Upto(n, S, c, F)
<1> DEFINE T == {k \in 0 .. n : Upto(k, S, c, F) # {}}
<1>1. 0 \in T
  <2>1. [i \in 0 .. 0 |-> c] \in Upto(0, S, c, F)
    BY DEF Upto
  <2> QED
    BY <2>1
<1>2. ASSUME NEW k \in 1 .. n, k - 1 \in T
      PROVE  k \in T
  <2>1. PICK g : g \in Upto(k - 1, S, c, F)
    BY <1>2
  <2> DEFINE h == [i \in 0 .. k |-> IF i = k THEN F[k][g[k - 1]] ELSE g[i]]
  <2>2. g[k - 1] \in S /\ F[k][g[k - 1]] \in S
    BY <2>1 DEF Upto
  <2>3. h \in [0 .. k -> S] /\ h[0] = c
    BY <2>1, <2>2 DEF Upto
  <2>4. \A i \in 1 .. k : h[i] = F[i][h[i - 1]]
    BY <2>1 DEF Upto
  <2>5. h \in Upto(k, S, c, F)
    BY <2>3, <2>4 DEF Upto
  <2> QED
    BY <2>5
<1>3. n \in T
  <2>1. n \in 0 .. n
    OBVIOUS
  <2> HIDE DEF T
  <2> QED
    BY <1>1, <1>2, <2>1, Induction
<1> QED
  BY <1>3

\* FlattenSeq concatenates: g is what it has put together up to each of the sequences.
LEMMA Flatten ==
  ASSUME NEW S, NEW seqs \in Seq(Seq(S)), NEW g, Len(seqs) > 0,
         g = [i \in 1 .. Len(seqs) |-> IF i = 1 THEN seqs[i] ELSE g[i - 1] \o seqs[i]]
  PROVE  FlattenSeq(seqs) = g[Len(seqs)]
<1> DEFINE n == Len(seqs)
           f == CHOOSE h : h = [i \in 1 .. Len(seqs) |-> IF i = 1 THEN seqs[i] ELSE h[i - 1] \o seqs[i]]
           T == {0} \cup {i \in 1 .. n : f[i] = g[i]}
<1>1. f = [i \in 1 .. Len(seqs) |-> IF i = 1 THEN seqs[i] ELSE f[i - 1] \o seqs[i]]
  BY Zenon
<1>2. FlattenSeq(seqs) = IF Len(seqs) = 0 THEN seqs ELSE f[Len(seqs)]
  BY Zenon DEF FlattenSeq
<1> HIDE DEF f
<1>3. n \in Nat
  OBVIOUS
<1>4. ASSUME NEW i \in 1 .. n, i - 1 \in T
      PROVE  i \in T
  <2>1. f[i] = IF i = 1 THEN seqs[i] ELSE f[i - 1] \o seqs[i]
    BY <1>1
  <2>2. g[i] = IF i = 1 THEN seqs[i] ELSE g[i - 1] \o seqs[i]
    OBVIOUS
  <2>3. i # 1 => f[i - 1] = g[i - 1]
    BY <1>4
  <2> QED
    BY <2>1, <2>2, <2>3
<1>5. 0 .. n \subseteq T
  BY <1>3, <1>4, Induction
<1>6. f[n] = g[n]
  <2>1. n \in 0 .. n /\ n # 0
    BY <1>3
  <2> QED
    BY <1>5, <2>1
<1> QED
  BY <1>2, <1>3, <1>6

-----------------------------------------------------------------------------
(* The memory *)

\* What was written is read back, if it was written at all.
LEMMA ReadBack ==
  ASSUME NEW mem0, NEW offset \in Nat, NEW S, NEW v \in Seq(S), InMemory(offset, Len(v))
  PROVE  Read(Write(mem0, offset, v), offset, Len(v)) = v
<1>1. Len(v) \in Nat /\ v = [k \in 1 .. Len(v) |-> v[k]] /\ MemSize \in Nat
  BY MemSizeAssumption
<1>2. \A k \in 1 .. Len(v) :
        /\ offset + k - 1 \in Addr
        /\ offset + k - 1 \in Region(offset, Len(v))
        /\ offset + k - 1 - offset + 1 = k
  BY <1>1 DEF InMemory, Addr, Region
<1>3. \A k \in 1 .. Len(v) : Write(mem0, offset, v)[offset + k - 1] = v[k]
  BY <1>2 DEF Write
<1> QED
  BY <1>1, <1>3 DEF Read

LEMMA WriteTyped ==
  ASSUME NEW mem0 \in Memory, NEW offset \in Nat, NEW v \in Seq(Byte)
  PROVE  Write(mem0, offset, v) \in Memory
<1>1. ASSUME NEW a \in Region(offset, Len(v))
      PROVE  v[a - offset + 1] \in Byte
  <2>1. a - offset + 1 \in 1 .. Len(v)
    BY DEF Region
  <2> QED
    BY <2>1
<1> QED
  BY <1>1 DEF Write, Memory

LEMMA ReadTyped ==
  ASSUME NEW mem0 \in Memory, NEW offset \in Nat, NEW count \in Nat,
         count = 0 \/ InMemory(offset, count)
  PROVE  Read(mem0, offset, count) \in Seq(Byte)
<1>1. \A k \in 1 .. count : offset + k - 1 \in Addr
  BY MemSizeAssumption DEF InMemory, Addr
<1>2. Read(mem0, offset, count) \in [1 .. count -> Byte]
  BY <1>1 DEF Read, Memory
<1> QED
  BY <1>2, IsASeq

-----------------------------------------------------------------------------
(* Lists *)

Lists == Seq(Seq(Byte))

\* The length of a list: J is the list up to its k-th string.
Joins(list, J) ==
  /\ J \in [0 .. Len(list) -> Seq(Byte)]
  /\ J[0] = <<>>
  /\ \A k \in 1 .. Len(list) : J[k] = J[k - 1] \o Append(list[k], Nul)

LEMMA JoinsExist ==
  ASSUME NEW list \in Lists
  PROVE  \E J : Joins(list, J)
<1> DEFINE n == Len(list)
           F == [k \in 1 .. n |-> [s \in Seq(Byte) |-> s \o Append(list[k], Nul)]]
<1>1. n \in Nat /\ \A k \in 1 .. n : list[k] \in Seq(Byte)
  BY LenProperties, ElementOfSeq DEF Lists
<1>2. \A k \in 1 .. n : Append(list[k], Nul) \in Seq(Byte)
  BY <1>1, NulAssumption, AppendProperties
<1>3. \A k \in 1 .. n, s \in Seq(Byte) : s \o Append(list[k], Nul) \in Seq(Byte)
  BY <1>2, ConcatProperties
<1>4. F \in [1 .. n -> [Seq(Byte) -> Seq(Byte)]]
  BY <1>3
<1>5. <<>> \in Seq(Byte)
  OBVIOUS
<1> HIDE DEF n
<1>6. \A k \in 1 .. n, s \in Seq(Byte) : F[k][s] = s \o Append(list[k], Nul)
  OBVIOUS
<1> HIDE DEF F
<1>7. PICK J : J \in Upto(n, Seq(Byte), <<>>, F)
  BY <1>1, <1>4, <1>5, Recursion
<1>8. \A k \in 1 .. n : k - 1 \in 0 .. n
  BY <1>1
<1>9. \A k \in 1 .. n : J[k] = J[k - 1] \o Append(list[k], Nul)
  BY <1>6, <1>7, <1>8 DEF Upto
<1> QED
  BY <1>7, <1>9 DEF Joins, Upto, n

LEMMA TerminatedJoins ==
  ASSUME NEW list \in Lists, NEW J, Joins(list, J)
  PROVE  Terminated(list) = J[Len(list)]
<1> DEFINE n == Len(list)
           seqs == [k \in DOMAIN list |-> Append(list[k], Nul)]
           g == [i \in 1 .. n |-> J[i]]
<1>1. n \in Nat /\ DOMAIN list = 1 .. n
  BY DEF Lists
<1>2. \A k \in 1 .. n : list[k] \in Seq(Byte) /\ Append(list[k], Nul) \in Seq(Byte)
  <2>1. \A k \in 1 .. n : list[k] \in Seq(Byte)
    BY ElementOfSeq DEF Lists
  <2> QED
    BY <2>1, NulAssumption, AppendProperties
<1>3. seqs \in Seq(Seq(Byte)) /\ Len(seqs) = n
  <2>1. seqs \in [1 .. n -> Seq(Byte)]
    BY <1>1, <1>2
  <2> HIDE DEF seqs
  <2> QED
    BY <1>1, <2>1, IsASeq, LenProperties
<1>4. \A k \in 1 .. n : seqs[k] = Append(list[k], Nul)
  BY <1>1
<1>5. Terminated(list) = FlattenSeq(seqs)
  BY DEF Terminated
<1>6. CASE n = 0
  <2>1. seqs = <<>>
    BY <1>3, <1>6, EmptySeq
  <2> HIDE DEF seqs
  <2> QED
    BY <1>3, <1>5, <1>6, <2>1 DEF FlattenSeq, Joins
<1>7. CASE n > 0
  <2> HIDE DEF seqs, n
  <2>1. \A i \in 1 .. n : g[i] = IF i = 1 THEN seqs[i] ELSE g[i - 1] \o seqs[i]
    <3> SUFFICES ASSUME NEW i \in 1 .. n
                 PROVE  g[i] = IF i = 1 THEN seqs[i] ELSE g[i - 1] \o seqs[i]
      OBVIOUS
    <3>1. J[i] = J[i - 1] \o seqs[i]
      BY <1>4 DEF Joins, n
    <3>2. i = 1 => J[i - 1] = <<>>
      BY DEF Joins
    <3>3. <<>> \o seqs[i] = seqs[i]
      BY <1>2, <1>4
    <3>4. i # 1 => i - 1 \in 1 .. n
      BY <1>1
    <3> QED
      BY <3>1, <3>2, <3>3, <3>4
  <2>2. g = [i \in 1 .. Len(seqs) |-> IF i = 1 THEN seqs[i] ELSE g[i - 1] \o seqs[i]]
    BY <1>3, <2>1
  <2>3. FlattenSeq(seqs) = g[n]
    <3> HIDE DEF g
    <3> QED
      BY <1>3, <1>7, <2>2, Flatten
  <2> QED
    BY <1>1, <1>5, <1>7, <2>3 DEF n
<1> QED
  BY <1>1, <1>6, <1>7

\* The k-th string of a list follows the ones before it, and a terminator ends it.
Follows(list, J, k) ==
  /\ list[k] \in Seq(Byte)
  /\ Len(J[k - 1]) \in Nat
  /\ Len(J[k]) = Len(J[k - 1]) + Len(list[k]) + 1
  /\ \A p \in 1 .. Len(J[k - 1]) : J[k][p] = J[k - 1][p]
  /\ \A p \in 1 .. Len(list[k]) : J[k][Len(J[k - 1]) + p] = list[k][p]
  /\ J[k][Len(J[k])] = Nul

LEMMA JoinsFollow ==
  ASSUME NEW list \in Lists, NEW J, Joins(list, J), NEW k \in 1 .. Len(list)
  PROVE  Follows(list, J, k)
<1>1. Len(list) \in Nat /\ k - 1 \in 0 .. Len(list) /\ k \in 0 .. Len(list)
  BY DEF Lists
<1> DEFINE s == list[k]
           before == J[k - 1]
           upto == J[k]
<1>2. s \in Seq(Byte)
  BY ElementOfSeq DEF Lists
<1>3. before \in Seq(Byte) /\ upto = before \o Append(s, Nul)
  BY <1>1 DEF Joins
<1> HIDE DEF s, before, upto
<1>4. PICK t \in Seq(Byte) : /\ t = Append(s, Nul) /\ Len(t) = Len(s) + 1
                             /\ \A p \in 1 .. Len(s) : t[p] = s[p]
                             /\ t[Len(s) + 1] = Nul
  <2>1. Append(s, Nul) \in Seq(Byte)
    BY <1>2, NulAssumption, AppendProperties
  <2>2. Len(Append(s, Nul)) = Len(s) + 1 /\ \A p \in 1 .. Len(s) : Append(s, Nul)[p] = s[p]
    BY <1>2, NulAssumption, AppendProperties
  <2>3. Append(s, Nul)[Len(s) + 1] = Nul
    BY <1>2, NulAssumption, AppendProperties
  <2> QED
    BY <2>1, <2>2, <2>3
<1>5. upto = before \o t
  BY <1>3, <1>4
<1>6. /\ Len(before \o t) = Len(before) + Len(t)
      /\ \A p \in 1 .. Len(before) : (before \o t)[p] = before[p]
      /\ \A p \in 1 .. Len(t) : (before \o t)[Len(before) + p] = t[p]
  BY <1>3
<1>7. Len(before) \in Nat /\ Len(s) \in Nat
  BY <1>2, <1>3
<1>8. Len(upto) = Len(before) + Len(s) + 1
  BY <1>4, <1>5, <1>6, <1>7
<1>9. \A p \in 1 .. Len(s) : upto[Len(before) + p] = s[p]
  BY <1>4, <1>5, <1>6, <1>7
<1>10. upto[Len(upto)] = Nul
  BY <1>4, <1>5, <1>6, <1>7, <1>8
<1>11. \A p \in 1 .. Len(before) : upto[p] = before[p]
  BY <1>5, <1>6
<1> QED
  BY <1>2, <1>7, <1>8, <1>9, <1>10, <1>11 DEF s, before, upto, Follows

\* ByteCount is the length of the list, if it has a string.
LEMMA ByteCountJoins ==
  ASSUME NEW list \in Lists, NEW J, Joins(list, J)
  PROVE  ByteCount(list) = Len(J[Len(list)])
<1> DEFINE n == Len(list)
           E == [k \in 0 .. n |-> Len(J[k])]
           g == [k \in 0 .. n |-> E[k] + n - k]
           f == CHOOSE bytes : bytes = [k \in 0 .. Len(list) |-> IF k = 0 THEN Len(list)
                                                                ELSE bytes[k - 1] + Len(list[k])]
           T == {k \in 0 .. n : f[k] = g[k]}
<1>1. n \in Nat /\ E[0] = 0
  <2>1. n \in Nat
    BY DEF Lists
  <2> QED
    BY <2>1 DEF Joins
<1>2. \A k \in 1 .. n : /\ E[k - 1] \in Nat /\ Len(list[k]) \in Nat
                        /\ E[k] = E[k - 1] + Len(list[k]) + 1
  <2> TAKE k \in 1 .. n
  <2>1. k - 1 \in 0 .. n /\ k \in 0 .. n
    BY <1>1
  <2>2. E[k - 1] = Len(J[k - 1]) /\ E[k] = Len(J[k])
    BY <2>1
  <2> HIDE DEF E, g, f, T
  <2>3. Follows(list, J, k)
    BY JoinsFollow
  <2>4. Len(list[k]) \in Nat
    BY <2>3 DEF Follows
  <2> QED
    BY <2>2, <2>3, <2>4 DEF Follows
<1> HIDE DEF E
<1>3. g = [k \in 0 .. Len(list) |-> IF k = 0 THEN Len(list) ELSE g[k - 1] + Len(list[k])]
  <2>1. E[0] + n - 0 = n
    BY <1>1
  <2>2. \A k \in 1 .. n : E[k] + n - k = g[k - 1] + Len(list[k])
    <3> TAKE k \in 1 .. n
    <3>1. k - 1 \in 0 .. n
      BY <1>1
    <3>2. g[k - 1] = E[k - 1] + n - (k - 1)
      BY <3>1
    <3>3. E[k - 1] \in Nat /\ Len(list[k]) \in Nat /\ E[k] = E[k - 1] + Len(list[k]) + 1
      BY <1>2
    <3> HIDE DEF g, n
    <3> QED
      BY <1>1, <3>2, <3>3
  <2>3. \A k \in 0 .. n : g[k] = IF k = 0 THEN n ELSE g[k - 1] + Len(list[k])
    <3>1. \A k \in 0 .. n : g[k] = E[k] + n - k
      OBVIOUS
    <3>2. \A k \in 0 .. n : k = 0 \/ k \in 1 .. n
      BY <1>1
    <3> HIDE DEF g
    <3> QED
      BY <2>1, <2>2, <3>1, <3>2
  <2> QED
    BY <2>3
<1>4. f = [k \in 0 .. Len(list) |-> IF k = 0 THEN Len(list) ELSE f[k - 1] + Len(list[k])]
  BY <1>3, Zenon
<1>5. ByteCount(list) = f[n]
  BY Zenon DEF ByteCount
<1> HIDE DEF f
<1>6. f[0] = n /\ \A k \in 1 .. n : f[k] = f[k - 1] + Len(list[k])
  BY <1>1, <1>4
<1>7. g[0] = n /\ \A k \in 1 .. n : g[k] = g[k - 1] + Len(list[k])
  BY <1>1, <1>3
<1> HIDE DEF g, n
<1>8. 0 .. n \subseteq T
  <2>1. 0 \in T
    BY <1>1, <1>6, <1>7
  <2>2. ASSUME NEW k \in 1 .. n, k - 1 \in T
        PROVE  k \in T
    BY <1>1, <1>6, <1>7, <2>2
  <2> QED
    BY <1>1, <2>1, <2>2, Induction
<1>9. n \in 0 .. n
  BY <1>1
<1>10. f[n] = g[n] /\ g[n] = E[n] + n - n
  BY <1>8, <1>9 DEF g
<1>11. E[n] = Len(J[n]) /\ E[n] \in Nat
  <2>1. J[n] \in Seq(Byte)
    BY <1>9 DEF Joins, n
  <2> QED
    BY <1>9, <2>1 DEF E
<1> QED
  BY <1>1, <1>5, <1>10, <1>11 DEF n

\* What a list has of its first i strings is still there after k of them.
Kept(J, i, k) ==
  /\ Len(J[i]) \in Nat /\ Len(J[k]) \in Nat
  /\ i < k => Len(J[i]) < Len(J[k])
  /\ \A p \in 1 .. Len(J[i]) : p <= Len(J[k]) /\ J[k][p] = J[i][p]

LEMMA JoinsKept ==
  ASSUME NEW list \in Lists, NEW J, Joins(list, J), NEW k \in 0 .. Len(list), NEW i \in 0 .. k
  PROVE  Kept(J, i, k)
<1> DEFINE n == Len(list)
           T == {m \in 0 .. n : \A j \in 0 .. m : Kept(J, j, m)}
<1>1. n \in Nat
  BY DEF Lists
<1>2. \A m \in 0 .. n : Len(J[m]) \in Nat
  <2> TAKE m \in 0 .. n
  <2>1. J[m] \in Seq(Byte)
    BY DEF Joins
  <2> QED
    BY <2>1
<1>3. 0 \in T
  BY <1>1, <1>2 DEF Kept
<1>4. ASSUME NEW m \in 1 .. n, m - 1 \in T
      PROVE  m \in T
  <2>1. Follows(list, J, m) /\ m - 1 \in 0 .. n /\ m \in 0 .. n
    BY <1>1, JoinsFollow
  <2>2. Len(list[m]) \in Nat
    BY <2>1 DEF Follows
  <2>3. Len(J[m - 1]) < Len(J[m])
    <3> DEFINE before == Len(J[m - 1])
               size == Len(list[m])
               upto == Len(J[m])
    <3>1. upto = before + size + 1 /\ before \in Nat /\ size \in Nat
      BY <2>1, <2>2 DEF Follows
    <3> HIDE DEF before, size, upto
    <3>2. before < upto
      BY <3>1
    <3> QED
      BY <3>2 DEF before, upto
  <2>4. ASSUME NEW j \in 0 .. m
        PROVE  Kept(J, j, m)
    <3>1. CASE j = m
      BY <1>1, <1>2, <3>1 DEF Kept
    <3>2. CASE j # m
      <4>1. j \in 0 .. m - 1 /\ j \in 0 .. n
        BY <1>1, <3>2
      <4>2. Kept(J, j, m - 1)
        BY <1>4, <4>1
      <4>3. Len(J[j]) <= Len(J[m - 1])
        <5>1. j = m - 1 \/ j < m - 1
          BY <1>1, <4>1
        <5> QED
          BY <1>2, <2>1, <4>1, <4>2, <5>1 DEF Kept
      <4>4. Len(J[j]) < Len(J[m])
        BY <1>2, <2>1, <2>3, <4>1, <4>3
      <4>5. ASSUME NEW p \in 1 .. Len(J[j])
            PROVE  p <= Len(J[m]) /\ J[m][p] = J[j][p]
        <5>1. p \in 1 .. Len(J[m - 1])
          BY <1>2, <2>1, <4>1, <4>3
        <5>2. J[m][p] = J[m - 1][p] /\ J[m - 1][p] = J[j][p]
          BY <2>1, <4>2, <5>1 DEF Follows, Kept
        <5> QED
          BY <1>2, <2>1, <4>1, <4>4, <5>2
      <4> QED
        BY <1>2, <2>1, <4>1, <4>4, <4>5 DEF Kept
    <3> QED
      BY <3>1, <3>2
  <2> QED
    BY <2>1, <2>4
<1>5. 0 .. n \subseteq T
  <2> HIDE DEF T
  <2> QED
    BY <1>1, <1>3, <1>4, Induction
<1> QED
  BY <1>5

\* The terminators are where the strings end, if no string has one in it.
LEMMA TerminatorsEnd ==
  ASSUME NEW list \in Lists, NulFree(list), NEW J, Joins(list, J)
  PROVE  Nuls(J[Len(list)]) = {Len(J[i]) : i \in 1 .. Len(list)}
<1> DEFINE n == Len(list)
           T == {k \in 0 .. n : Nuls(J[k]) = {Len(J[i]) : i \in 1 .. k}}
<1>1. n \in Nat /\ DOMAIN list = 1 .. n
  BY DEF Lists
<1>2. \A m \in 0 .. n : Len(J[m]) \in Nat /\ DOMAIN J[m] = 1 .. Len(J[m])
  <2> TAKE m \in 0 .. n
  <2>1. J[m] \in Seq(Byte)
    BY DEF Joins
  <2> QED
    BY <2>1
<1>3. 0 \in T
  <2>1. J[0] = <<>> /\ 0 \in 0 .. n
    BY <1>1 DEF Joins
  <2>2. Nuls(J[0]) = {}
    BY <2>1 DEF Nuls
  <2> QED
    BY <2>1, <2>2
<1>4. ASSUME NEW k \in 1 .. n, k - 1 \in T
      PROVE  k \in T
  <2>1. Follows(list, J, k) /\ k - 1 \in 0 .. n /\ k \in 0 .. n
    BY <1>1, JoinsFollow
  <2>2. \A p \in 1 .. Len(list[k]) : list[k][p] # Nul
    <3>1. list[k] \in Seq(Byte) /\ Nul \notin ToSet(list[k])
      BY <1>1, <2>1 DEF Follows, NulFree
    <3> QED
      BY <3>1 DEF ToSet
  <2>3. Nuls(J[k]) = Nuls(J[k - 1]) \cup {Len(J[k])}
    <3> DEFINE before == Len(J[k - 1])
               size == Len(list[k])
               upto == Len(J[k])
    <3>1. before \in Nat /\ size \in Nat /\ upto = before + size + 1
      BY <2>1 DEF Follows
    <3>2. DOMAIN J[k - 1] = 1 .. before /\ DOMAIN J[k] = 1 .. upto
      BY <1>2, <2>1
    <3>3. /\ \A p \in 1 .. before : J[k][p] = J[k - 1][p]
          /\ \A p \in 1 .. size : J[k][before + p] # Nul
          /\ J[k][upto] = Nul
      BY <2>1, <2>2 DEF Follows
    <3> HIDE DEF before, size, upto
    <3>4. ASSUME NEW p \in 1 .. upto
          PROVE  J[k][p] = Nul <=> (p = upto \/ (p \in 1 .. before /\ J[k - 1][p] = Nul))
      <4>1. CASE p \in 1 .. before
        BY <3>1, <3>3, <4>1
      <4>2. CASE p = upto
        BY <3>1, <3>3, <4>2
      <4>3. CASE p \notin 1 .. before /\ p # upto
        <5>1. PICK q \in 1 .. size : p = before + q
          <6>1. p - before \in 1 .. size /\ p = before + (p - before)
            BY <3>1, <4>3
          <6> QED
            BY <6>1
        <5> QED
          BY <3>3, <4>3, <5>1
      <4> QED
        BY <4>1, <4>2, <4>3
    <3>5. upto \in 1 .. upto /\ 1 .. before \subseteq 1 .. upto
      BY <3>1
    <3>6. Nuls(J[k]) = Nuls(J[k - 1]) \cup {upto}
      BY <3>2, <3>4, <3>5 DEF Nuls
    <3> QED
      BY <3>6 DEF upto
  <2>4. 1 .. k = (1 .. k - 1) \cup {k}
    BY <1>1
  <2>5. Nuls(J[k - 1]) = {Len(J[i]) : i \in 1 .. k - 1}
    BY <1>4
  <2>6. Nuls(J[k]) = {Len(J[i]) : i \in 1 .. k}
    BY <2>3, <2>4, <2>5
  <2> QED
    BY <2>1, <2>6
<1>5. 0 .. n \subseteq T
  <2> HIDE DEF T
  <2> QED
    BY <1>1, <1>3, <1>4, Induction
<1>6. n \in 0 .. n
  BY <1>1
<1> QED
  BY <1>5, <1>6

\* From the first byte of a string, the next terminator is its own.
LEMMA NextTerminator ==
  ASSUME NEW list \in Lists, NulFree(list), NEW J, Joins(list, J), NEW k \in 1 .. Len(list)
  PROVE  NextNul(J[Len(list)], Len(J[k - 1]) + 1) = Len(J[k])
<1> DEFINE n == Len(list)
           nuls == {p \in Nuls(J[n]) : Len(J[k - 1]) + 1 <= p}
<1>1. n \in Nat
  BY DEF Lists
<1>2. nuls = {p \in {Len(J[i]) : i \in 1 .. n} : Len(J[k - 1]) + 1 <= p}
  BY TerminatorsEnd
<1>3. \A i, j \in 0 .. n : /\ Len(J[i]) \in Nat /\ Len(J[j]) \in Nat
                           /\ i < j => Len(J[i]) < Len(J[j])
  <2> TAKE i, j \in 0 .. n
  <2>1. i <= j => Kept(J, i, j)
    BY <1>1, JoinsKept
  <2>2. Kept(J, i, i) /\ Kept(J, j, j)
    BY <1>1, JoinsKept
  <2> QED
    BY <1>1, <2>1, <2>2 DEF Kept
<1>4. k - 1 \in 0 .. n /\ k \in 0 .. n /\ k \in 1 .. n /\ k - 1 < k
  BY <1>1
<1> HIDE DEF n, nuls
<1>5. Len(J[k]) \in nuls
  BY <1>2, <1>3, <1>4
<1>6. \A p \in nuls : p \in Nat /\ Len(J[k]) <= p
  <2> TAKE p \in nuls
  <2>1. PICK i \in 1 .. n : p = Len(J[i]) /\ Len(J[k - 1]) + 1 <= Len(J[i])
    BY <1>2
  <2>2. i \in 0 .. n /\ i \in Nat /\ k \in Nat /\ Len(J[i]) \in Nat
    BY <1>1, <1>3, <1>4, <2>1
  <2>3. ~ (i < k)
    <3>1. i < k => i = k - 1 \/ i < k - 1
      BY <1>4, <2>2
    <3>2. Len(J[k - 1]) \in Nat /\ Len(J[i]) \in Nat /\ (i < k - 1 => Len(J[i]) < Len(J[k - 1]))
      BY <1>3, <1>4, <2>2
    <3> QED
      BY <2>1, <3>1, <3>2
  <2>4. i = k \/ k < i
    BY <2>2, <2>3
  <2> QED
    BY <1>3, <1>4, <2>1, <2>2, <2>4
<1>7. Min(nuls) \in nuls /\ \A p \in nuls : Min(nuls) <= p
  BY <1>5, <1>6, Least
<1>8. Min(nuls) = Len(J[k])
  BY <1>3, <1>4, <1>5, <1>6, <1>7
<1> QED
  BY <1>8 DEF NextNul, nuls, n

\* A guest that splits a list by its terminators has the strings it was made of.
THEOREM ListSplits ==
  ASSUME NEW list \in Lists, NulFree(list)
  PROVE  /\ Cardinality(Nuls(Terminated(list))) = Len(list)
         /\ Strings(Terminated(list), Len(list)) = list
<1>1. PICK J : Joins(list, J)
  BY JoinsExist
<1> DEFINE n == Len(list)
           bytes == Terminated(list)
           g == [k \in 0 .. n |-> Len(J[k]) + 1]
           f == CHOOSE start :
                  start = [k \in 0 .. n |-> IF k = 0 THEN 1 ELSE NextNul(bytes, start[k - 1]) + 1]
           T == {k \in 0 .. n : f[k] = g[k]}
<1>2. n \in Nat /\ DOMAIN list = 1 .. n /\ list = [k \in 1 .. n |-> list[k]]
  BY DEF Lists
<1>3. bytes = J[n] /\ bytes \in Seq(Byte)
  <2>1. n \in 0 .. n
    BY <1>2
  <2> QED
    BY <1>1, <2>1, TerminatedJoins DEF Joins
<1>4. Len(J[0]) + 1 = 1
  BY <1>1 DEF Joins
<1>5. \A k \in 1 .. n : NextNul(bytes, Len(J[k - 1]) + 1) = Len(J[k])
  BY <1>1, <1>3, NextTerminator
<1> HIDE DEF bytes
<1>6. g = [k \in 0 .. n |-> IF k = 0 THEN 1 ELSE NextNul(bytes, g[k - 1]) + 1]
  <2>1. \A k \in 1 .. n : g[k - 1] = Len(J[k - 1]) + 1
    BY <1>2
  <2>2. \A k \in 0 .. n : k = 0 \/ k \in 1 .. n
    BY <1>2
  <2>3. \A k \in 0 .. n : Len(J[k]) + 1 = IF k = 0 THEN 1 ELSE NextNul(bytes, g[k - 1]) + 1
    BY <1>4, <1>5, <2>1, <2>2
  <2> QED
    BY <2>3
<1>7. f = [k \in 0 .. n |-> IF k = 0 THEN 1 ELSE NextNul(bytes, f[k - 1]) + 1]
  BY <1>6, Zenon
<1>8. Strings(bytes, n) = [k \in 1 .. n |-> SubSeq(bytes, f[k - 1], f[k] - 2)]
  BY Zenon DEF Strings
<1> HIDE DEF f
<1>9. 0 .. n \subseteq T
  <2>1. f[0] = 1 /\ \A k \in 1 .. n : f[k] = NextNul(bytes, f[k - 1]) + 1
    BY <1>2, <1>7
  <2> HIDE DEF g
  <2>2. g[0] = 1 /\ \A k \in 1 .. n : g[k] = NextNul(bytes, g[k - 1]) + 1
    BY <1>2, <1>6
  <2> HIDE DEF n
  <2>3. 0 \in T
    BY <1>2, <2>1, <2>2
  <2>4. ASSUME NEW k \in 1 .. n, k - 1 \in T
        PROVE  k \in T
    <3>1. k \in 0 .. n /\ f[k - 1] = g[k - 1]
      BY <1>2, <2>4
    <3> QED
      BY <2>1, <2>2, <3>1
  <2> QED
    BY <1>2, <2>3, <2>4, Induction
<1>10. ASSUME NEW k \in 1 .. n
       PROVE  SubSeq(bytes, f[k - 1], f[k] - 2) = list[k]
  <2>1. k - 1 \in 0 .. n /\ k \in 0 .. n
    BY <1>2
  <2>2. f[k - 1] = Len(J[k - 1]) + 1 /\ f[k] = Len(J[k]) + 1
    BY <1>9, <2>1
  <2>3. Follows(list, J, k) /\ Kept(J, k, n)
    BY <1>1, <1>2, <2>1, JoinsFollow, JoinsKept
  <2> DEFINE before == Len(J[k - 1])
             upto == Len(J[k])
             s == list[k]
  <2>4. /\ s \in Seq(Byte) /\ Len(s) \in Nat
        /\ before \in Nat /\ upto = before + Len(s) + 1
        /\ \A p \in 1 .. Len(s) : J[k][before + p] = s[p]
    BY <2>3 DEF Follows
  <2>5. \A p \in 1 .. upto : p <= Len(bytes) /\ bytes[p] = J[k][p]
    BY <1>3, <2>3 DEF Kept
  <2> HIDE DEF before, upto, s
  <2>6. upto - 1 = before + Len(s) /\ upto <= Len(bytes)
    BY <2>4, <2>5
  <2>7. \A p \in 1 .. Len(s) : bytes[before + p] = s[p]
    BY <2>4, <2>5
  <2>8. SubSeq(bytes, before + 1, before + Len(s)) = s
    <3>1. PICK piece \in Seq(Byte) : piece = SubSeq(bytes, before + 1, before + Len(s))
      <4>1. \A i \in before + 1 .. before + Len(s) : bytes[i] \in Byte
        BY <1>3, <2>4, <2>6
      <4>2. before + 1 \in Int /\ before + Len(s) \in Int
        BY <2>4
      <4> QED
        BY <4>1, <4>2, SubSeqProperties
    <3>2. Len(piece) = Len(s) /\ \A p \in 1 .. Len(s) : piece[p] = bytes[before + p]
      BY <1>3, <2>4, <2>6, <3>1, SubSeqProperties
    <3> QED
      BY <2>4, <2>7, <3>1, <3>2, SeqEqual
  <2>9. before + 1 = f[k - 1] /\ before + Len(s) = f[k] - 2
    BY <2>2, <2>4 DEF before, upto
  <2> QED
    BY <2>8, <2>9 DEF s
<1>11. Strings(bytes, n) = list
  BY <1>2, <1>8, <1>10
<1>12. Cardinality(Nuls(bytes)) = n
  <2> DEFINE end == [k \in 1 .. n |-> Len(J[k])]
  <2>1. Nuls(bytes) = {Len(J[i]) : i \in 1 .. n}
    BY <1>1, <1>3, TerminatorsEnd
  <2>2. \A i, j \in 1 .. n : end[i] = end[j] => i = j
    <3> TAKE i, j \in 1 .. n
    <3>1. (i < j => Kept(J, i, j)) /\ (j < i => Kept(J, j, i))
      BY <1>1, <1>2, JoinsKept
    <3> QED
      BY <1>2, <3>1 DEF Kept
  <2>3. end \in Bijection(1 .. n, Nuls(bytes))
    <3>1. end \in [1 .. n -> Nuls(bytes)] /\ \A p \in Nuls(bytes) : \E i \in 1 .. n : end[i] = p
      BY <2>1
    <3> HIDE DEF end
    <3> QED
      BY <2>2, <3>1 DEF Bijection, Injection, Surjection, IsInjective
  <2>4. IsFiniteSet(1 .. n) /\ Cardinality(1 .. n) = n
    BY <1>2, FS_Interval
  <2>5. Cardinality(Nuls(bytes)) = Cardinality(1 .. n)
    <3> HIDE DEF end
    <3> QED
      BY <2>3, <2>4, FS_Bijection DEF ExistsBijection
  <2> QED
    BY <2>4, <2>5
<1> QED
  BY <1>11, <1>12 DEF bytes

\* CountLen tells how long a list is.
LEMMA ListLength ==
  ASSUME NEW list \in Lists
  PROVE  /\ Terminated(list) \in Seq(Byte)
         /\ CountLen(list).count = Len(list)
         /\ CountLen(list).len = Len(Terminated(list))
<1>1. PICK J : Joins(list, J)
  BY JoinsExist
<1>2. Len(list) \in 0 .. Len(list)
  BY DEF Lists
<1>3. J[Len(list)] \in Seq(Byte)
  BY <1>1, <1>2 DEF Joins
<1>4. Terminated(list) = J[Len(list)] /\ ByteCount(list) = Len(J[Len(list)])
  BY <1>1, TerminatedJoins, ByteCountJoins
<1>5. list = <<>> => Len(J[Len(list)]) = 0
  BY <1>1 DEF Joins
<1> QED
  BY <1>3, <1>4, <1>5 DEF CountLen
=============================================================================
