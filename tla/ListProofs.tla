----------------------------- MODULE ListProofs -----------------------------
(***************************************************************************)
(* What the operators on lists compute, for lists of any length.  The      *)
(* induction principles of the library take an operator; here they are     *)
(* stated about sets, so that a definition recursive on the length of a    *)
(* list can be reasoned about: first that there is a function of its kind, *)
(* then what it computes.                                                  *)
(***************************************************************************)
EXTENDS Lists, Integers, FiniteSets, SequencesExt, FiniteSetTheorems, WellFoundedInduction, TLAPS

-----------------------------------------------------------------------------
(* Induction. *)

LEMMA Least ==
    ASSUME NEW S \in SUBSET Nat, S # {}
    PROVE  \E n \in S : \A m \in S : n <= m
<1>1. PICK n \in S : \A m \in S : ~ (<< m, n >> \in OpToRel(<, Nat))
  BY WFMin, NatLessThanWellFounded
<1>2. \A m \in S : ~ (m < n)
  BY <1>1 DEF OpToRel
<1> QED BY <1>2

LEMMA Induction ==
    ASSUME NEW S, 0 \in S, \A n \in Nat : n \in S => n + 1 \in S
    PROVE  Nat \subseteq S
<1> SUFFICES ASSUME Nat \ S # {} PROVE FALSE
  OBVIOUS
<1>1. PICK n \in Nat \ S : \A m \in Nat \ S : n <= m
  BY Least
<1>2. n # 0 /\ n - 1 \in Nat /\ n - 1 < n
  BY <1>1
<1>3. n - 1 \in S
  BY <1>1, <1>2
<1> QED BY <1>1, <1>2, <1>3

-----------------------------------------------------------------------------
(* Kept. *)

(* What Kept defines by recursion, up to place m. *)
KeptUpTo(list, places, m, f) ==
    f = [n \in 0 .. m |->
            IF n = 0 THEN << >>
            ELSE IF n \in places THEN Append(f[n - 1], list[n])
            ELSE f[n - 1]]

LEMMA KeptExists ==
    ASSUME NEW list, NEW places, NEW m \in Nat
    PROVE  \E f : KeptUpTo(list, places, m, f)
<1> DEFINE S == {n \in Nat : \E f : KeptUpTo(list, places, n, f)}
<1>1. 0 \in S
  <2>1. KeptUpTo(list, places, 0, [k \in 0 .. 0 |-> << >>])
    BY DEF KeptUpTo
  <2> QED BY <2>1
<1>2. ASSUME NEW n \in Nat, n \in S PROVE n + 1 \in S
  <2>1. PICK f : KeptUpTo(list, places, n, f)
    BY <1>2
  <2> DEFINE next == IF n + 1 \in places THEN Append(f[n], list[n + 1]) ELSE f[n]
             g == [k \in 0 .. n + 1 |-> IF k = n + 1 THEN next ELSE f[k]]
  <2>2. \A k \in 0 .. n : f[k] = IF k = 0 THEN << >>
                                 ELSE IF k \in places THEN Append(f[k - 1], list[k])
                                 ELSE f[k - 1]
    BY <2>1 DEF KeptUpTo
  <2>3. /\ \A k \in 0 .. n : g[k] = f[k]
        /\ g[n + 1] = next
        /\ g = [k \in 0 .. n + 1 |-> g[k]]
    OBVIOUS
  <2> HIDE DEF next, g
  <2>4. ASSUME NEW k \in 0 .. n + 1
        PROVE  g[k] = IF k = 0 THEN << >>
                      ELSE IF k \in places THEN Append(g[k - 1], list[k])
                      ELSE g[k - 1]
    <3>1. CASE k = n + 1
      <4>1. g[k - 1] = f[n]
        BY <3>1, <2>3
      <4> QED BY <3>1, <4>1, <2>3 DEF next
    <3>2. CASE k # n + 1
      <4>1. k \in 0 .. n /\ (k # 0 => k - 1 \in 0 .. n)
        BY <3>2
      <4> QED BY <4>1, <2>2, <2>3
    <3> QED BY <3>1, <3>2
  <2>5. KeptUpTo(list, places, n + 1, g)
    BY <2>3, <2>4 DEF KeptUpTo
  <2> QED BY <2>5
<1> HIDE DEF S
<1>3. Nat \subseteq S
  BY <1>1, <1>2, Induction
<1> QED BY <1>3 DEF S

(* The elements of result are those of list, up to place m, that are at      *)
(* places, in their order: from says where each comes from.                  *)
Selects(list, places, m, result, from) ==
    /\ from \in [1 .. Len(result) -> 1 .. m]
    /\ \A i, j \in 1 .. Len(result) : i < j => from[i] < from[j]
    /\ \A i \in 1 .. Len(result) : from[i] \in places /\ result[i] = list[from[i]]
    /\ \A n \in 1 .. m : n \in places => \E i \in 1 .. Len(result) : from[i] = n

LEMMA KeptSelects ==
    ASSUME NEW S, NEW list \in Seq(S), NEW places
    PROVE  /\ Kept(list, places) \in Seq(S)
           /\ \E from : Selects(list, places, Len(list), Kept(list, places), from)
<1>0. Len(list) \in Nat
  OBVIOUS
<1>1. PICK f : KeptUpTo(list, places, Len(list), f)
  BY <1>0, KeptExists
<1>2. PICK g : KeptUpTo(list, places, Len(list), g) /\ Kept(list, places) = g[Len(list)]
  BY <1>1 DEF Kept, KeptUpTo
<1>3. /\ g[0] = << >>
      /\ \A n \in 1 .. Len(list) :
            g[n] = IF n \in places THEN Append(g[n - 1], list[n]) ELSE g[n - 1]
  <2>1. \A n \in 0 .. Len(list) :
            g[n] = IF n = 0 THEN << >>
                   ELSE IF n \in places THEN Append(g[n - 1], list[n])
                   ELSE g[n - 1]
    BY <1>2 DEF KeptUpTo
  <2> QED BY <1>0, <2>1
<1> DEFINE T == {n \in Nat : n <= Len(list) =>
                    /\ g[n] \in Seq(S)
                    /\ \E from : Selects(list, places, n, g[n], from)}
<1>4. 0 \in T
  <2>1. Selects(list, places, 0, << >>, [i \in 1 .. 0 |-> 0])
    BY DEF Selects
  <2>2. g[0] \in Seq(S)
    BY <1>3
  <2>3. \E from : Selects(list, places, 0, g[0], from)
    BY <1>3, <2>1
  <2> QED BY <2>2, <2>3
<1>5. ASSUME NEW n \in Nat, n \in T PROVE n + 1 \in T
  <2> SUFFICES ASSUME n + 1 <= Len(list)
               PROVE  /\ g[n + 1] \in Seq(S)
                      /\ \E from : Selects(list, places, n + 1, g[n + 1], from)
    OBVIOUS
  <2>1. g[n] \in Seq(S) /\ list[n + 1] \in S
    BY <1>5
  <2>2. PICK from : Selects(list, places, n, g[n], from)
    BY <1>5
  <2>3. g[n + 1] = IF n + 1 \in places THEN Append(g[n], list[n + 1]) ELSE g[n]
    BY <1>3
  <2>4. CASE n + 1 \notin places
    <3>1. Selects(list, places, n + 1, g[n], from)
      BY <2>2, <2>4 DEF Selects
    <3> QED BY <2>1, <2>3, <2>4, <3>1
  <2>5. CASE n + 1 \in places
    <3> DEFINE r == g[n]
               s == Append(r, list[n + 1])
               h == [i \in 1 .. Len(s) |-> IF i <= Len(r) THEN from[i] ELSE n + 1]
    <3>1. /\ s \in Seq(S) /\ Len(s) = Len(r) + 1 /\ Len(r) \in Nat
          /\ \A i \in 1 .. Len(r) : s[i] = r[i]
          /\ s[Len(r) + 1] = list[n + 1]
      BY <2>1
    <3>2. /\ from \in [1 .. Len(r) -> 1 .. n]
          /\ \A i, j \in 1 .. Len(r) : i < j => from[i] < from[j]
          /\ \A i \in 1 .. Len(r) : from[i] \in places /\ r[i] = list[from[i]]
          /\ \A k \in 1 .. n : k \in places => \E i \in 1 .. Len(r) : from[i] = k
      BY <2>2 DEF Selects
    <3> HIDE DEF r, s
    <3>3. /\ \A i \in 1 .. Len(r) : h[i] = from[i] /\ h[i] \in 1 .. n
          /\ h[Len(r) + 1] = n + 1
          /\ DOMAIN h = 1 .. Len(s)
      BY <3>1, <3>2
    <3>4. h \in [1 .. Len(s) -> 1 .. n + 1]
      BY <3>1, <3>2
    <3> HIDE DEF h
    <3>5. ASSUME NEW i \in 1 .. Len(s), NEW j \in 1 .. Len(s), i < j
          PROVE  h[i] < h[j]
      <4>1. i \in 1 .. Len(r) /\ h[i] \in 1 .. n
        BY <3>1, <3>3, <3>5
      <4>2. CASE j = Len(r) + 1
        BY <4>1, <4>2, <3>3
      <4>3. CASE j # Len(r) + 1
        <5>1. j \in 1 .. Len(r)
          BY <3>1, <4>3
        <5> QED BY <3>2, <3>3, <3>5, <4>1, <5>1
      <4> QED BY <4>2, <4>3
    <3>6. \A i \in 1 .. Len(s) : h[i] \in places /\ s[i] = list[h[i]]
      BY <2>5, <3>1, <3>2, <3>3
    <3>7. ASSUME NEW k \in 1 .. n + 1, k \in places
          PROVE  \E i \in 1 .. Len(s) : h[i] = k
      <4>1. CASE k = n + 1
        BY <3>1, <3>3, <4>1
      <4>2. CASE k # n + 1
        <5>1. k \in 1 .. n
          BY <4>2
        <5>2. PICK i \in 1 .. Len(r) : from[i] = k
          BY <3>2, <3>7, <5>1
        <5> QED BY <3>1, <3>3, <5>2
      <4> QED BY <4>1, <4>2
    <3>8. Selects(list, places, n + 1, s, h)
      BY <3>4, <3>5, <3>6, <3>7 DEF Selects
    <3>9. g[n + 1] = s
      BY <2>3, <2>5 DEF s, r
    <3> QED BY <3>1, <3>8, <3>9
  <2> QED BY <2>4, <2>5
<1> HIDE DEF T
<1>6. Len(list) \in T
  BY <1>0, <1>4, <1>5, Induction
<1> QED BY <1>0, <1>2, <1>6 DEF T

-----------------------------------------------------------------------------
(* FlattenSeq. *)

FlatUpTo(seqs, m, f) ==
    f = [n \in 1 .. m |-> IF n = 1 THEN seqs[n] ELSE f[n - 1] \o seqs[n]]

LEMMA FlatExists ==
    ASSUME NEW seqs, NEW m \in Nat
    PROVE  \E f : FlatUpTo(seqs, m, f)
<1> DEFINE S == {n \in Nat : \E f : FlatUpTo(seqs, n, f)}
<1>1. 0 \in S
  <2>1. FlatUpTo(seqs, 0, [n \in 1 .. 0 |-> << >>])
    BY DEF FlatUpTo
  <2> QED BY <2>1
<1>2. ASSUME NEW n \in Nat, n \in S PROVE n + 1 \in S
  <2>1. PICK f : FlatUpTo(seqs, n, f)
    BY <1>2
  <2> DEFINE next == IF n + 1 = 1 THEN seqs[n + 1] ELSE f[n] \o seqs[n + 1]
             g == [k \in 1 .. n + 1 |-> IF k = n + 1 THEN next ELSE f[k]]
  <2>2. \A k \in 1 .. n : f[k] = IF k = 1 THEN seqs[k] ELSE f[k - 1] \o seqs[k]
    BY <2>1 DEF FlatUpTo
  <2>e. g = [k \in 1 .. n + 1 |-> IF k = n + 1 THEN next ELSE f[k]]
    OBVIOUS
  <2> HIDE DEF next, g
  <2>3. /\ \A k \in 1 .. n : g[k] = f[k]
        /\ g[n + 1] = next
        /\ g = [k \in 1 .. n + 1 |-> g[k]]
    <3>1. \A k \in 1 .. n : g[k] = f[k]
      BY <2>e
    <3>2. n + 1 \in 1 .. n + 1
      OBVIOUS
    <3>3. g[n + 1] = next
      BY <2>e, <3>2
    <3>4. g = [k \in 1 .. n + 1 |-> g[k]]
      BY <2>e
    <3> QED BY <3>1, <3>3, <3>4
  <2>4. ASSUME NEW k \in 1 .. n + 1
        PROVE  g[k] = IF k = 1 THEN seqs[k] ELSE g[k - 1] \o seqs[k]
    <3>1. CASE k = n + 1
      <4>0. n # 0 => n \in 1 .. n
        OBVIOUS
      <4>1. n # 0 => g[n] = f[n]
        BY <2>3, <4>0
      <4> QED BY <3>1, <4>1, <2>3 DEF next
    <3>2. CASE k # n + 1
      <4>1. k \in 1 .. n /\ (k # 1 => k - 1 \in 1 .. n)
        BY <3>2
      <4> QED BY <4>1, <2>2, <2>3
    <3> QED BY <3>1, <3>2
  <2>5. FlatUpTo(seqs, n + 1, g)
    BY <2>3, <2>4 DEF FlatUpTo
  <2> QED BY <2>5
<1> HIDE DEF S
<1>3. Nat \subseteq S
  BY <1>1, <1>2, Induction
<1> QED BY <1>3 DEF S

(* flat is made of the first m of the lists one after another, list k being  *)
(* behind place off[k].                                                      *)
Blocks(seqs, m, flat, off) ==
    /\ off \in [1 .. m + 1 -> Nat]
    /\ off[1] = 0 /\ off[m + 1] = Len(flat)
    /\ \A k \in 1 .. m : off[k + 1] = off[k] + Len(seqs[k])
    /\ \A k \in 1 .. m : \A j \in 1 .. Len(seqs[k]) : flat[off[k] + j] = seqs[k][j]
    /\ \A i \in 1 .. Len(flat) :
          \E k \in 1 .. m : \E j \in 1 .. Len(seqs[k]) : i = off[k] + j

LEMMA BlocksAppend ==
    ASSUME NEW S, NEW seqs \in Seq(Seq(S)), NEW m \in Nat, m + 1 <= Len(seqs),
           NEW flat \in Seq(S), NEW off, Blocks(seqs, m, flat, off)
    PROVE  \E h : Blocks(seqs, m + 1, flat \o seqs[m + 1], h)
<1> DEFINE last == seqs[m + 1]
           all == flat \o last
           h == [k \in 1 .. m + 2 |-> IF k = m + 2 THEN Len(flat) + Len(last) ELSE off[k]]
<1>1. last \in Seq(S) /\ Len(last) \in Nat /\ Len(flat) \in Nat
  OBVIOUS
<1>2. /\ Len(all) = Len(flat) + Len(last)
      /\ \A i \in 1 .. Len(flat) : all[i] = flat[i]
      /\ \A j \in 1 .. Len(last) : all[Len(flat) + j] = last[j]
  BY <1>1
<1>3. /\ off \in [1 .. m + 1 -> Nat]
      /\ off[1] = 0 /\ off[m + 1] = Len(flat)
      /\ \A k \in 1 .. m : off[k + 1] = off[k] + Len(seqs[k])
      /\ \A k \in 1 .. m : \A j \in 1 .. Len(seqs[k]) : flat[off[k] + j] = seqs[k][j]
      /\ \A i \in 1 .. Len(flat) :
            \E k \in 1 .. m : \E j \in 1 .. Len(seqs[k]) : i = off[k] + j
  BY DEF Blocks
<1>4. /\ \A k \in 1 .. m + 1 : h[k] = off[k]
      /\ h[m + 2] = Len(flat) + Len(last)
      /\ h \in [1 .. m + 2 -> Nat]
  BY <1>1, <1>3
<1>5. \A k \in 1 .. m : seqs[k] \in Seq(S) /\ Len(seqs[k]) \in Nat
  OBVIOUS
<1> DEFINE size == [k \in 1 .. m |-> Len(seqs[k])]
<1>s. size \in [1 .. m -> Nat] /\ \A k \in 1 .. m : size[k] = Len(seqs[k])
  BY <1>5
<1> HIDE DEF size
<1>6. \A k \in 1 .. m : off[k] + size[k] <= Len(flat)
  <2>0. \A k \in 1 .. m : off[k + 1] = off[k] + size[k]
    BY <1>3, <1>s
  <2> DEFINE T == {n \in Nat : n < m => off[m - n] + size[m - n] <= Len(flat)}
  <2>1. 0 \in T
    BY <1>3, <2>0
  <2>2. ASSUME NEW n \in Nat, n \in T PROVE n + 1 \in T
    <3> SUFFICES ASSUME n + 1 < m
                 PROVE  off[m - (n + 1)] + size[m - (n + 1)] <= Len(flat)
      OBVIOUS
    <3>1. PICK k \in 1 .. m : k = m - (n + 1)
      OBVIOUS
    <3>2. k + 1 = m - n /\ k + 1 \in 1 .. m /\ k + 1 \in 1 .. m + 1 /\ n < m
      BY <3>1
    <3>3. off[k + 1] + size[k + 1] <= Len(flat)
      BY <2>2, <3>2
    <3>4. off[k + 1] = off[k] + size[k]
      BY <2>0
    <3>5. size[k + 1] \in Nat /\ size[k] \in Nat /\ off[k] \in Nat
      <4>1. size[k + 1] \in Nat
        BY <1>s, <3>2
      <4>2. size[k] \in Nat
        BY <1>s
      <4>3. k \in 1 .. m + 1
        OBVIOUS
      <4>4. off[k] \in Nat
        BY <1>3, <4>3
      <4> QED BY <4>1, <4>2, <4>4
    <3>6. off[k] + size[k] <= Len(flat)
      BY <1>1, <3>3, <3>4, <3>5
    <3> QED BY <3>1, <3>6
  <2> HIDE DEF T
  <2>3. Nat \subseteq T
    BY <2>1, <2>2, Induction
  <2> SUFFICES ASSUME NEW k \in 1 .. m PROVE off[k] + size[k] <= Len(flat)
    OBVIOUS
  <2>4. m - k \in Nat /\ m - k < m /\ m - (m - k) = k
    OBVIOUS
  <2> QED BY <2>3, <2>4 DEF T
<1> HIDE DEF h, all, last
<1>7. \A k \in 1 .. m + 1 : h[k + 1] = h[k] + Len(seqs[k])
  <2> SUFFICES ASSUME NEW k \in 1 .. m + 1 PROVE h[k + 1] = h[k] + Len(seqs[k])
    OBVIOUS
  <2>1. CASE k = m + 1
    BY <1>3, <1>4, <2>1 DEF last
  <2>2. CASE k # m + 1
    <3>1. k \in 1 .. m /\ k + 1 \in 1 .. m + 1
      BY <2>2
    <3> QED BY <1>3, <1>4, <3>1
  <2> QED BY <2>1, <2>2
<1>8. ASSUME NEW k \in 1 .. m + 1, NEW j \in 1 .. Len(seqs[k])
      PROVE  all[h[k] + j] = seqs[k][j]
  <2>1. CASE k = m + 1
    BY <1>2, <1>3, <1>4, <2>1 DEF last
  <2>2. CASE k # m + 1
    <3>0. k \in 1 .. m /\ k \in 1 .. m + 1
      BY <2>2
    <3>1. k \in 1 .. m /\ size[k] \in Nat /\ off[k] \in Nat /\ j \in 1 .. size[k]
      <4>1. size[k] = Len(seqs[k]) /\ size[k] \in Nat
        BY <1>s, <3>0
      <4>2. off[k] \in Nat
        BY <1>3, <3>0
      <4> QED BY <3>0, <4>1, <4>2
    <3>2. off[k] + j \in 1 .. Len(flat)
      <4>1. off[k] + size[k] <= Len(flat)
        BY <1>6, <3>1
      <4>2. j \in Nat /\ j >= 1 /\ j <= size[k]
        BY <3>1
      <4>3. size[k] \in Nat /\ off[k] \in Nat
        BY <3>1
      <4>4. off[k] + j >= 1 /\ off[k] + j <= Len(flat) /\ off[k] + j \in Nat
        <5>1. \A o, z, l \in Nat : o + z <= l /\ j <= z =>
                 o + j >= 1 /\ o + j <= l /\ o + j \in Nat
          BY <4>2
        <5> QED BY <1>1, <4>1, <4>2, <4>3, <5>1
      <4> QED BY <1>1, <4>4
    <3>3. flat[off[k] + j] = seqs[k][j]
      BY <1>3, <3>1
    <3>4. h[k] = off[k]
      BY <1>4
    <3>5. all[off[k] + j] = flat[off[k] + j]
      BY <1>2, <3>2
    <3> QED BY <3>3, <3>4, <3>5
  <2> QED BY <2>1, <2>2
<1>9. ASSUME NEW i \in 1 .. Len(all)
      PROVE  \E k \in 1 .. m + 1 : \E j \in 1 .. Len(seqs[k]) : i = h[k] + j
  <2>1. CASE i <= Len(flat)
    <3>0. i \in 1 .. Len(flat)
      BY <1>1, <2>1
    <3>1. PICK k \in 1 .. m : \E j \in 1 .. Len(seqs[k]) : i = off[k] + j
      BY <1>3, <3>0
    <3>2. k \in 1 .. m + 1 /\ h[k] = off[k]
      BY <1>4
    <3> QED BY <3>1, <3>2
  <2>2. CASE i > Len(flat)
    <3>1. i - Len(flat) \in 1 .. Len(last)
      BY <1>1, <1>2, <2>2
    <3>2. h[m + 1] = Len(flat) /\ m + 1 \in 1 .. m + 1
      BY <1>3, <1>4
    <3>3. i = h[m + 1] + (i - Len(flat))
      BY <1>1, <1>2, <3>2
    <3> QED BY <3>1, <3>2, <3>3 DEF last
  <2> QED BY <1>1, <1>2, <2>1, <2>2
<1>10. Blocks(seqs, m + 1, all, h)
  <2>1. h \in [1 .. m + 1 + 1 -> Nat] /\ h[m + 1 + 1] = Len(all)
    BY <1>2, <1>4
  <2>2. h[1] = 0
    BY <1>3, <1>4
  <2> QED BY <1>7, <1>8, <1>9, <2>1, <2>2 DEF Blocks
<1> QED BY <1>10 DEF all, last

LEMMA FlattenBlocks ==
    ASSUME NEW S, NEW seqs \in Seq(Seq(S))
    PROVE  /\ FlattenSeq(seqs) \in Seq(S)
           /\ \E off : Blocks(seqs, Len(seqs), FlattenSeq(seqs), off)
<1>0. Len(seqs) \in Nat
  OBVIOUS
<1>e. Blocks(seqs, 0, << >>, [k \in 1 .. 1 |-> 0])
  BY DEF Blocks
<1>1. CASE Len(seqs) = 0
  <2>0. seqs = << >>
    BY <1>1
  <2>1. FlattenSeq(seqs) = << >>
    BY <1>1, <2>0 DEF FlattenSeq
  <2>2. << >> \in Seq(S)
    OBVIOUS
  <2>3. Blocks(seqs, Len(seqs), FlattenSeq(seqs), [k \in 1 .. 1 |-> 0])
    BY <1>1, <1>e, <2>1
  <2> QED BY <2>1, <2>2, <2>3
<1>2. CASE Len(seqs) # 0
  <2>1. PICK f : FlatUpTo(seqs, Len(seqs), f)
    BY <1>0, FlatExists
  <2>2. PICK g : FlatUpTo(seqs, Len(seqs), g) /\ FlattenSeq(seqs) = g[Len(seqs)]
    BY <1>2, <2>1 DEF FlattenSeq, FlatUpTo
  <2>3. \A n \in 1 .. Len(seqs) : g[n] = IF n = 1 THEN seqs[n] ELSE g[n - 1] \o seqs[n]
    BY <2>2 DEF FlatUpTo
  <2> DEFINE T == {n \in Nat : n + 1 <= Len(seqs) =>
                      /\ g[n + 1] \in Seq(S)
                      /\ \E off : Blocks(seqs, n + 1, g[n + 1], off)}
  <2>4. 0 \in T
    <3>1. 0 + 1 <= Len(seqs) /\ g[1] = seqs[1] /\ seqs[1] \in Seq(S)
      BY <1>0, <1>2, <2>3
    <3>2. << >> \in Seq(S)
      OBVIOUS
    <3>3. \E off : Blocks(seqs, 0 + 1, << >> \o seqs[0 + 1], off)
      BY <1>e, <3>1, <3>2, BlocksAppend
    <3>4. << >> \o seqs[0 + 1] = g[1]
      BY <3>1
    <3>5. \E off : Blocks(seqs, 0 + 1, g[0 + 1], off)
      BY <3>3, <3>4
    <3> QED BY <3>1, <3>5
  <2>5. ASSUME NEW n \in Nat, n \in T PROVE n + 1 \in T
    <3> SUFFICES ASSUME n + 1 + 1 <= Len(seqs)
                 PROVE  /\ g[n + 1 + 1] \in Seq(S)
                        /\ \E off : Blocks(seqs, n + 1 + 1, g[n + 1 + 1], off)
      OBVIOUS
    <3>1. g[n + 1] \in Seq(S) /\ \E off : Blocks(seqs, n + 1, g[n + 1], off)
      BY <1>0, <2>5
    <3>2. g[n + 1 + 1] = g[n + 1] \o seqs[n + 1 + 1]
      <4>1. n + 2 \in 1 .. Len(seqs) /\ n + 2 # 1 /\ n + 2 - 1 = n + 1 /\ n + 1 + 1 = n + 2
        BY <1>0
      <4> DEFINE p == n + 2
      <4>p. p \in 1 .. Len(seqs) /\ p # 1
        BY <4>1
      <4>r. p = n + 1 + 1 /\ p - 1 = n + 1
        OBVIOUS
      <4> HIDE DEF p
      <4>q. g[p] = g[p - 1] \o seqs[p]
        BY <2>3, <4>p
      <4> QED BY <4>q, <4>r, Zenon
    <3>3. \E off : Blocks(seqs, n + 1 + 1, g[n + 1] \o seqs[n + 1 + 1], off)
      BY <3>1, BlocksAppend
    <3> QED BY <3>1, <3>2, <3>3
  <2> HIDE DEF T
  <2>6. Len(seqs) - 1 \in T
    <3>1. Nat \subseteq T
      BY <2>4, <2>5, Induction
    <3> QED BY <1>0, <1>2, <3>1
  <2> QED BY <1>0, <1>2, <2>2, <2>6 DEF T
<1> QED BY <1>1, <1>2

-----------------------------------------------------------------------------
(* Ranges, parts and removals. *)

LEMMA SeqDomain ==
    ASSUME NEW S, NEW list \in Seq(S)
    PROVE  Len(list) \in Nat /\ DOMAIN list = 1 .. Len(list)
OBVIOUS

LEMMA RangeHas ==
    ASSUME NEW S, NEW list \in Seq(S)
    PROVE  \A i \in 1 .. Len(list) : list[i] \in Range(list) /\ list[i] \in S
BY SeqDomain DEF Range

LEMMA RangeFrom ==
    ASSUME NEW S, NEW list \in Seq(S)
    PROVE  \A x \in Range(list) : \E i \in 1 .. Len(list) : x = list[i]
BY SeqDomain DEF Range

LEMMA RangeWithin ==
    ASSUME NEW S, NEW list \in Seq(S)
    PROVE  Range(list) \subseteq S
BY RangeFrom, RangeHas

LEMMA ListInRange ==
    ASSUME NEW S, NEW list \in Seq(S)
    PROVE  list \in Seq(Range(list))
<1>1. list = [i \in 1 .. Len(list) |-> list[i]]
  OBVIOUS
<1>2. list \in [1 .. Len(list) -> Range(list)]
  BY <1>1, RangeHas
<1>3. Len(list) \in Nat
  OBVIOUS
<1> QED BY <1>2, <1>3

(* A function on 1 .. n is a list. *)
LEMMA FunctionIsList ==
    ASSUME NEW n \in Nat, NEW list, DOMAIN list = 1 .. n,
           list = [i \in 1 .. n |-> list[i]]
    PROVE  list \in Seq(Range(list)) /\ Len(list) = n
<1>1. list \in [1 .. n -> Range(list)]
  BY DEF Range
<1> QED BY <1>1

(* Part is list without some of its elements: from says where each is from. *)
IsPart(list, part, from) ==
    /\ from \in [1 .. Len(part) -> 1 .. Len(list)]
    /\ \A i, j \in 1 .. Len(part) : i < j => from[i] < from[j]
    /\ \A i \in 1 .. Len(part) : part[i] = list[from[i]]

LEMMA RemoveAtIs ==
    ASSUME NEW S, NEW list \in Seq(S), NEW at \in 1 .. Len(list)
    PROVE  /\ RemoveAt(list, at) \in Seq(S)
           /\ Len(RemoveAt(list, at)) = Len(list) - 1
           /\ \A i \in 1 .. Len(list) - 1 :
                 RemoveAt(list, at)[i] = IF i < at THEN list[i] ELSE list[i + 1]
<1> DEFINE a == SubSeq(list, 1, at - 1)
           b == SubSeq(list, at + 1, Len(list))
<1>0. Len(list) \in Nat /\ at \in Nat /\ at >= 1 /\ at <= Len(list)
  OBVIOUS
<1>1. a \in Seq(S) /\ Len(a) = at - 1 /\ \A i \in 1 .. at - 1 : a[i] = list[i]
  BY <1>0
<1>2. b \in Seq(S) /\ Len(b) = Len(list) - at /\ \A i \in 1 .. Len(list) - at : b[i] = list[at + i]
  BY <1>0
<1>3. RemoveAt(list, at) = a \o b
  BY DEF RemoveAt
<1> HIDE DEF a, b
<1>c. a \in Seq(S) /\ b \in Seq(S)
  BY <1>1, <1>2
<1>4. a \o b \in Seq(S) /\ Len(a \o b) = Len(list) - 1
  <2>1. a \o b \in Seq(S) /\ Len(a \o b) = Len(a) + Len(b)
    BY <1>c
  <2>2. Len(a) + Len(b) = Len(list) - 1
    BY <1>0, <1>1, <1>2
  <2> QED BY <2>1, <2>2
<1>5. ASSUME NEW i \in 1 .. Len(list) - 1
      PROVE  (a \o b)[i] = IF i < at THEN list[i] ELSE list[i + 1]
  <2>1. CASE i < at
    <3>1. i \in 1 .. Len(a) /\ i \in 1 .. at - 1
      BY <1>0, <1>1, <2>1
    <3>2. (a \o b)[i] = a[i]
      BY <1>1, <1>2, <3>1
    <3> QED BY <1>1, <2>1, <3>1, <3>2
  <2>2. CASE ~ (i < at)
    <3>1. i - (at - 1) \in 1 .. Len(list) - at /\ at + (i - (at - 1)) = i + 1
      BY <1>0, <2>2
    <3>2. (a \o b)[i] = b[i - (at - 1)]
      BY <1>0, <1>1, <1>2, <2>2
    <3> QED BY <1>2, <2>2, <3>1, <3>2
  <2> QED BY <2>1, <2>2
<1> QED BY <1>3, <1>4, <1>5

LEMMA RemovalIsPart ==
    ASSUME NEW S, NEW list \in Seq(S), NEW T, NEW part \in Seq(T), NEW from,
           IsPart(list, part, from), NEW at \in 1 .. Len(part)
    PROVE  IsPart(list, RemoveAt(part, at),
                  [i \in 1 .. Len(part) - 1 |-> IF i < at THEN from[i] ELSE from[i + 1]])
<1> DEFINE n == Len(part) - 1
           r == RemoveAt(part, at)
           h == [i \in 1 .. n |-> IF i < at THEN from[i] ELSE from[i + 1]]
<1>1. Len(r) = n /\ \A i \in 1 .. n : r[i] = IF i < at THEN part[i] ELSE part[i + 1]
  BY RemoveAtIs
<1>2. n \in Nat /\ Len(part) = n + 1 /\ at \in 1 .. n + 1
  OBVIOUS
<1>3. /\ from \in [1 .. n + 1 -> 1 .. Len(list)]
      /\ \A i, j \in 1 .. n + 1 : i < j => from[i] < from[j]
      /\ \A i \in 1 .. n + 1 : part[i] = list[from[i]]
  BY <1>2 DEF IsPart
<1> HIDE DEF n, r
<1>4. \A i \in 1 .. n : i \in 1 .. n + 1 /\ i + 1 \in 1 .. n + 1
  BY <1>2
<1>5. \A i \in 1 .. n : h[i] = IF i < at THEN from[i] ELSE from[i + 1]
  OBVIOUS
<1>6. h \in [1 .. n -> 1 .. Len(list)]
  BY <1>3, <1>4
<1> HIDE DEF h
<1>7. ASSUME NEW i \in 1 .. n, NEW j \in 1 .. n, i < j PROVE h[i] < h[j]
  <2>1. CASE j < at
    BY <1>2, <1>3, <1>4, <1>5, <1>7, <2>1
  <2>2. CASE ~ (j < at)
    <3>1. h[j] = from[j + 1] /\ i < j + 1 /\ i + 1 < j + 1
      BY <1>2, <1>5, <1>7, <2>2
    <3>2. from[i] < from[j + 1] /\ from[i + 1] < from[j + 1]
      BY <1>3, <1>4, <3>1
    <3> QED BY <1>5, <3>1, <3>2
  <2> QED BY <2>1, <2>2
<1>8. ASSUME NEW i \in 1 .. n PROVE r[i] = list[h[i]]
  <2>1. part[i] = list[from[i]] /\ part[i + 1] = list[from[i + 1]]
    BY <1>3, <1>4
  <2>2. CASE i < at
    BY <1>1, <1>5, <2>1, <2>2
  <2>3. CASE ~ (i < at)
    BY <1>1, <1>5, <2>1, <2>3
  <2> QED BY <2>2, <2>3
<1>9. IsPart(list, r, h)
  BY <1>1, <1>6, <1>7, <1>8 DEF IsPart
<1> QED BY <1>9 DEF r, h, n

(* Numbers that increase reach as far as there are of them. *)
LEMMA Increasing ==
    ASSUME NEW n \in Nat, NEW m \in Nat, NEW from \in [1 .. n -> 1 .. m],
           \A i, j \in 1 .. n : i < j => from[i] < from[j]
    PROVE  n <= m /\ \A i \in 1 .. n : i <= from[i]
<1> DEFINE T == {k \in Nat : k + 1 <= n => k + 1 <= from[k + 1]}
<1>1. 0 \in T
  <2>1. CASE n >= 1
    <3>1. 1 \in 1 .. n
      BY <2>1
    <3>2. from[1] \in 1 .. m
      BY <3>1
    <3> QED BY <3>2
  <2>2. CASE ~ (n >= 1)
    BY <2>2
  <2> QED BY <2>1, <2>2
<1>2. ASSUME NEW k \in Nat, k \in T PROVE k + 1 \in T
  <2> SUFFICES ASSUME k + 1 + 1 <= n PROVE k + 1 + 1 <= from[k + 1 + 1]
    OBVIOUS
  <2>1. k + 1 \in 1 .. n /\ k + 1 + 1 \in 1 .. n /\ k + 1 < k + 1 + 1
    OBVIOUS
  <2>2. from[k + 1] < from[k + 1 + 1]
    BY <2>1
  <2>3. from[k + 1] \in Nat /\ from[k + 1 + 1] \in Nat
    BY <2>1
  <2>4. k + 1 <= from[k + 1]
    BY <1>2
  <2> QED BY <2>2, <2>3, <2>4
<1> HIDE DEF T
<1>3. Nat \subseteq T
  BY <1>1, <1>2, Induction
<1>4. ASSUME NEW i \in 1 .. n PROVE i <= from[i]
  <2>1. i - 1 \in Nat /\ i - 1 + 1 = i
    OBVIOUS
  <2>2. i - 1 \in T
    BY <1>3, <2>1
  <2> QED BY <2>1, <2>2 DEF T
<1>5. n <= m
  <2>1. CASE n = 0
    BY <2>1
  <2>2. CASE n # 0
    <3>1. n \in 1 .. n
      BY <2>2
    <3>2. n <= from[n] /\ from[n] \in 1 .. m
      BY <1>4, <3>1
    <3> QED BY <3>2
  <2> QED BY <2>1, <2>2
<1> QED BY <1>4, <1>5

LEMMA SeqWider ==
    ASSUME NEW S, NEW T, S \subseteq T, NEW list \in Seq(S)
    PROVE  list \in Seq(T)
<1>1. Len(list) \in Nat /\ list \in [1 .. Len(list) -> S]
  OBVIOUS
<1>2. list \in [1 .. Len(list) -> T]
  BY <1>1
<1> QED BY <1>1, <1>2

(* Two lists one after the other. *)
LEMMA Joined ==
    ASSUME NEW S, NEW a \in Seq(S), NEW b \in Seq(S)
    PROVE  /\ a \o b \in Seq(S)
           /\ Len(a \o b) = Len(a) + Len(b)
           /\ \A i \in 1 .. Len(a) + Len(b) :
                 \/ i \in 1 .. Len(a) /\ (a \o b)[i] = a[i]
                 \/ i - Len(a) \in 1 .. Len(b) /\ (a \o b)[i] = b[i - Len(a)]
<1>1. a \o b \in Seq(S)
  OBVIOUS
<1>2. Len(a) \in Nat /\ Len(b) \in Nat /\ Len(a \o b) = Len(a) + Len(b)
  OBVIOUS
<1>3. ASSUME NEW i \in 1 .. Len(a) + Len(b)
      PROVE  \/ i \in 1 .. Len(a) /\ (a \o b)[i] = a[i]
             \/ i - Len(a) \in 1 .. Len(b) /\ (a \o b)[i] = b[i - Len(a)]
  <2>0. i \in Nat /\ i >= 1 /\ i <= Len(a) + Len(b)
    BY <1>2
  <2>1. CASE i <= Len(a)
    <3>1. i \in 1 .. Len(a)
      BY <1>2, <2>0, <2>1
    <3>2. (a \o b)[i] = a[i]
      BY <3>1
    <3> QED BY <3>1, <3>2
  <2>2. CASE i > Len(a)
    <3>1. i - Len(a) \in 1 .. Len(b)
      BY <1>2, <2>0, <2>2
    <3>2. (a \o b)[i] = b[i - Len(a)]
      BY <1>2, <2>0, <2>2
    <3> QED BY <3>1, <3>2
  <2> QED BY <1>2, <2>0, <2>1, <2>2
<1> QED BY <1>1, <1>2, <1>3

-----------------------------------------------------------------------------
(* Lists of places that increase: there is one for a set of places, and what *)
(* is at place k of it has k of the set up to it.                            *)

Image(f, n) == {f[i] : i \in 1 .. n}

Rises(f, n) == f \in [1 .. n -> Nat] /\ \A i, j \in 1 .. n : i < j => f[i] < f[j]

LEMMA SameHalf ==
    ASSUME NEW n \in Nat, NEW m \in Nat,
           NEW f \in [1 .. n -> Nat], NEW g \in [1 .. m -> Nat],
           \A i, j \in 1 .. n : i < j => f[i] < f[j],
           \A i, j \in 1 .. m : i < j => g[i] < g[j],
           Image(f, n) = Image(g, m)
    PROVE  n <= m /\ \A k \in 1 .. n : f[k] = g[k]
<1> DEFINE S == {k \in Nat : k <= n => k <= m /\ \A i \in 1 .. k : f[i] = g[i]}
<1>1. 0 \in S
  OBVIOUS
<1>2. ASSUME NEW k \in Nat, k \in S PROVE k + 1 \in S
  <2> SUFFICES ASSUME k + 1 <= n
               PROVE  k + 1 <= m /\ \A i \in 1 .. k + 1 : f[i] = g[i]
    OBVIOUS
  <2> DEFINE p == k + 1
  <2>0. k <= m /\ \A i \in 1 .. k : f[i] = g[i]
    BY <1>2
  <2>1. p \in 1 .. n /\ \A i \in 1 .. k : i < p /\ i \in 1 .. n
    OBVIOUS
  <2>2. f[p] \in Image(g, m)
    BY <2>1 DEF Image
  <2>3. PICK j \in 1 .. m : f[p] = g[j]
    BY <2>2 DEF Image
  <2>4. ~ (j <= k)
    <3> SUFFICES ASSUME j <= k PROVE FALSE
      OBVIOUS
    <3>1. j \in 1 .. k
      OBVIOUS
    <3>2. f[j] = g[j] /\ f[j] < f[p]
      BY <2>0, <2>1, <3>1
    <3>3. f[p] \in Nat
      BY <2>1
    <3> QED BY <2>3, <3>2, <3>3
  <2>5. p <= j /\ p \in 1 .. m
    BY <2>4
  <2>6. g[p] \in Image(f, n)
    BY <2>5 DEF Image
  <2>7. PICK i \in 1 .. n : g[p] = f[i]
    BY <2>6 DEF Image
  <2>8. ~ (i <= k)
    <3> SUFFICES ASSUME i <= k PROVE FALSE
      OBVIOUS
    <3>1. i \in 1 .. k /\ i \in 1 .. m /\ i < p
      BY <2>5
    <3>2. f[i] = g[i] /\ g[i] < g[p]
      BY <2>0, <2>5, <3>1
    <3>3. g[p] \in Nat
      BY <2>5
    <3> QED BY <2>7, <3>2, <3>3
  <2>9. p <= i
    BY <2>8
  <2>10. f[p] <= f[i] /\ g[p] <= g[j]
    <3>1. p = i \/ p < i
      BY <2>9
    <3>2. p = j \/ p < j
      BY <2>5
    <3>3. f[p] \in Nat /\ g[p] \in Nat
      BY <2>1, <2>5
    <3> QED BY <2>1, <2>5, <3>1, <3>2, <3>3
  <2>11. f[p] = g[p]
    <3>1. f[p] \in Nat /\ g[p] \in Nat
      BY <2>1, <2>5
    <3> QED BY <2>3, <2>7, <2>10, <3>1
  <2>12. \A l \in 1 .. k + 1 : l \in 1 .. k \/ l = p
    OBVIOUS
  <2> QED BY <2>0, <2>5, <2>11, <2>12
<1> HIDE DEF S
<1>3. n \in S
  BY <1>1, <1>2, Induction
<1> QED BY <1>3 DEF S

SamePlaces(f, n, g, m) ==
    /\ n \in Nat /\ m \in Nat /\ Rises(f, n) /\ Rises(g, m)
    /\ Image(f, n) = Image(g, m)

LEMMA SameIncreasing ==
    ASSUME NEW f, NEW n, NEW g, NEW m, SamePlaces(f, n, g, m)
    PROVE  n = m /\ \A k \in 1 .. n : f[k] = g[k]
<1>1. n <= m /\ \A k \in 1 .. n : f[k] = g[k]
  BY SameHalf DEF Rises, SamePlaces
<1>2. m <= n /\ n \in Nat /\ m \in Nat
  BY SameHalf DEF Rises, SamePlaces
<1> QED BY <1>1, <1>2

(* What is left of a list is one list, whatever way it is found.             *)
LEMMA SamePart ==
    ASSUME NEW list, Len(list) \in Nat, NEW S, NEW a \in Seq(S), NEW T, NEW b \in Seq(T),
           NEW f, IsPart(list, a, f), NEW g, IsPart(list, b, g),
           Image(f, Len(a)) = Image(g, Len(b))
    PROVE  a = b
<1> DEFINE n == Len(a)
           m == Len(b)
<1>0. n \in Nat /\ m \in Nat
  OBVIOUS
<1>1. /\ f \in [1 .. n -> 1 .. Len(list)]
      /\ \A i, j \in 1 .. n : i < j => f[i] < f[j]
      /\ \A i \in 1 .. n : a[i] = list[f[i]]
  BY DEF IsPart
<1>2. /\ g \in [1 .. m -> 1 .. Len(list)]
      /\ \A i, j \in 1 .. m : i < j => g[i] < g[j]
      /\ \A i \in 1 .. m : b[i] = list[g[i]]
  BY DEF IsPart
<1>4. Rises(f, n) /\ Rises(g, m)
  BY <1>1, <1>2 DEF Rises
<1>5. n = m /\ \A k \in 1 .. n : f[k] = g[k]
  <2>1. SamePlaces(f, n, g, m)
    BY <1>0, <1>4 DEF SamePlaces
  <2> QED BY <2>1, SameIncreasing
<1> HIDE DEF n, m
<1>6. \A k \in 1 .. n : a[k] = b[k]
  BY <1>1, <1>2, <1>5
<1>7. Len(a) = n /\ Len(b) = n
  BY <1>5 DEF n, m
<1> QED BY <1>6, <1>7

LEMMA Ranked ==
    ASSUME NEW n \in Nat, NEW f, Rises(f, n)
    PROVE  /\ Cardinality(Image(f, n)) = n
           /\ \A k \in 1 .. n : Cardinality({j \in Image(f, n) : j <= f[k]}) = k
<1>0. f \in [1 .. n -> Nat] /\ \A i, j \in 1 .. n : i < j => f[i] < f[j]
  BY DEF Rises
<1>1. ASSUME NEW k \in 0 .. n PROVE Cardinality(Image(f, k)) = k
  <2> DEFINE g == [i \in 1 .. k |-> f[i]]
  <2>1. \A i \in 1 .. k : i \in 1 .. n
    OBVIOUS
  <2>2. g \in [1 .. k -> Image(f, k)]
    BY DEF Image
  <2>3. ASSUME NEW i \in 1 .. k, NEW j \in 1 .. k, g[i] = g[j] PROVE i = j
    <3>1. f[i] = f[j] /\ f[i] \in Nat /\ f[j] \in Nat
      BY <1>0, <2>1, <2>3
    <3>2. ~ (i < j) /\ ~ (j < i)
      BY <1>0, <2>1, <3>1
    <3> QED BY <3>2
  <2>4. \A t \in Image(f, k) : \E i \in 1 .. k : g[i] = t
    BY DEF Image
  <2>5. g \in Bijection(1 .. k, Image(f, k))
    BY <2>2, <2>3, <2>4 DEF Bijection, Injection, Surjection, IsInjective
  <2>6. ExistsBijection(1 .. k, Image(f, k))
    BY <2>5 DEF ExistsBijection
  <2> QED BY <2>6, FS_CountingElements
<1>2. ASSUME NEW k \in 1 .. n
      PROVE  {j \in Image(f, n) : j <= f[k]} = Image(f, k)
  <2>1. ASSUME NEW i \in 1 .. k PROVE f[i] \in Image(f, n) /\ f[i] <= f[k]
    <3>1. i \in 1 .. n /\ (i = k \/ i < k)
      OBVIOUS
    <3>2. f[i] \in Nat /\ f[k] \in Nat
      BY <1>0, <3>1
    <3> QED BY <1>0, <3>1, <3>2 DEF Image
  <2>2. ASSUME NEW i \in 1 .. n, f[i] <= f[k] PROVE i \in 1 .. k
    <3>1. f[i] \in Nat /\ f[k] \in Nat
      BY <1>0
    <3>2. ~ (k < i)
      BY <1>0, <2>2, <3>1
    <3> QED BY <3>2
  <2> QED BY <2>1, <2>2 DEF Image
<1>3. n \in 0 .. n
  OBVIOUS
<1>4. ASSUME NEW k \in 1 .. n PROVE Cardinality({j \in Image(f, n) : j <= f[k]}) = k
  <2>1. k \in 0 .. n
    OBVIOUS
  <2> QED BY <1>1, <1>2, <2>1
<1> QED BY <1>1, <1>3, <1>4

(* One element less. *)
LEMMA RemovedRange ==
    ASSUME NEW S, NEW list \in Seq(S), NEW at \in 1 .. Len(list),
           \A i, j \in 1 .. Len(list) : list[i] = list[j] => i = j
    PROVE  Range(RemoveAt(list, at)) = Range(list) \ {list[at]}
<1> DEFINE r == RemoveAt(list, at)
           n == Len(list)
<1>1. /\ r \in Seq(S) /\ Len(r) = n - 1
      /\ \A i \in 1 .. n - 1 : r[i] = IF i < at THEN list[i] ELSE list[i + 1]
  BY RemoveAtIs
<1>2. n \in Nat
  OBVIOUS
<1> HIDE DEF r
<1>3. ASSUME NEW i \in 1 .. n - 1 PROVE r[i] \in Range(list) /\ r[i] # list[at]
  <2>1. CASE i < at
    <3>1. r[i] = list[i] /\ i \in 1 .. n /\ i # at
      BY <1>1, <1>2, <2>1
    <3> QED BY <3>1, RangeHas
  <2>2. CASE ~ (i < at)
    <3>1. r[i] = list[i + 1] /\ i + 1 \in 1 .. n /\ i + 1 # at
      BY <1>1, <1>2, <2>2
    <3> QED BY <3>1, RangeHas
  <2> QED BY <2>1, <2>2
<1>4. ASSUME NEW i \in 1 .. n, list[i] # list[at] PROVE \E k \in 1 .. n - 1 : r[k] = list[i]
  <2>1. CASE i < at
    <3>1. i \in 1 .. n - 1
      BY <1>2, <2>1
    <3> QED BY <1>1, <2>1, <3>1
  <2>2. CASE ~ (i < at)
    <3>1. i # at
      BY <1>4
    <3> DEFINE k == i - 1
    <3>2. k \in 1 .. n - 1 /\ ~ (k < at) /\ k + 1 = i
      BY <1>2, <2>2, <3>1
    <3> QED BY <1>1, <3>2
  <2> QED BY <2>1, <2>2
<1>5. Range(r) \subseteq Range(list) \ {list[at]}
  <2>1. \A x \in Range(r) : \E i \in 1 .. n - 1 : x = r[i]
    BY <1>1, RangeFrom
  <2> QED BY <1>3, <2>1
<1>6. Range(list) \ {list[at]} \subseteq Range(r)
  <2>1. \A x \in Range(list) : \E i \in 1 .. n : x = list[i]
    BY RangeFrom
  <2>2. \A k \in 1 .. n - 1 : r[k] \in Range(r)
    BY <1>1, RangeHas
  <2> QED BY <1>4, <2>1, <2>2
<1> QED BY <1>5, <1>6 DEF r

=============================================================================
