------------------------ MODULE RepositorySelections ------------------------
(***************************************************************************)
(* Theorems about what a selection selects in Repository: the walks over   *)
(* keys, filters and page compute what Selected says, and so a GET answers *)
(* it, a DELETE removes it and a message goes to its queues.               *)
(***************************************************************************)
EXTENDS RepositoryProofs

-----------------------------------------------------------------------------
(* The walk over the inclusive filters, and the names that it passes over. *)

IsFilters(F) == Len(F) \in Nat /\ DOMAIN F = 1 .. Len(F)

LEMMA Greatest ==
    ASSUME NEW n \in Nat, NEW S \in SUBSET (1 .. n), S # {}
    PROVE  \E j \in S : \A k \in S : k <= j
<1> DEFINE T == {n - k : k \in S}
<1>1. T \in SUBSET Nat /\ T # {}
  <2>1. \A k \in S : n - k \in Nat
    OBVIOUS
  <2>2. PICK k \in S : TRUE
    OBVIOUS
  <2>3. n - k \in T
    OBVIOUS
  <2> QED BY <2>1, <2>3
<1>2. PICK t \in T : \A m \in T : t <= m
  BY <1>1, Least
<1>3. PICK j \in S : t = n - j
  OBVIOUS
<1>4. ASSUME NEW k \in S PROVE k <= j
  <2>1. n - k \in T
    OBVIOUS
  <2>2. n - j <= n - k
    BY <1>2, <1>3, <2>1
  <2>3. j \in Nat /\ k \in Nat
    OBVIOUS
  <2> QED BY <2>2, <2>3
<1> QED BY <1>4

LEMMA FollowingIs ==
    ASSUME NEW F, IsFilters(F), NEW i \in 1 .. Len(F)
    PROVE  \E last \in Group(F, i) :
              /\ \A k \in Group(F, i) : k <= last
              /\ Following(F, i) = IF last + 1 <= Len(F) THEN last + 2 ELSE i + 1
<1> DEFINE G == Group(F, i)
           last == CHOOSE j \in G : \A k \in G : k <= j
<1>1. G \in SUBSET (1 .. Len(F)) /\ i \in G
  BY DEF Group, IsFilters
<1>2. Following(F, i) = IF 1 + last <= Len(F) THEN (1 + last) + 1 ELSE i + 1
  BY DEF Following
<1> HIDE DEF G
<1>3. \E j \in G : \A k \in G : k <= j
  BY <1>1, Greatest DEF IsFilters
<1>4. last \in G /\ \A k \in G : k <= last
  BY <1>3
<1> HIDE DEF last
<1>5. last \in Nat
  BY <1>1, <1>4 DEF IsFilters
<1>6. 1 + last = last + 1 /\ (1 + last) + 1 = last + 2
  BY <1>5
<1> QED BY <1>2, <1>4, <1>6 DEF G

LEMMA FollowingAfter ==
    ASSUME NEW F, IsFilters(F), NEW i \in 1 .. Len(F)
    PROVE  Following(F, i) \in i + 1 .. Len(F) + 1
<1>1. PICK last \in Group(F, i) :
              /\ \A k \in Group(F, i) : k <= last
              /\ Following(F, i) = IF last + 1 <= Len(F) THEN last + 2 ELSE i + 1
  BY FollowingIs
<1>2. last \in 1 .. Len(F) /\ i <= last /\ Len(F) \in Nat
  BY <1>1 DEF Group, IsFilters
<1>3. last + 1 <= Len(F) => last + 2 \in i + 1 .. Len(F) + 1
  BY <1>2
<1>4. i + 1 \in i + 1 .. Len(F) + 1
  BY <1>2
<1> QED BY <1>1, <1>3, <1>4

(* What PassesInclusive defines by recursion: the places reached from one. *)
Reaches(F, f, i) ==
    f[i] = IF i > Len(F) THEN {} ELSE {i} \cup f[Following(F, i)]

LEMMA ReachedExists ==
    ASSUME NEW F, IsFilters(F)
    PROVE  \E f : f = [i \in 1 .. Len(F) + 1 |->
                          IF i > Len(F) THEN {} ELSE {i} \cup f[Following(F, i)]]
<1> DEFINE L == Len(F)
           next(i) == Following(F, i)
           Upto(n, f) == \A i \in 1 .. L + 1 : i + n >= L + 1 =>
                            f[i] = IF i > L THEN {} ELSE {i} \cup f[next(i)]
           S == {n \in Nat : \E f : Upto(n, f)}
<1>0. L \in Nat /\ \A i \in 1 .. L : next(i) \in i + 1 .. L + 1
  BY FollowingAfter DEF IsFilters
<1> HIDE DEF L, next
<1>1. 0 \in S
  <2> DEFINE f == [i \in 1 .. L + 1 |-> {}]
  <2>1. Upto(0, f)
    BY <1>0
  <2> HIDE DEF f
  <2> QED BY <2>1
<1>2. ASSUME NEW n \in Nat, n \in S PROVE n + 1 \in S
  <2>1. PICK f : Upto(n, f)
    BY <1>2
  <2> DEFINE g == [i \in 1 .. L + 1 |-> IF i + n = L THEN {i} \cup f[next(i)] ELSE f[i]]
  <2>2. ASSUME NEW i \in 1 .. L + 1, i + (n + 1) >= L + 1
        PROVE  g[i] = IF i > L THEN {} ELSE {i} \cup g[next(i)]
    <3>1. i <= L => /\ next(i) \in 1 .. L + 1 /\ next(i) + n # L
                    /\ g[next(i)] = f[next(i)]
      BY <1>0, <2>2
    <3>2. CASE i + n = L
      <4>1. i <= L
        BY <1>0, <3>2
      <4> QED BY <1>0, <3>1, <3>2, <4>1
    <3>3. CASE i + n # L
      <4>1. g[i] = f[i] /\ i + n >= L + 1
        BY <1>0, <2>2, <3>3
      <4>2. f[i] = IF i > L THEN {} ELSE {i} \cup f[next(i)]
        BY <2>1, <4>1
      <4> HIDE DEF g
      <4>3. CASE i > L
        BY <4>1, <4>2, <4>3
      <4>4. CASE i <= L
        <5>1. g[next(i)] = f[next(i)] /\ ~ (i > L)
          BY <1>0, <3>1, <4>4
        <5> HIDE DEF Upto, S
        <5> QED BY <4>1, <4>2, <5>1
      <4> QED BY <1>0, <4>3, <4>4
    <3> QED BY <3>2, <3>3
  <2> HIDE DEF g
  <2>3. Upto(n + 1, g)
    BY <2>2
  <2> HIDE DEF Upto
  <2> QED BY <2>3
<1>3. L \in S
  <2> HIDE DEF S
  <2> QED BY <1>0, <1>1, <1>2, Induction
<1>4. PICK f : Upto(L, f)
  BY <1>3
<1> DEFINE h == [i \in 1 .. L + 1 |-> f[i]]
<1>5. ASSUME NEW i \in 1 .. L + 1
      PROVE  h[i] = IF i > L THEN {} ELSE {i} \cup h[next(i)]
  <2>1. h[i] = IF i > L THEN {} ELSE {i} \cup f[next(i)]
    BY <1>0, <1>4
  <2>2. i <= L => h[next(i)] = f[next(i)]
    BY <1>0
  <2> HIDE DEF h
  <2>3. CASE i > L
    BY <2>1, <2>3
  <2>4. CASE i <= L
    <3>1. h[next(i)] = f[next(i)] /\ ~ (i > L)
      BY <1>0, <2>2, <2>4
    <3> HIDE DEF Upto, S
    <3> QED BY <2>1, <3>1
  <2> QED BY <1>0, <2>3, <2>4
<1>6. h = [i \in 1 .. L + 1 |-> h[i]]
  OBVIOUS
<1> HIDE DEF h
<1>7. h = [i \in 1 .. L + 1 |-> IF i > L THEN {} ELSE {i} \cup h[next(i)]]
  BY <1>5, <1>6
<1> QED BY <1>7 DEF L, next

(* The row has one of the filters of the name of filter i. *)
HasOne(row, F, i) == \E j \in Group(F, i) : F[j][2] \in Range(Values(row, F[j][1]))

LEMMA ReachedIs ==
    ASSUME NEW F, IsFilters(F), NEW row
    PROVE  \E f : /\ \A i \in 1 .. Len(F) + 1 : Reaches(F, f, i)
                  /\ PassesInclusive(row, F) <=> \A i \in f[1] : HasOne(row, F, i)
<1> DEFINE f == CHOOSE f : f = [i \in 1 .. Len(F) + 1 |->
                          IF i > Len(F) THEN {} ELSE {i} \cup f[Following(F, i)]]
<1>1. f = [i \in 1 .. Len(F) + 1 |->
                          IF i > Len(F) THEN {} ELSE {i} \cup f[Following(F, i)]]
  BY ReachedExists
<1>2. PassesInclusive(row, F) <=> \A i \in f[1] : HasOne(row, F, i)
  BY DEF PassesInclusive, HasOne
<1> HIDE DEF f
<1>3. \A i \in 1 .. Len(F) + 1 : Reaches(F, f, i)
  BY <1>1 DEF Reaches
<1> QED BY <1>2, <1>3

(* Filters of one name are next to each other. *)
Grouped(F) ==
    \A i, k, j \in 1 .. Len(F) :
        i <= k /\ k <= j /\ F[i][1] = F[j][1] => F[k][1] = F[i][1]

(* What PassedOver defines by recursion exists: the set of its places is     *)
(* built place by place.                                                     *)
LEMMA OverExists ==
    ASSUME NEW F, IsFilters(F)
    PROVE  \E f : f = [i \in 0 .. Len(F) |-> i > 1 /\ Group(F, i) = {i} /\ ~ f[i - 1]]
<1> DEFINE L == Len(F)
           alone(i) == Group(F, i) = {i}
           Upto(n, T) == \A i \in 0 .. L : i <= n =>
                            (i \in T <=> i > 1 /\ alone(i) /\ i - 1 \notin T)
           S == {n \in Nat : \E T : Upto(n, T)}
<1>0. L \in Nat
  BY DEF IsFilters
<1> HIDE DEF L, alone
<1>1. 0 \in S
  <2>1. Upto(0, {})
    OBVIOUS
  <2> HIDE DEF Upto
  <2> QED BY <2>1
<1>2. ASSUME NEW n \in Nat, n \in S PROVE n + 1 \in S
  <2>1. PICK T : Upto(n, T)
    BY <1>2
  <2> DEFINE here == n + 1 > 1 /\ alone(n + 1) /\ n \notin T
             U == {i \in 0 .. n : i \in T} \cup {i \in {n + 1} : here}
  <2>2. /\ \A i \in 0 .. n : i \in U <=> i \in T
        /\ n + 1 \in U <=> here
    BY <1>2
  <2> HIDE DEF U
  <2>3. ASSUME NEW i \in 0 .. L, i <= n + 1
        PROVE  i \in U <=> i > 1 /\ alone(i) /\ i - 1 \notin U
    <3>1. CASE i = n + 1
      <4>1. i - 1 = n /\ n \in 0 .. n
        BY <3>1
      <4> QED BY <2>2, <3>1, <4>1
    <3>2. CASE i \in 0 .. n
      <4>1. i > 1 => i - 1 \in 0 .. n
        BY <3>2
      <4>2. i \in T <=> i > 1 /\ alone(i) /\ i - 1 \notin T
        BY <2>1, <3>2
      <4> QED BY <2>2, <3>2, <4>1, <4>2
    <3> QED BY <2>3, <3>1, <3>2
  <2>4. Upto(n + 1, U)
    BY <2>3
  <2> HIDE DEF Upto
  <2> QED BY <2>4
<1>3. L \in S
  <2> HIDE DEF S
  <2> QED BY <1>0, <1>1, <1>2, Induction
<1>4. PICK T : Upto(L, T)
  BY <1>3
<1> DEFINE f == [i \in 0 .. L |-> i \in T]
           value(i) == i > 1 /\ alone(i) /\ ~ f[i - 1]
<1>5. ASSUME NEW i \in 0 .. L PROVE (i \in T) = value(i)
  <2>1. i > 1 => f[i - 1] = (i - 1 \in T)
    BY <1>0
  <2>2. i \in T <=> i > 1 /\ alone(i) /\ i - 1 \notin T
    BY <1>0, <1>4
  <2> HIDE DEF f, Upto
  <2>3. CASE i > 1
    <3>1. f[i - 1] = (i - 1 \in T)
      BY <2>1, <2>3
    <3>2. value(i) = (i > 1 /\ alone(i) /\ ~ (i - 1 \in T))
      BY <3>1
    <3> QED BY <2>2, <3>2
  <2>4. CASE ~ (i > 1)
    <3>1. value(i) = FALSE /\ i \notin T
      BY <2>2, <2>4
    <3> QED BY <3>1
  <2> QED BY <2>3, <2>4
<1>6. f = [i \in 0 .. L |-> value(i)]
  BY <1>5
<1> QED BY <1>6 DEF L, alone

LEMMA OverIs ==
    ASSUME NEW F, IsFilters(F), NEW i \in 1 .. Len(F)
    PROVE  i \in PassedOver(F) <=>
              i > 1 /\ Group(F, i) = {i} /\ i - 1 \notin PassedOver(F)
<1> DEFINE f == CHOOSE f : f = [k \in 0 .. Len(F) |-> k > 1 /\ Group(F, k) = {k} /\ ~ f[k - 1]]
<1>1. f = [k \in 0 .. Len(F) |-> k > 1 /\ Group(F, k) = {k} /\ ~ f[k - 1]]
  BY OverExists
<1>2. PassedOver(F) = {k \in DOMAIN F : f[k]}
  BY DEF PassedOver
<1> HIDE DEF f
<1>3. Len(F) \in Nat /\ DOMAIN F = 1 .. Len(F)
  BY DEF IsFilters
<1>4. f[i] = (i > 1 /\ Group(F, i) = {i} /\ ~ f[i - 1])
  <2>1. i \in 0 .. Len(F)
    BY <1>3
  <2> QED BY <1>1, <2>1
<1>5. i \in PassedOver(F) <=> f[i]
  BY <1>2, <1>3
<1>6. i > 1 => (i - 1 \in PassedOver(F) <=> f[i - 1])
  <2>1. i > 1 => i - 1 \in 1 .. Len(F)
    BY <1>3
  <2> QED BY <1>2, <1>3, <2>1
<1> QED BY <1>4, <1>5, <1>6

(* No filter is passed over that shares its name. *)
LEMMA SharedIsReached ==
    ASSUME NEW F, IsFilters(F), NEW i \in 1 .. Len(F), NEW k \in 1 .. Len(F), k # i,
           F[k][1] = F[i][1]
    PROVE  i \notin PassedOver(F)
<1>1. k \in Group(F, i)
  BY DEF Group, IsFilters
<1> QED BY <1>1, OverIs

(* Behind a name that is reached, a lone filter is passed over, and of more *)
(* the second comes next.                                                   *)
LEMMA AfterGroup ==
    ASSUME NEW F, IsFilters(F), Grouped(F), NEW i \in 1 .. Len(F), i \notin PassedOver(F),
           NEW last \in Group(F, i), \A k \in Group(F, i) : k <= last,
           last + 1 <= Len(F)
    PROVE  /\ F[last + 1][1] # F[i][1]
           /\ \/ last + 1 \in PassedOver(F)
              \/ last + 2 <= Len(F) /\ F[last + 2][1] = F[last + 1][1]
<1> DEFINE L == Len(F)
           a == last + 1
<1>0. /\ L \in Nat /\ last \in 1 .. L /\ F[last][1] = F[i][1] /\ i <= last
      /\ \A k \in 1 .. L : F[k][1] = F[i][1] => k <= last
  BY DEF IsFilters, Group
<1>1. a \in 1 .. L /\ a > 1 /\ a - 1 = last /\ a + 1 = last + 2 /\ ~ (a <= last)
  BY <1>0
<1>2. F[a][1] # F[i][1]
  BY <1>0, <1>1
<1>3. \A x, y, z \in 1 .. L : x <= y /\ y <= z /\ F[x][1] = F[z][1] => F[y][1] = F[x][1]
  BY DEF Grouped
<1>4. last \notin PassedOver(F)
  <2>1. CASE last = i
    BY <2>1
  <2>2. CASE last # i
    BY <1>0, <2>2, SharedIsReached
  <2> QED BY <2>1, <2>2
<1> HIDE DEF L, a
<1>5. CASE Group(F, a) = {a}
  <2>1. a \in PassedOver(F)
    BY <1>1, <1>4, <1>5, OverIs DEF L
  <2> QED BY <1>2, <2>1 DEF a
<1>6. CASE Group(F, a) # {a}
  <2>1. PICK j \in 1 .. L : j # a /\ F[j][1] = F[a][1]
    <3>1. a \in Group(F, a)
      BY <1>1 DEF Group, IsFilters, L
    <3>2. PICK j \in Group(F, a) : j # a
      BY <1>6, <3>1
    <3> QED BY <3>2 DEF Group, IsFilters, L
  <2>2. ~ (j <= last)
    <3>1. ASSUME j <= last PROVE FALSE
      <4>1. last <= a
        BY <1>0, <1>1
      <4>2. F[last][1] = F[j][1]
        BY <1>0, <1>1, <1>3, <2>1, <3>1, <4>1
      <4> QED BY <1>0, <1>2, <2>1, <4>2
    <3> QED BY <3>1
  <2>3. a <= a + 1 /\ a + 1 <= j /\ a + 1 \in 1 .. L
    BY <1>0, <1>1, <2>1, <2>2
  <2>4. F[a + 1][1] = F[a][1]
    BY <1>1, <1>3, <2>1, <2>3
  <2>5. a + 1 <= L
    BY <1>0, <2>3
  <2> QED BY <1>1, <1>2, <2>4, <2>5 DEF a, L
<1> QED BY <1>5, <1>6

(* From place i on every name is reached that is not passed over. *)
ReachesNames(F, f, i) ==
    /\ \A v \in f[i] : v \in i .. Len(F) /\ v \notin PassedOver(F)
    /\ \A k \in i .. Len(F) : k \notin PassedOver(F) => \E v \in f[i] : F[v][1] = F[k][1]

IsStart(F, i) == i <= Len(F) => i \notin PassedOver(F)

LEMMA FollowingStarts ==
    ASSUME NEW F, IsFilters(F), Grouped(F), NEW i \in 1 .. Len(F), IsStart(F, i)
    PROVE  IsStart(F, Following(F, i))
<1> DEFINE L == Len(F)
           next == Following(F, i)
<1>0. L \in Nat /\ DOMAIN F = 1 .. L /\ i \notin PassedOver(F)
  BY DEF IsFilters, IsStart
<1>1. PICK last \in Group(F, i) :
              /\ \A k \in Group(F, i) : k <= last
              /\ Following(F, i) = IF last + 1 <= Len(F) THEN last + 2 ELSE i + 1
  BY FollowingIs
<1>2. last \in 1 .. L /\ F[last][1] = F[i][1] /\ i <= last
  BY <1>0, <1>1 DEF Group
<1>3. next \in i + 1 .. L + 1
  BY FollowingAfter
<1> SUFFICES ASSUME next <= L PROVE next \notin PassedOver(F)
  BY DEF IsStart
<1>4. next \in 1 .. L
  BY <1>0, <1>3
<1>5. CASE last + 1 <= L
  <2>1. next = last + 2
    BY <1>1, <1>5
  <2>2. \/ last + 1 \in PassedOver(F)
        \/ F[last + 2][1] = F[last + 1][1]
    BY <1>0, <1>1, <1>5, AfterGroup
  <2>3. last + 1 \in 1 .. L /\ last + 1 # next /\ next - 1 = last + 1
    BY <1>0, <1>2, <1>5, <2>1
  <2> HIDE DEF next, L
  <2>4. CASE last + 1 \in PassedOver(F)
    BY <1>4, <2>3, <2>4, OverIs DEF L
  <2>5. CASE F[last + 2][1] = F[last + 1][1]
    BY <1>4, <2>1, <2>3, <2>5, SharedIsReached DEF L
  <2> QED BY <2>2, <2>4, <2>5
<1>6. CASE ~ (last + 1 <= L)
  <2>0. next = i + 1
    BY <1>1, <1>6
  <2> HIDE DEF next, L
  <2>1. next = i + 1 /\ last = L
    BY <1>0, <1>2, <1>6, <2>0
  <2>2. i <= next /\ next <= last /\ i # next /\ i \in 1 .. L
    BY <1>0, <1>4, <2>1 DEF L
  <2>3. F[next][1] = F[i][1]
    BY <1>2, <1>4, <2>2 DEF Grouped, L
  <2> QED BY <1>4, <2>2, <2>3, SharedIsReached DEF L
<1> QED BY <1>5, <1>6

LEMMA ReachesFurther ==
    ASSUME NEW F, IsFilters(F), Grouped(F), NEW f, NEW i \in 1 .. Len(F), IsStart(F, i),
           Reaches(F, f, i), ReachesNames(F, f, Following(F, i))
    PROVE  ReachesNames(F, f, i)
<1> DEFINE L == Len(F)
           next == Following(F, i)
           over == PassedOver(F)
<1>0. L \in Nat /\ DOMAIN F = 1 .. L /\ i \notin over
  BY DEF IsFilters, IsStart
<1>1. f[i] = {i} \cup f[next]
  BY <1>0 DEF Reaches
<1>2. PICK last \in Group(F, i) :
              /\ \A k \in Group(F, i) : k <= last
              /\ Following(F, i) = IF last + 1 <= Len(F) THEN last + 2 ELSE i + 1
  BY FollowingIs
<1>3. /\ last \in 1 .. L /\ F[last][1] = F[i][1]
      /\ next = IF last + 1 <= L THEN last + 2 ELSE i + 1
      /\ i <= last
  BY <1>0, <1>2 DEF Group
<1>4. last + 1 <= L =>
         \/ last + 1 \in over
         \/ last + 2 <= L /\ F[last + 2][1] = F[last + 1][1]
  BY <1>0, <1>2, AfterGroup
<1>5. /\ \A v \in f[next] : v \in next .. L /\ v \notin over
      /\ \A k \in next .. L : k \notin over => \E v \in f[next] : F[v][1] = F[k][1]
  BY DEF ReachesNames
<1>6. next \in i + 1 .. L + 1
  BY FollowingAfter
<1>a. next <= L => next \notin over
  BY FollowingStarts DEF IsStart
<1>b. \A a, b, c \in 1 .. L : a <= b /\ b <= c /\ F[a][1] = F[c][1] => F[b][1] = F[a][1]
  BY DEF Grouped
<1> HIDE DEF next, L, over
<1>7. ASSUME NEW v \in f[i] PROVE v \in i .. L /\ v \notin over
  <2>1. CASE v = i
    BY <1>0, <2>1 DEF L
  <2>2. CASE v \in f[next]
    BY <1>0, <1>5, <1>6, <2>2 DEF L
  <2> QED BY <1>1, <2>1, <2>2
<1>8. ASSUME NEW k \in i .. L, k \notin over PROVE \E v \in f[i] : F[v][1] = F[k][1]
  <2>1. CASE F[k][1] = F[i][1]
    BY <1>1, <2>1
  <2>2. CASE k \in next .. L
    BY <1>1, <1>5, <1>8, <2>2
  <2>3. CASE F[k][1] # F[i][1] /\ k \notin next .. L
    <3>0. k \in 1 .. L /\ i \in 1 .. L
      BY <1>0 DEF L
    <3>1. ~ (k <= last)
      BY <1>3, <1>b, <2>3, <3>0
    <3>2. last + 1 <= L /\ k = last + 1 /\ last + 2 = next
      BY <1>0, <1>3, <2>3, <3>0, <3>1
    <3>3. next <= L /\ F[next][1] = F[k][1]
      BY <1>4, <1>8, <3>2
    <3>4. next \in next .. L /\ next \notin over
      BY <1>0, <1>6, <1>a, <3>3
    <3>5. PICK v \in f[next] : F[v][1] = F[next][1]
      BY <1>5, <3>4
    <3> QED BY <1>1, <3>3, <3>5
  <2> QED BY <2>1, <2>2, <2>3
<1> QED BY <1>7, <1>8 DEF ReachesNames, L, over

LEMMA ReachesAll ==
    ASSUME NEW F, IsFilters(F), Grouped(F), NEW f,
           \A i \in 1 .. Len(F) + 1 : Reaches(F, f, i)
    PROVE  ReachesNames(F, f, 1)
<1> DEFINE L == Len(F)
           S == {n \in Nat : \A i \in 1 .. L + 1 :
                    i + n >= L + 1 /\ IsStart(F, i) => ReachesNames(F, f, i)}
<1>0. L \in Nat
  BY DEF IsFilters
<1>1. 0 \in S
  <2>1. ReachesNames(F, f, L + 1)
    <3>1. L + 1 \in 1 .. L + 1 /\ L + 1 > L /\ (L + 1) .. L = {}
      BY <1>0
    <3>2. f[L + 1] = {}
      BY <3>1 DEF Reaches
    <3> QED BY <3>1, <3>2 DEF ReachesNames
  <2>2. \A i \in 1 .. L + 1 : i + 0 >= L + 1 => i = L + 1
    BY <1>0
  <2> QED BY <2>1, <2>2
<1>2. ASSUME NEW n \in Nat, n \in S PROVE n + 1 \in S
  <2> SUFFICES ASSUME NEW i \in 1 .. L + 1, i + (n + 1) >= L + 1, IsStart(F, i)
               PROVE  ReachesNames(F, f, i)
    OBVIOUS
  <2>1. CASE i + n >= L + 1
    BY <1>2, <2>1
  <2>2. CASE ~ (i + n >= L + 1)
    <3>1. i \in 1 .. L
      BY <1>0, <2>2
    <3>2. Following(F, i) \in i + 1 .. L + 1 /\ IsStart(F, Following(F, i))
      BY <3>1, FollowingAfter, FollowingStarts
    <3>3. Following(F, i) \in 1 .. L + 1 /\ Following(F, i) + n >= L + 1
      BY <1>0, <3>1, <3>2
    <3>4. ReachesNames(F, f, Following(F, i))
      BY <1>2, <3>2, <3>3
    <3> QED BY <3>1, <3>4, ReachesFurther
  <2> QED BY <2>1, <2>2
<1>3. L \in S
  <2> HIDE DEF S, L
  <2> QED BY <1>0, <1>1, <1>2, Induction
<1>4. 1 \in 1 .. L + 1 /\ 1 + L >= L + 1
  BY <1>0
<1>5. IsStart(F, 1)
  BY <1>0, OverIs DEF IsStart
<1> QED BY <1>3, <1>4, <1>5

(* So a row passes when it has one of the filters of each such name. *)
LEMMA InclusiveIs ==
    ASSUME NEW F, IsFilters(F), Grouped(F), NEW row
    PROVE  PassesInclusive(row, F) <=>
              \A k \in 1 .. Len(F) : k \notin PassedOver(F) => HasOne(row, F, k)
<1>1. PICK f : /\ \A i \in 1 .. Len(F) + 1 : Reaches(F, f, i)
               /\ PassesInclusive(row, F) <=> \A i \in f[1] : HasOne(row, F, i)
  BY ReachedIs
<1>2. ReachesNames(F, f, 1)
  BY <1>1, ReachesAll
<1>3. ASSUME \A i \in f[1] : HasOne(row, F, i), NEW k \in 1 .. Len(F), k \notin PassedOver(F)
      PROVE  HasOne(row, F, k)
  <2>1. PICK v \in f[1] : F[v][1] = F[k][1]
    BY <1>2, <1>3 DEF ReachesNames
  <2>2. Group(F, v) = Group(F, k)
    BY <2>1 DEF Group
  <2> QED BY <1>3, <2>2 DEF HasOne
<1>4. ASSUME \A k \in 1 .. Len(F) : k \notin PassedOver(F) => HasOne(row, F, k), NEW i \in f[1]
      PROVE  HasOne(row, F, i)
  BY <1>2, <1>4 DEF ReachesNames
<1> QED BY <1>1, <1>3, <1>4

-----------------------------------------------------------------------------
(* The inclusive filters of a selection. *)

(* A list of parameters, each with a list of items. *)
IsParameters(filters) ==
    /\ Len(filters) \in Nat /\ DOMAIN filters = 1 .. Len(filters)
    /\ \A i \in 1 .. Len(filters) :
          /\ Len(filters[i].items) \in Nat
          /\ DOMAIN filters[i].items = 1 .. Len(filters[i].items)
    /\ \A i, k, j \in 1 .. Len(filters) :
          i <= k /\ k <= j /\ filters[i].name = filters[j].name =>
              filters[k].name = filters[i].name

LEMMA ParametersAre ==
    ASSUME NEW selection \in Selections
    PROVE  IsParameters(selection.filters)
<1> DEFINE filters == selection.filters
           T == [name : STRING, comma : BOOLEAN, items : Seq(STRING)]
<1>1. filters \in Seq(T)
  BY SelectionsAssumption
<1>2. Len(filters) \in Nat /\ DOMAIN filters = 1 .. Len(filters)
  BY <1>1, SeqDomain
<1>3. ASSUME NEW i \in 1 .. Len(filters)
      PROVE  /\ Len(filters[i].items) \in Nat
             /\ DOMAIN filters[i].items = 1 .. Len(filters[i].items)
  <2>1. filters[i] \in T
    <3> HIDE DEF T
    <3> QED BY <1>1, RangeHas
  <2>2. filters[i].items \in Seq(STRING)
    BY <2>1
  <2> HIDE DEF filters
  <2> QED BY <2>2, SeqDomain
<1>4. \A i, k, j \in 1 .. Len(filters) :
          i <= k /\ k <= j /\ filters[i].name = filters[j].name =>
              filters[k].name = filters[i].name
  BY <1>2, FiltersAssumption
<1> QED BY <1>2, <1>3, <1>4 DEF IsParameters

(* Each block of a list starts after the one before. *)
LEMMA BlocksRise ==
    ASSUME NEW m \in Nat, NEW off \in [1 .. m + 1 -> Nat],
           \A k \in 1 .. m : off[k] <= off[k + 1],
           NEW i \in 1 .. m + 1, NEW k \in i .. m + 1
    PROVE  off[i] <= off[k]
<1> DEFINE S == {n \in Nat : i + n <= m + 1 => off[i] <= off[i + n]}
<1>1. 0 \in S
  OBVIOUS
<1>2. ASSUME NEW n \in Nat, n \in S PROVE n + 1 \in S
  <2> SUFFICES ASSUME i + (n + 1) <= m + 1 PROVE off[i] <= off[i + (n + 1)]
    OBVIOUS
  <2>1. off[i] <= off[i + n]
    BY <1>2
  <2>2. i + n \in 1 .. m /\ i + (n + 1) = (i + n) + 1 /\ (i + n) + 1 \in 1 .. m + 1
        /\ i + n \in 1 .. m + 1
    OBVIOUS
  <2>3. off[i + n] <= off[(i + n) + 1]
    BY <2>2
  <2>4. off[i] \in Nat /\ off[i + n] \in Nat /\ off[(i + n) + 1] \in Nat
    BY <2>2
  <2> QED BY <2>1, <2>2, <2>3, <2>4
<1> HIDE DEF S
<1>3. k - i \in Nat /\ i + (k - i) = k /\ k <= m + 1
  OBVIOUS
<1>4. k - i \in S
  BY <1>1, <1>2, <1>3, Induction
<1> QED BY <1>3, <1>4 DEF S

(* off says where the items of each parameter are among the filters. *)
IsMany(filters, i) == filters[i].comma

Listed(filters, F, off) ==
    /\ Len(F) \in Nat /\ DOMAIN F = 1 .. Len(F)
    /\ \A i \in 1 .. Len(filters) : off[i] \in Nat
    /\ \A n \in 1 .. Len(F) : \E i \in 1 .. Len(filters) :
          IsMany(filters, i) /\ \E j \in 1 .. Len(filters[i].items) : n = off[i] + j
    /\ \A i \in 1 .. Len(filters) : IsMany(filters, i) =>
          \A j \in 1 .. Len(filters[i].items) :
              /\ off[i] + j \in 1 .. Len(F)
              /\ F[off[i] + j] = << filters[i].name, filters[i].items[j] >>
    /\ \A i, k \in 1 .. Len(filters) :
          i < k /\ IsMany(filters, i) => off[i] + Len(filters[i].items) <= off[k]

LEMMA InclusiveListed ==
    ASSUME NEW filters, IsParameters(filters)
    PROVE  \E off : Listed(filters, Inclusive(filters), off)
<1> DEFINE m == Len(filters)
           copies(i) == IF filters[i].comma
                        THEN [j \in DOMAIN filters[i].items |->
                                << filters[i].name, filters[i].items[j] >>]
                        ELSE << >>
           blocks == [i \in DOMAIN filters |-> copies(i)]
           S == UNION {Range(copies(i)) : i \in 1 .. m}
           F == FlattenSeq(blocks)
<1>0. m \in Nat /\ DOMAIN filters = 1 .. m
  BY DEF IsParameters
<1>1. Inclusive(filters) = F
  BY DEF Inclusive
<1>2. ASSUME NEW i \in 1 .. m
      PROVE  /\ copies(i) \in Seq(S)
             /\ Len(copies(i)) = IF IsMany(filters, i) THEN Len(filters[i].items) ELSE 0
             /\ IsMany(filters, i) => \A j \in 1 .. Len(filters[i].items) :
                   copies(i)[j] = << filters[i].name, filters[i].items[j] >>
  <2>1. CASE ~ IsMany(filters, i)
    <3>1. copies(i) = << >>
      BY <2>1 DEF IsMany
    <3> HIDE DEF copies, S
    <3> QED BY <2>1, <3>1
  <2>2. CASE IsMany(filters, i)
    <3> DEFINE n == Len(filters[i].items)
               c == [j \in 1 .. n |-> << filters[i].name, filters[i].items[j] >>]
    <3>1. n \in Nat /\ DOMAIN filters[i].items = 1 .. n
      BY DEF IsParameters
    <3>2. copies(i) = c
      BY <2>2, <3>1 DEF IsMany
    <3>3. /\ DOMAIN c = 1 .. n
          /\ \A j \in 1 .. n : c[j] = << filters[i].name, filters[i].items[j] >>
          /\ c = [j \in 1 .. n |-> c[j]]
      OBVIOUS
    <3> HIDE DEF n, c, copies
    <3>4. c \in Seq(Range(c)) /\ Len(c) = n
      BY <3>1, <3>3, FunctionIsList
    <3>5. Range(c) \subseteq S
      BY <3>2
    <3> HIDE DEF S
    <3>6. c \in Seq(S)
      BY <3>4, <3>5, SeqWider
    <3> QED BY <2>2, <3>2, <3>3, <3>4, <3>6 DEF n
  <2> QED BY <2>1, <2>2
<1> HIDE DEF copies, S
<1>3. blocks \in [1 .. m -> Seq(S)] /\ \A i \in 1 .. m : blocks[i] = copies(i)
  BY <1>0, <1>2
<1> HIDE DEF blocks
<1>4. blocks \in Seq(Seq(S)) /\ Len(blocks) = m
  <2> HIDE DEF m
  <2> QED BY <1>0, <1>3
<1>5. F \in Seq(S) /\ \E off : Blocks(blocks, Len(blocks), F, off)
  BY <1>4, FlattenBlocks
<1>6. PICK off : Blocks(blocks, m, F, off)
  BY <1>4, <1>5
<1>7. Len(F) \in Nat /\ DOMAIN F = 1 .. Len(F)
  BY <1>5, SeqDomain
<1> HIDE DEF F
<1>8. /\ off \in [1 .. m + 1 -> Nat]
      /\ off[m + 1] = Len(F)
      /\ \A k \in 1 .. m : off[k + 1] = off[k] + Len(copies(k))
      /\ \A k \in 1 .. m : \A j \in 1 .. Len(copies(k)) : F[off[k] + j] = copies(k)[j]
      /\ \A i \in 1 .. Len(F) :
            \E k \in 1 .. m : \E j \in 1 .. Len(copies(k)) : i = off[k] + j
  BY <1>3, <1>6 DEF Blocks
<1>9. \A k \in 1 .. m : Len(copies(k)) \in Nat
  BY <1>2, SeqDomain
<1> HIDE DEF m
<1>10. \A k \in 1 .. m : off[k] \in Nat /\ off[k] <= off[k + 1] /\ k + 1 \in 1 .. m + 1
  BY <1>0, <1>8, <1>9
<1>11. \A i \in 1 .. m + 1 : \A k \in i .. m + 1 : off[i] <= off[k]
  BY <1>0, <1>8, <1>10, BlocksRise
<1>12. ASSUME NEW n \in 1 .. Len(F)
       PROVE  \E i \in 1 .. m : IsMany(filters, i)
                 /\ \E j \in 1 .. Len(filters[i].items) : n = off[i] + j
  <2>1. PICK i \in 1 .. m : \E j \in 1 .. Len(copies(i)) : n = off[i] + j
    BY <1>8
  <2>2. IsMany(filters, i)
    <3>1. Len(copies(i)) # 0
      BY <2>1
    <3> QED BY <1>2, <3>1
  <2>3. Len(copies(i)) = Len(filters[i].items)
    BY <1>2, <2>2
  <2> QED BY <2>1, <2>2, <2>3
<1>13. ASSUME NEW i \in 1 .. m, IsMany(filters, i), NEW j \in 1 .. Len(filters[i].items)
       PROVE  /\ off[i] + j \in 1 .. Len(F)
              /\ F[off[i] + j] = << filters[i].name, filters[i].items[j] >>
  <2>1. Len(copies(i)) = Len(filters[i].items)
        /\ copies(i)[j] = << filters[i].name, filters[i].items[j] >>
    BY <1>2, <1>13
  <2>2. F[off[i] + j] = copies(i)[j]
    BY <1>8, <2>1
  <2>3. off[i + 1] <= off[m + 1] /\ off[i + 1] = off[i] + Len(filters[i].items)
    <3>1. i + 1 \in 1 .. m + 1 /\ m + 1 \in i + 1 .. m + 1
      BY <1>0
    <3> QED BY <1>8, <1>11, <2>1, <3>1
  <2>4. off[i] + j <= Len(F)
    <3>1. Len(filters[i].items) \in Nat /\ off[i] \in Nat
      BY <1>9, <1>10, <2>1
    <3> QED BY <1>7, <1>8, <2>3, <3>1
  <2>5. off[i] \in Nat
    BY <1>10
  <2> QED BY <1>7, <2>1, <2>2, <2>4, <2>5
<1>14. ASSUME NEW i \in 1 .. m, NEW k \in 1 .. m, i < k, IsMany(filters, i)
       PROVE  off[i] + Len(filters[i].items) <= off[k]
  <2>1. off[i + 1] = off[i] + Len(filters[i].items)
    BY <1>2, <1>8, <1>14
  <2>2. i + 1 \in 1 .. m + 1 /\ k \in i + 1 .. m + 1
    BY <1>0, <1>14
  <2> QED BY <1>11, <2>1, <2>2
<1>15. Listed(filters, F, off)
  BY <1>7, <1>10, <1>12, <1>13, <1>14 DEF Listed, m
<1> QED BY <1>1, <1>15

LEMMA ListedGrouped ==
    ASSUME NEW filters, IsParameters(filters), NEW F, NEW off, Listed(filters, F, off)
    PROVE  IsFilters(F) /\ Grouped(F)
<1> DEFINE m == Len(filters)
           size(i) == Len(filters[i].items)
           Many(i) == IsMany(filters, i)
           name(i) == filters[i].name
<1>1. /\ Len(F) \in Nat /\ DOMAIN F = 1 .. Len(F)
      /\ \A i \in 1 .. m : off[i] \in Nat
      /\ \A n \in 1 .. Len(F) : \E i \in 1 .. m : Many(i) /\ \E j \in 1 .. size(i) : n = off[i] + j
      /\ \A i \in 1 .. m : Many(i) => \A j \in 1 .. size(i) :
            off[i] + j \in 1 .. Len(F) /\ F[off[i] + j] = << name(i), filters[i].items[j] >>
      /\ \A i, k \in 1 .. m : i < k /\ Many(i) => off[i] + size(i) <= off[k]
  BY DEF Listed
<1>2. /\ m \in Nat
      /\ \A i \in 1 .. m : size(i) \in Nat
      /\ \A i, k, j \in 1 .. m : i <= k /\ k <= j /\ name(i) = name(j) => name(k) = name(i)
  BY DEF IsParameters, IsMany
<1> HIDE DEF m, size, Many, name
<1>3. \A n \in 1 .. Len(F) : \E i \in 1 .. m, j \in Nat :
         j \in 1 .. size(i) /\ Many(i) /\ n = off[i] + j /\ F[n][1] = name(i)
  <2> TAKE n \in 1 .. Len(F)
  <2>1. PICK i \in 1 .. m : Many(i) /\ \E j \in 1 .. size(i) : n = off[i] + j
    BY <1>1
  <2>2. PICK j \in 1 .. size(i) : n = off[i] + j
    BY <2>1
  <2>3. F[n][1] = name(i)
    BY <1>1, <2>1, <2>2
  <2>4. j \in Nat
    BY <1>2
  <2> QED BY <2>1, <2>2, <2>3, <2>4
<1>4. ASSUME NEW a \in 1 .. Len(F), NEW b \in 1 .. Len(F), a <= b,
             NEW i \in 1 .. m, NEW j \in 1 .. size(i), Many(i), a = off[i] + j,
             NEW k \in 1 .. m, NEW l \in 1 .. size(k), Many(k), b = off[k] + l
      PROVE  i <= k
  <2>1. ASSUME k < i PROVE FALSE
    <3>1. off[k] + size(k) <= off[i]
      BY <1>1, <1>4, <2>1
    <3> DEFINE x == off[k]
               y == off[i]
               s == size(k)
    <3>2. x \in Nat /\ y \in Nat /\ s \in Nat /\ size(i) \in Nat
      BY <1>1, <1>2
    <3>3. j \in Nat /\ 1 <= j /\ l \in Nat /\ l <= s
      BY <3>2
    <3>4. a = y + j /\ b = x + l /\ a <= b /\ x + s <= y
      BY <1>4, <3>1
    <3> HIDE DEF x, y, s
    <3> QED BY <3>2, <3>3, <3>4
  <2> QED BY <1>2, <2>1
<1>5. ASSUME NEW a \in 1 .. Len(F), NEW c \in 1 .. Len(F), NEW b \in 1 .. Len(F),
             a <= c, c <= b, F[a][1] = F[b][1]
      PROVE  F[c][1] = F[a][1]
  <2>1. PICK i \in 1 .. m, ii \in Nat : ii \in 1 .. size(i) /\ Many(i) /\ a = off[i] + ii /\ F[a][1] = name(i)
    BY <1>3
  <2>2. PICK k \in 1 .. m, kk \in Nat : kk \in 1 .. size(k) /\ Many(k) /\ c = off[k] + kk /\ F[c][1] = name(k)
    BY <1>3
  <2>3. PICK j \in 1 .. m, jj \in Nat : jj \in 1 .. size(j) /\ Many(j) /\ b = off[j] + jj /\ F[b][1] = name(j)
    BY <1>3
  <2>4. i <= k /\ k <= j
    BY <1>4, <1>5, <2>1, <2>2, <2>3
  <2> QED BY <1>2, <1>5, <2>1, <2>2, <2>3, <2>4
<1> QED BY <1>1, <1>5 DEF IsFilters, Grouped

-----------------------------------------------------------------------------
(* What a query without relations reads is what its selection says. *)

LEMMA OneType ==
    ASSUME NEW row, IsRow(row), NEW type
    PROVE  Type(row) = type <=> type \in Range(Values(row, "type"))
<1>1. PICK t : row["type"] = << t >>
  BY DEF IsRow
<1>2. Values(row, "type") = << t >>
  BY <1>1 DEF Values, IsRow
<1>3. Range(<< t >>) = {t}
  BY DEF Range
<1>4. Type(row) = t
  BY <1>1 DEF Type
<1> HIDE DEF Type
<1>5. Range(Values(row, "type")) = {t}
  BY <1>2, <1>3
<1> QED BY <1>4, <1>5

LEMMA ExclusiveIs ==
    ASSUME NEW filters, NEW row, IsRow(row), NEW type
    PROVE  PassesExclusive(row, Exclusive(filters) \cup {<< "type", type >>}) <=>
              /\ Type(row) = type
              /\ \A f \in Exclusive(filters) : f[2] \in Range(Values(row, f[1]))
<1> DEFINE E == Exclusive(filters)
           t == << "type", type >>
           ok(f) == f[2] \in Range(Values(row, f[1]))
<1>1. PassesExclusive(row, E \cup {t}) <=> (\A f \in E : ok(f)) /\ ok(t)
  BY DEF PassesExclusive
<1>2. ok(t) <=> Type(row) = type
  BY OneType
<1> QED BY <1>1, <1>2

LEMMA WantedIs ==
    ASSUME NEW selection \in Selections, NEW type, NEW row, IsRow(row)
    PROVE  Wanted(row, type, selection.filters) <=> Passes(row, QueryOf(selection, type))
<1> DEFINE filters == selection.filters
           F == Inclusive(filters)
           E == Exclusive(filters)
           X == E \cup {<< "type", type >>}
           Pass(f) == f[2] \in Range(Values(row, f[1]))
<1>1. Passes(row, QueryOf(selection, type)) <=> PassesExclusive(row, X) /\ PassesInclusive(row, F)
  BY QueryHas DEF Passes
<1>2. IsParameters(filters)
  BY ParametersAre
<1> HIDE DEF filters
<1>3. PassesExclusive(row, X) <=> Type(row) = type /\ \A f \in E : Pass(f)
  BY ExclusiveIs
<1>4. PICK off : Listed(filters, F, off)
  BY <1>2, InclusiveListed
<1>5. Wanted(row, type, filters) <=>
         /\ Type(row) = type
         /\ \A f \in E : Pass(f)
         /\ \A i \in DOMAIN F \ PassedOver(F) :
               \E j \in Group(F, i) : F[j][2] \in Range(Values(row, F[i][1]))
  BY DEF Wanted
<1> HIDE DEF F, E, Pass
<1>6. IsFilters(F) /\ Grouped(F)
  BY <1>2, <1>4, ListedGrouped
<1>7. PassesInclusive(row, F) <=>
         \A i \in 1 .. Len(F) : i \notin PassedOver(F) => HasOne(row, F, i)
  BY <1>6, InclusiveIs
<1>8. ASSUME NEW i
      PROVE  HasOne(row, F, i) <=>
                \E j \in Group(F, i) : F[j][2] \in Range(Values(row, F[i][1]))
  <2>1. \A j \in Group(F, i) : F[j][1] = F[i][1]
    BY DEF Group
  <2> QED BY <2>1 DEF HasOne
<1>9. DOMAIN F = 1 .. Len(F)
  BY <1>6 DEF IsFilters
<1>10. Wanted(row, type, filters) <=> PassesExclusive(row, X) /\ PassesInclusive(row, F)
  BY <1>3, <1>5, <1>7, <1>8, <1>9
<1> QED BY <1>1, <1>10 DEF filters, F, E

(* The page as Selected has it. *)
PagePlaces(list, index, limit) == {i \in DOMAIN list : index < i /\ i - index <= limit}

OnPage(list, index, limit) ==
    [n \in 1 .. Cardinality(PagePlaces(list, index, limit)) |-> list[index + n]]

LEMMA PageAs ==
    ASSUME NEW S, NEW list \in Seq(S), NEW q, q.index \in Nat, q.limit \in Nat
    PROVE  Page(list, q) = OnPage(list, q.index, q.limit)
<1> DEFINE page == Page(list, q)
           P == Len(page)
           x == q.index
           f == [n \in 1 .. P |-> x + n]
           paged == {i \in DOMAIN list : x < i /\ i - x <= q.limit}
<1>1. /\ page \in Seq(S)
      /\ P = IF x < Len(list)
             THEN IF q.limit > Len(list) - x THEN Len(list) - x ELSE q.limit
             ELSE 0
      /\ \A i \in 1 .. P : x + i \in 1 .. Len(list) /\ page[i] = list[x + i]
  BY PageIs
<1>2. Len(list) \in Nat /\ DOMAIN list = 1 .. Len(list) /\ P \in Nat /\ x \in Nat /\ q.limit \in Nat
  BY <1>1, SeqDomain
<1>3. \A n \in 1 .. P : page[n] = list[x + n]
  BY <1>1
<1>4. page = [n \in 1 .. P |-> page[n]]
  BY <1>1
<1> DEFINE L == Len(list)
           limit == q.limit
<1>a. /\ P = IF x < L THEN IF limit > L - x THEN L - x ELSE limit ELSE 0
      /\ \A i \in 1 .. P : x + i \in 1 .. L
      /\ DOMAIN list = 1 .. L /\ limit \in Nat /\ L \in Nat
      /\ paged = {i \in 1 .. L : x < i /\ i - x <= limit}
  BY <1>1, <1>2
<1> HIDE DEF page, P, x, L, limit
<1>5. Rises(f, P)
  BY <1>2 DEF Rises
<1>6. Image(f, P) = paged
  <2>1. ASSUME NEW i \in paged PROVE i - x \in 1 .. P /\ f[i - x] = i
    <3>1. i \in 1 .. L /\ x < i /\ i - x <= limit
      BY <1>a
    <3>2. i - x \in 1 .. P
      BY <1>a, <1>2, <3>1
    <3>3. x + (i - x) = i
      BY <1>2, <3>1
    <3> QED BY <3>2, <3>3
  <2>2. ASSUME NEW n \in 1 .. P PROVE f[n] \in paged
    <3>1. x + n \in 1 .. L /\ x < x + n /\ (x + n) - x = n
      BY <1>a, <1>2
    <3>2. n <= limit
      BY <1>a, <1>2
    <3> QED BY <1>a, <3>1, <3>2
  <2> HIDE DEF f, paged
  <2> QED BY <2>1, <2>2 DEF Image
<1>7. Cardinality(paged) = P
  <2> HIDE DEF f, paged
  <2> QED BY <1>2, <1>5, <1>6, Ranked
<1> HIDE DEF paged
<1>8. page = [n \in 1 .. Cardinality(paged) |-> list[x + n]]
  BY <1>3, <1>4, <1>7
<1> QED BY <1>8 DEF page, paged, x, OnPage, PagePlaces

(* A selection names rows by their keys. *)
Named(selection) ==
    IF selection.keys = << >> THEN rows
    ELSE [i \in DOMAIN selection.keys |->
            RowOf(rows, selection.keys[i])]

LEMMA KeysAre ==
    ASSUME NEW selection \in Selections, NEW type, NEW q, q = QueryOf(selection, type)
    PROVE  /\ IsReadable(q) /\ DOMAIN selection.keys = 1 .. Len(q.keys)
           /\ DOMAIN q.keys = 1 .. Len(q.keys)
           /\ \A i \in 1 .. Len(q.keys) :
                 q.keys[i] = Lower(selection.keys[i]) /\ Lower(q.keys[i]) = Lower(selection.keys[i])
           /\ q.keys = << >> <=> selection.keys = << >>
<1> DEFINE keys == selection.keys
<1>1. Len(keys) \in Nat /\ DOMAIN keys = 1 .. Len(keys)
  BY SelectionIs
<1>2. IsReadable(q) /\ Len(q.keys) = Len(keys) /\ \A i \in 1 .. Len(keys) : q.keys[i] = Lower(keys[i])
  <2>1. selection.index \in Nat /\ selection.limit \in Nat
    BY SelectionIs
  <2> QED BY <1>1, <2>1, QueryIsReadable
<1>3. \A i \in 1 .. Len(keys) : Lower(Lower(keys[i])) = Lower(keys[i])
  BY <1>1, LowerAssumption
<1>4. DOMAIN q.keys = 1 .. Len(q.keys)
  BY <1>2 DEF IsReadable
<1>5. q.keys = << >> <=> keys = << >>
  <2>1. q.keys = Lowered(keys)
    BY QueryHas
  <2>2. keys = << >> => Lowered(keys) = << >>
    <3>1. DOMAIN << >> = {}
      OBVIOUS
    <3>2. keys = << >> => Lowered(keys) = [i \in {} |-> Lowered(keys)[i]] /\ DOMAIN Lowered(keys) = {}
      BY <3>1 DEF Lowered
    <3> QED BY <3>2, NothingIs
  <2>3. keys \in Seq(STRING)
    BY SelectionsAssumption
  <2>4. Lowered(keys) = << >> => keys = << >>
    <3> SUFFICES ASSUME Lowered(keys) = << >> PROVE keys = << >>
      OBVIOUS
    <3>1. Len(keys) = 0
      <4>1. Len(Lowered(keys)) = Len(keys) /\ Len(<< >>) = 0
        BY <1>1, LoweredIs
      <4> QED BY <4>1
    <3> HIDE DEF keys
    <3> QED BY <2>3, <3>1
  <2> QED BY <2>1, <2>2, <2>4
<1> QED BY <1>1, <1>2, <1>3, <1>4, <1>5

LEMMA AllFoundIs ==
    ASSUME RowsInv(rows), NEW selection \in Selections, NEW type
    PROVE  AllFound(rows, selection) <=> ~ MissesKey(QueryOf(selection, type))
<1> DEFINE q == QueryOf(selection, type)
           n == Len(q.keys)
<1>1. /\ DOMAIN selection.keys = 1 .. n /\ DOMAIN q.keys = 1 .. n
      /\ \A i \in 1 .. n : Lower(q.keys[i]) = Lower(selection.keys[i])
  BY KeysAre
<1> HIDE DEF q
<1>2. rows \in Seq(Range(rows)) /\ Len(rows) \in Nat
  BY SeqDomain DEF RowsInv
<1>3. ASSUME NEW key
      PROVE  Position(rows, key) = 0 <=> ~ \E row \in Range(rows) : Key(row) = Lower(key)
  <2>1. /\ Position(rows, key) \in 0 .. Len(rows)
        /\ Position(rows, key) = 0 => \A i \in 1 .. Len(rows) : Key(rows[i]) # Lower(key)
        /\ Position(rows, key) # 0 => Key(rows[Position(rows, key)]) = Lower(key)
    BY <1>2, PositionIs
  <2>2. Position(rows, key) = 0 => \A row \in Range(rows) : Key(row) # Lower(key)
    BY <1>2, <2>1, RangeFrom
  <2>3. Position(rows, key) # 0 => rows[Position(rows, key)] \in Range(rows)
    <3>1. Position(rows, key) # 0 => Position(rows, key) \in 1 .. Len(rows)
      BY <1>2, <2>1
    <3> QED BY <1>2, <3>1, RangeHas
  <2> QED BY <2>1, <2>2, <2>3
<1>4. MissesKey(q) <=> \E i \in 1 .. n : ~ \E row \in Range(rows) : Key(row) = Lower(q.keys[i])
  BY <1>1, <1>3 DEF MissesKey
<1>5. AllFound(rows, selection) <=>
         \A i \in 1 .. n : \E row \in Range(rows) : Key(row) = Lower(q.keys[i])
  BY <1>1 DEF AllFound
<1> QED BY <1>4, <1>5 DEF q

LEMMA NamedIs ==
    ASSUME RowsInv(rows), NEW selection \in Selections, NEW type,
           ~ MissesKey(QueryOf(selection, type))
    PROVE  Named(selection) = Found(QueryOf(selection, type))
<1> DEFINE q == QueryOf(selection, type)
           n == Len(q.keys)
<1>1. /\ IsReadable(q)
      /\ DOMAIN selection.keys = 1 .. n /\ DOMAIN q.keys = 1 .. n
      /\ \A i \in 1 .. n : Lower(q.keys[i]) = Lower(selection.keys[i])
      /\ q.keys = << >> <=> selection.keys = << >>
  BY KeysAre
<1> HIDE DEF q
<1>2. rows \in Seq(Range(rows)) /\ ~ MissesKey(q) /\ Len(q.keys) \in Nat
  BY <1>1 DEF RowsInv, IsReadable, q
<1>3. CASE q.keys = << >>
  BY <1>1, <1>3 DEF Named, Found, q
<1>4. CASE q.keys # << >>
  <2>1. \A i \in 1 .. n : /\ Position(rows, q.keys[i]) \in 1 .. Len(rows)
                          /\ Key(rows[Position(rows, q.keys[i])]) = Lower(q.keys[i])
    <3>1. \A i \in 1 .. n : /\ Position(rows, q.keys[i]) \in 1 .. Len(rows)
                            /\ Found(q)[i] = rows[Position(rows, q.keys[i])]
                            /\ Key(Found(q)[i]) = Lower(q.keys[i])
      BY <1>1, <1>2, <1>4, FoundIs
    <3> QED BY <3>1
  <2>2. ASSUME NEW i \in 1 .. n
        PROVE  RowOf(rows, selection.keys[i]) = rows[Position(rows, q.keys[i])]
    <3> DEFINE at == Position(rows, q.keys[i])
               key == Lower(selection.keys[i])
               chosen == CHOOSE j \in DOMAIN rows :
                            /\ Key(rows[j]) = key
                            /\ \A k \in 1 .. j - 1 : Key(rows[k]) # key
    <3>1. at \in 1 .. Len(rows) /\ Key(rows[at]) = key
      BY <1>1, <2>1
    <3>2. \A k \in 1 .. Len(rows) : Key(rows[k]) = key => at <= k
      <4>1. at # 0 /\ Lower(q.keys[i]) = key
        BY <1>1, <3>1
      <4> QED BY <1>2, <4>1, PositionIs
    <3>3. RowOf(rows, selection.keys[i]) = rows[chosen]
      BY DEF RowOf
    <3> HIDE DEF at, key
    <3>4. DOMAIN rows = 1 .. Len(rows) /\ Len(rows) \in Nat
      BY <1>2, SeqDomain
    <3>5. \A k \in 1 .. at - 1 : k \in 1 .. Len(rows) /\ ~ (at <= k)
      BY <3>1, <3>4
    <3>6. \A k \in 1 .. at - 1 : Key(rows[k]) # key
      BY <3>2, <3>5
    <3>7. /\ chosen \in 1 .. Len(rows) /\ Key(rows[chosen]) = key
          /\ \A k \in 1 .. chosen - 1 : Key(rows[k]) # key
      BY <3>1, <3>4, <3>6
    <3> HIDE DEF chosen
    <3>8. at <= chosen
      BY <3>2, <3>7
    <3>9. chosen <= at
      <4>1. ASSUME at < chosen PROVE FALSE
        <5>1. at \in 1 .. chosen - 1
          BY <3>1, <3>7, <4>1
        <5> QED BY <3>1, <3>7, <5>1
      <4> QED BY <3>1, <3>7, <4>1
    <3>10. chosen = at
      BY <3>1, <3>7, <3>8, <3>9
    <3> QED BY <3>3, <3>10 DEF at
  <2>3. Named(selection) = [i \in 1 .. n |->
            RowOf(rows, selection.keys[i])]
    BY <1>1, <1>4 DEF Named
  <2>4. Found(q) = [i \in 1 .. n |-> rows[Position(rows, q.keys[i])]]
    BY <1>1, <1>4 DEF Found
  <2> QED BY <2>2, <2>3, <2>4 DEF q
<1> QED BY <1>3, <1>4

LEMMA SelectedIs ==
    ASSUME RowsInv(rows), NEW selection \in Selections, NEW type,
           ~ MissesKey(QueryOf(selection, type))
    PROVE  Selected(rows, type, selection) = Paged(QueryOf(selection, type))
<1> DEFINE q == QueryOf(selection, type)
           found == Named(selection)
           wanted == Kept(found, {i \in DOMAIN found : Wanted(found[i], type, selection.filters)})
<1>1. Selected(rows, type, selection) = OnPage(wanted, selection.index, selection.limit)
  BY DEF Selected, Named, OnPage, PagePlaces
<1>2. found = Found(q)
  BY NamedIs
<1>3. IsReadable(q) /\ ~ MissesKey(q) /\ q.index = selection.index /\ q.limit = selection.limit
  BY KeysAre, QueryHas
<1> HIDE DEF q, found
<1>4. Found(q) \in Seq(Range(rows)) /\ DOMAIN Found(q) = 1 .. Len(Found(q))
  BY <1>3, FoundIs, SeqDomain DEF IsReadable, RowsInv
<1>5. ASSUME NEW i \in DOMAIN Found(q)
      PROVE  Wanted(Found(q)[i], type, selection.filters) <=> Passes(Found(q)[i], q)
  <2>1. Found(q)[i] \in Range(rows)
    BY <1>4, RangeHas
  <2>2. IsRow(Found(q)[i])
    BY <2>1, RowHas
  <2> QED BY <2>2, WantedIs DEF q
<1>6. {i \in DOMAIN found : Wanted(found[i], type, selection.filters)}
         = {i \in DOMAIN Found(q) : Passes(Found(q)[i], q)}
  BY <1>2, <1>5
<1>7. wanted = Passing(q)
  BY <1>2, <1>6 DEF Passing
<1>8. Passing(q) \in Seq(Range(rows)) /\ q.index \in Nat /\ q.limit \in Nat
  BY <1>3, <1>4, PassingIs DEF IsReadable
<1> HIDE DEF wanted
<1>9. Page(wanted, q) = OnPage(wanted, q.index, q.limit)
  BY <1>7, <1>8, PageAs
<1> QED BY <1>1, <1>3, <1>7, <1>9 DEF Paged, q

-----------------------------------------------------------------------------
(* A DELETE removes what its selection says. *)

LEMMA RowsAre ==
    ASSUME RowsInv(rows)
    PROVE  rows \in Seq(Range(rows)) /\ Len(rows) \in Nat /\ DOMAIN rows = 1 .. Len(rows)
BY SeqDomain DEF RowsInv

LEMMA RowsDiffer ==
    ASSUME RowsInv(rows), KeysDiffer(rows)
    PROVE  \A i, j \in 1 .. Len(rows) : rows[i] = rows[j] => i = j
BY RowsAre DEF KeysDiffer

(* Of the rows, a part that has those that are not gone. *)
LEMMA RemainderIs ==
    ASSUME RowsInv(rows), KeysDiffer(rows), NEW list, SomeRows(list), NEW gone,
           \A row \in Range(rows) : row \in Range(list) <=> row \notin gone
    PROVE  list = Kept(rows, {i \in DOMAIN rows : rows[i] \notin gone})
<1> DEFINE places == {i \in DOMAIN rows : rows[i] \notin gone}
           kept == Kept(rows, places)
           N == Len(rows)
<1>1. /\ rows \in Seq(Range(rows)) /\ N \in Nat /\ DOMAIN rows = 1 .. N
      /\ \A i, j \in 1 .. N : rows[i] = rows[j] => i = j
  BY RowsAre, RowsDiffer
<1>2. list \in Seq(Range(rows)) /\ \E f : IsPart(rows, list, f)
  BY DEF SomeRows
<1>3. PICK f : IsPart(rows, list, f)
  BY <1>2
<1>4. kept \in Seq(Range(rows)) /\ \E g : Selects(rows, places, N, kept, g)
  BY <1>1, KeptSelects
<1>5. PICK g : Selects(rows, places, N, kept, g)
  BY <1>4
<1> HIDE DEF kept
<1>6. IsPart(rows, kept, g)
  BY <1>5 DEF Selects, IsPart
<1>7. \A i \in 1 .. N : i \in places <=> rows[i] \in Range(list)
  BY <1>1, RangeHas
<1>8. \A i \in 1 .. N : i \in Image(f, Len(list)) <=> rows[i] \in Range(list)
  <2> TAKE i \in 1 .. N
  <2>1. /\ f \in [1 .. Len(list) -> 1 .. N]
        /\ \A k \in 1 .. Len(list) : list[k] = rows[f[k]]
    BY <1>3 DEF IsPart
  <2>2. ASSUME rows[i] \in Range(list) PROVE \E k \in 1 .. Len(list) : i = f[k]
    <3>1. PICK k \in 1 .. Len(list) : rows[i] = list[k]
      BY <1>2, <2>2, RangeFrom
    <3>2. rows[i] = rows[f[k]] /\ f[k] \in 1 .. N
      BY <2>1, <3>1
    <3> QED BY <1>1, <3>2
  <2>3. ASSUME NEW k \in 1 .. Len(list), i = f[k] PROVE rows[i] \in Range(list)
    BY <1>2, <2>1, <2>3, RangeHas
  <2> QED BY <2>2, <2>3 DEF Image
<1>9. \A i \in 1 .. N : i \in Image(g, Len(kept)) <=> i \in places
  BY <1>5 DEF Selects, Image
<1>10. Image(f, Len(list)) \subseteq 1 .. N /\ Image(g, Len(kept)) \subseteq 1 .. N
  <2>1. /\ f \in [1 .. Len(list) -> 1 .. N]
        /\ g \in [1 .. Len(kept) -> 1 .. N]
    BY <1>3, <1>6 DEF IsPart
  <2> HIDE DEF N
  <2> QED BY <2>1 DEF Image
<1> HIDE DEF places
<1>11. Image(f, Len(list)) = Image(g, Len(kept))
  BY <1>7, <1>8, <1>9, <1>10
<1>12. list = kept
  BY <1>1, <1>2, <1>3, <1>4, <1>6, <1>11, SamePart
<1> QED BY <1>12 DEF kept, places

LEMMA DeletedIs ==
    ASSUME RowsInv(rows), KeysDiffer(rows), NEW selection \in Selections, NEW type \in Types,
           Delete(type, selection), ShowsKey(selection.fields), answer'.code = 204
    PROVE  rows' = Kept(rows, {i \in DOMAIN rows :
                                  rows[i] \notin Range(Selected(rows, type, selection))})
<1> DEFINE q == QueryOf(selection, type)
           gone == Range(Selected(rows, type, selection))
<1>1. IsPlain(q) /\ Remains(rows', Results(q), Len(Results(q)))
  BY KeyedDelete
<1>2. ~ MissesKey(q)
  BY <1>1 DEF IsPlain
<1>3. gone = Range(Paged(q))
  BY <1>2, SelectedIs
<1> HIDE DEF q, gone
<1>5. /\ Paged(q) \in Seq(Range(rows)) /\ Len(Results(q)) = Len(Paged(q))
      /\ \A i \in 1 .. Len(Paged(q)) : Key(Results(q)[i]) = Key(Paged(q)[i])
  BY <1>1, PlainResults
<1>6. ASSUME NEW row \in Range(rows)
      PROVE  row \in Range(rows') <=> row \notin gone
  <2>1. row \in Range(rows') <=> \A m \in 1 .. Len(Paged(q)) : Key(Paged(q)[m]) # Key(row)
    BY <1>1, <1>5 DEF Remains
  <2>2. ASSUME NEW m \in 1 .. Len(Paged(q)), Key(Paged(q)[m]) = Key(row)
        PROVE  row = Paged(q)[m]
    <3>1. Paged(q)[m] \in Range(rows)
      BY <1>5, RangeHas
    <3>2. PICK i \in 1 .. Len(rows) : row = rows[i]
      BY RowsAre, RangeFrom
    <3> QED BY <2>2, <3>1, <3>2, SameKeySameRow
  <2>3. row \in gone => \E m \in 1 .. Len(Paged(q)) : row = Paged(q)[m]
    BY <1>3, <1>5, RangeFrom
  <2>4. \A m \in 1 .. Len(Paged(q)) : Paged(q)[m] \in gone
    BY <1>3, <1>5, RangeHas
  <2> QED BY <2>1, <2>2, <2>3, <2>4
<1>7. SomeRows(rows')
  BY <1>1 DEF Remains
<1>8. rows' = Kept(rows, {i \in DOMAIN rows : rows[i] \notin gone})
  BY <1>6, <1>7, RemainderIs
<1> QED BY <1>8 DEF gone

(* A DELETE that succeeds removes the rows of its selection and no other,    *)
(* and those that stay keep their order, as long as the rows have different  *)
(* keys (stl_repository.cpp:230-267).                                        *)
THEOREM DeletesAreExact == Spec => DeleteIsExact
<1> DEFINE Exact == KeysDiffer(rows) /\ answer'.method = "DELETE" /\ answer'.code = 204
                      /\ (answer'.selection.fields = {} \/ "key" \in answer'.selection.fields) =>
                        LET gone == Range(Selected(rows, answer'.type, answer'.selection))
                        IN  rows' = Kept(rows, {i \in DOMAIN rows : rows[i] \notin gone})
<1>1. Inv /\ [Next]_vars => [Exact]_vars
  <2> SUFFICES ASSUME Inv, Next PROVE Exact
    OBVIOUS
  <2>0. RowsInv(rows)
    BY DEF Inv
  <2>1. CASE Answered
    <3>1. answer'.method = ""
      BY <2>1, AnsweredIs
    <3> QED BY <3>1
  <2>2. CASE Request
    <3>1. PICK selection \in Selections :
              \/ \E type \in Types : Get(type, selection)
              \/ \E type \in Types : \E body \in Bodies : Post(type, selection, body.values)
              \/ \E type \in Types : \E changes \in Changes : Put(type, selection, changes)
              \/ \E type \in Types : Delete(type, selection)
              \/ Publish(selection)
      BY <2>2, RequestIs
    <3>2. ASSUME NEW type \in Types, Delete(type, selection) PROVE Exact
      <4>1. answer'.type = type /\ answer'.selection = selection
        BY <3>2 DEF Delete, Reply, Lost
      <4>2. KeysDiffer(rows) /\ answer'.code = 204 /\ ShowsKey(selection.fields) =>
               rows' = Kept(rows, {i \in DOMAIN rows :
                                      rows[i] \notin Range(Selected(rows, type, selection))})
        BY <2>0, <3>2, DeletedIs
      <4> QED BY <4>1, <4>2 DEF ShowsKey
    <3>3. ASSUME NEW type \in Types, NEW changes \in Changes, Put(type, selection, changes)
          PROVE  answer'.method = "PUT"
      BY <3>3, PutIs
    <3>4. answer'.method # "DELETE" => Exact
      OBVIOUS
    <3> HIDE DEF Exact
    <3> QED BY <3>1, <3>2, <3>3, <3>4, OtherMethods
  <2> QED BY <2>1, <2>2 DEF Next
<1> QED BY <1>1, InvariantHolds, PTL DEF Spec, DeleteIsExact

-----------------------------------------------------------------------------
(* A GET shows its selection. *)

ShownPlaces(selected, fields) ==
    {i \in DOMAIN selected : fields = {} \/ DOMAIN selected[i] \cap fields # {}}

OnlyFields(row, fields) ==
    [p \in {p \in DOMAIN row : fields = {} \/ p \in fields} |-> row[p]]

IsExactBody(selected, fields, body) ==
    /\ Len(body) = Cardinality(ShownPlaces(selected, fields))
    /\ \A i \in ShownPlaces(selected, fields) :
          body[Cardinality({j \in ShownPlaces(selected, fields) : j <= i})] =
              OnlyFields(selected[i], fields)

(* Of what is shown, each from the next of the places. *)
LEMMA ExactFrom ==
    ASSUME NEW selected, NEW fields, NEW body, NEW from, NEW n \in Nat,
           Len(body) = n, Rises(from, n), Image(from, n) = ShownPlaces(selected, fields),
           \A k \in 1 .. n : body[k] = OnlyFields(selected[from[k]], fields)
    PROVE  IsExactBody(selected, fields, body)
<1> DEFINE places == ShownPlaces(selected, fields)
<1> HIDE DEF places
<1>1. Image(from, n) = places
  BY DEF places
<1>2. /\ Cardinality(places) = n
      /\ \A k \in 1 .. n : Cardinality({j \in places : j <= from[k]}) = k
  BY <1>1, Ranked
<1>3. ASSUME NEW i \in places
      PROVE  body[Cardinality({j \in places : j <= i})] = OnlyFields(selected[i], fields)
  <2>1. PICK k \in 1 .. n : i = from[k]
    BY <1>1 DEF Image
  <2>2. Cardinality({j \in places : j <= i}) = k
    BY <1>2, <2>1
  <2> QED BY <2>1, <2>2
<1> QED BY <1>2, <1>3 DEF IsExactBody, places

LEMMA FieldsExact ==
    ASSUME NEW S, NEW list \in Seq(S), NEW fields,
           \A i \in 1 .. Len(list) : list[i] = [p \in DOMAIN list[i] |-> list[i][p]]
    PROVE  IsExactBody(list, fields, Fields(list, fields))
<1>0. Len(list) \in Nat /\ DOMAIN list = 1 .. Len(list)
  BY SeqDomain
<1>1. CASE fields = {}
  <2> DEFINE n == Len(list)
             f == [k \in 1 .. n |-> k]
  <2>1. Fields(list, fields) = list
    BY <1>1 DEF Fields
  <2>2. ShownPlaces(list, fields) = 1 .. n
    BY <1>0, <1>1 DEF ShownPlaces
  <2>3. \A k \in 1 .. n : list[k] = OnlyFields(list[k], fields)
    <3> TAKE k \in 1 .. n
    <3>1. {p \in DOMAIN list[k] : fields = {} \/ p \in fields} = DOMAIN list[k]
      BY <1>1
    <3> QED BY <3>1 DEF OnlyFields
  <2> HIDE DEF n
  <2>4. n \in Nat /\ \A k \in 1 .. n : f[k] = k /\ k \in Nat
    BY <1>0 DEF n
  <2>5. Rises(f, n)
    BY <2>4 DEF Rises
  <2>6. Image(f, n) = 1 .. n
    BY <2>4 DEF Image
  <2>7. Len(list) = n
    BY DEF n
  <2>8. \A k \in 1 .. n : list[k] = OnlyFields(list[f[k]], fields)
    BY <2>3, <2>4
  <2> HIDE DEF f
  <2>9. IsExactBody(list, fields, list)
    BY <2>2, <2>4, <2>5, <2>6, <2>7, <2>8, ExactFrom
  <2> QED BY <2>1, <2>9
<1>2. CASE fields # {}
  <2> DEFINE shown == Fields(list, fields)
             n == Len(shown)
  <2>1. n \in Nat /\ \E from : Shows(list, fields, shown, from)
    BY <1>2, FieldsShow
  <2>2. PICK from : Shows(list, fields, shown, from)
    BY <2>1
  <2> HIDE DEF shown
  <2>3. /\ from \in [1 .. n -> 1 .. Len(list)]
        /\ \A i, j \in 1 .. n : i < j => from[i] < from[j]
        /\ \A i \in 1 .. n :
              shown[i] = Cut(list[from[i]], fields) /\ DOMAIN list[from[i]] \cap fields # {}
        /\ \A k \in 1 .. Len(list) :
              DOMAIN list[k] \cap fields # {} => \E i \in 1 .. n : from[i] = k
    BY <2>2 DEF Shows
  <2>4. Rises(from, n)
    BY <1>0, <2>3 DEF Rises
  <2>5. Image(from, n) = ShownPlaces(list, fields)
    <3>1. ShownPlaces(list, fields) = {k \in 1 .. Len(list) : DOMAIN list[k] \cap fields # {}}
      BY <1>0, <1>2 DEF ShownPlaces
    <3> HIDE DEF n
    <3> QED BY <2>3, <3>1 DEF Image
  <2>6. \A k \in 1 .. n : shown[k] = OnlyFields(list[from[k]], fields)
    <3>1. \A row : {p \in DOMAIN row : fields = {} \/ p \in fields} = DOMAIN row \cap fields
      BY <1>2
    <3>2. \A row : Cut(row, fields) = OnlyFields(row, fields)
      BY <3>1 DEF Cut, OnlyFields
    <3> QED BY <2>3, <3>2
  <2>7. Len(shown) = n
    OBVIOUS
  <2> HIDE DEF n
  <2>8. IsExactBody(list, fields, shown)
    BY <2>1, <2>4, <2>5, <2>6, <2>7, ExactFrom
  <2> QED BY <2>8 DEF shown
<1> QED BY <1>1, <1>2

(* What a GET has to answer, of any rows. *)
IsExactRead(list, ans) ==
    ans.method = "GET" =>
        /\ ans.code = IF AllFound(list, ans.selection) THEN 200 ELSE 404
        /\ ans.code = 200 =>
              IsExactBody(Selected(list, ans.type, ans.selection), ans.selection.fields, ans.body)

LEMMA ExactReadIs ==
    /\ ReadIsExact <=> IsExactRead(rows, answer)
    /\ ReadIsExact' <=> IsExactRead(rows', answer')
BY DEF ReadIsExact, IsExactRead, IsExactBody, ShownPlaces, OnlyFields

LEMMA GetIs ==
    ASSUME RowsInv(rows), NEW selection \in Selections, NEW type \in Types,
           Get(type, selection)
    PROVE  IsExactRead(rows', answer')
<1> DEFINE q == QueryOf(selection, type)
           read == Read(q)
           exact == IsExactBody(Selected(rows, type, selection), selection.fields, answer'.body)
<1>1. /\ rows' = rows
      /\ answer'.method = "GET" /\ answer'.type = type /\ answer'.selection = selection
      /\ answer'.code = IF read.error # 0 THEN Status(read.error) ELSE 200
      /\ answer'.body = read.resultset
  BY DEF Get, Reply
<1>2. IsReadable(q) /\ IsQuery(q) /\ q.error = 0
  BY KeysAre, QueriesAre
<1>3. q.include = "" /\ q.fields = selection.fields
  BY QueryPlain
<1>4. AllFound(rows, selection) <=> ~ MissesKey(q)
  BY AllFoundIs
<1>5. ASSUME ~ MissesKey(q) PROVE Selected(rows, type, selection) = Paged(q)
  BY <1>5, SelectedIs
<1> HIDE DEF q
<1>6. MissesKey(q) => read.error = 40004
  BY <1>2, ReadFails
<1>7. ~ MissesKey(q) => read.error = 0 /\ read.resultset = Results(q)
  BY <1>2, ReadSucceeds
<1> HIDE DEF read
<1>8. Status(40004) = 404
  BY DEF Status
<1>9. answer'.code = IF AllFound(rows, selection) THEN 200 ELSE 404
  BY <1>1, <1>4, <1>6, <1>7, <1>8
<1>10. ASSUME answer'.code = 200 PROVE exact
  <2>1. ~ MissesKey(q)
    BY <1>4, <1>9, <1>10
  <2>2. rows \in Seq(Range(rows))
    BY DEF RowsInv
  <2>3. Paged(q) \in Seq(Range(rows))
    BY <1>2, <2>1, <2>2, PagedAre
  <2>4. \A i \in 1 .. Len(Paged(q)) : Paged(q)[i] = [p \in DOMAIN Paged(q)[i] |-> Paged(q)[i][p]]
    <3> TAKE i \in 1 .. Len(Paged(q))
    <3> DEFINE row == Paged(q)[i]
    <3>1. row \in Range(rows)
      BY <2>3, RangeHas
    <3> HIDE DEF row
    <3>2. IsRow(row)
      BY <3>1, RowHas
    <3>3. row = [p \in DOMAIN row |-> row[p]]
      BY <3>2 DEF IsRow, IsMultimap
    <3> QED BY <3>3 DEF row
  <2>5. Results(q) = Fields(Paged(q), selection.fields)
    <3>1. Shown(q) = Paged(q)
      BY <1>3, <2>3, NothingRelated DEF Shown
    <3> QED BY <1>3, <3>1 DEF Results, Shown
  <2>6. IsExactBody(Paged(q), selection.fields, Fields(Paged(q), selection.fields))
    BY <2>3, <2>4, FieldsExact
  <2> QED BY <1>1, <1>5, <1>7, <2>1, <2>5, <2>6
<1> QED BY <1>1, <1>9, <1>10 DEF IsExactRead

(* A GET answers the rows of its selection with the fields that are asked    *)
(* for, of all rows that ever are stored, and 404 when one of its keys has   *)
(* no row (stl_repository.cpp:96-157, 372-459).                              *)
THEOREM ReadsAreExact == Spec => []ReadIsExact
<1>1. Init => ReadIsExact
  <2>1. NoAnswer.method # "GET"
    BY DEF NoAnswer
  <2> QED BY <2>1 DEF Init, ReadIsExact
<1>2. Inv /\ ReadIsExact /\ [Next]_vars => ReadIsExact'
  <2> SUFFICES ASSUME Inv, ReadIsExact, [Next]_vars PROVE ReadIsExact'
    OBVIOUS
  <2>0. RowsInv(rows)
    BY DEF Inv
  <2>1. CASE UNCHANGED vars
    <3>1. rows' = rows /\ answer' = answer
      BY <2>1 DEF vars
    <3>2. IsExactRead(rows, answer)
      BY ExactReadIs
    <3> QED BY <3>1, <3>2, ExactReadIs
  <2>2. answer'.method # "GET" => ReadIsExact'
    BY ExactReadIs DEF IsExactRead
  <2>3. CASE Answered
    <3>1. answer'.method = ""
      BY <2>3, AnsweredIs
    <3> QED BY <2>2, <3>1
  <2>4. CASE Request
    <3>1. PICK selection \in Selections :
              \/ \E type \in Types : Get(type, selection)
              \/ \E type \in Types : \E body \in Bodies : Post(type, selection, body.values)
              \/ \E type \in Types : \E changes \in Changes : Put(type, selection, changes)
              \/ \E type \in Types : Delete(type, selection)
              \/ Publish(selection)
      BY <2>4, RequestIs
    <3>2. ASSUME NEW type \in Types, Get(type, selection) PROVE ReadIsExact'
      <4>1. IsExactRead(rows', answer')
        BY <2>0, <3>2, GetIs
      <4> QED BY <4>1, ExactReadIs
    <3>3. ASSUME NEW type \in Types, NEW changes \in Changes, Put(type, selection, changes)
          PROVE  answer'.method = "PUT"
      BY <3>3, PutIs
    <3> QED BY <2>2, <3>1, <3>2, <3>3, OtherMethods
  <2> QED BY <2>1, <2>3, <2>4 DEF Next
<1> QED BY <1>1, <1>2, InvariantHolds, PTL DEF Spec

-----------------------------------------------------------------------------
(* A message goes to those that name one of its queues. *)

LEMMA KeptRange ==
    ASSUME NEW S, NEW list \in Seq(S), NEW places
    PROVE  /\ Kept(list, places) \in Seq(S)
           /\ Len(Kept(list, places)) <= Len(list)
           /\ \A x : x \in Range(Kept(list, places)) <=>
                        \E i \in 1 .. Len(list) : i \in places /\ x = list[i]
<1> DEFINE kept == Kept(list, places)
<1>1. kept \in Seq(S) /\ \E from : Selects(list, places, Len(list), kept, from)
  BY KeptSelects
<1>2. PICK from : Selects(list, places, Len(list), kept, from)
  BY <1>1
<1> HIDE DEF kept
<1>0. Len(list) \in Nat /\ Len(kept) \in Nat
  BY <1>1, SeqDomain
<1>3. /\ from \in [1 .. Len(kept) -> 1 .. Len(list)]
      /\ \A i, j \in 1 .. Len(kept) : i < j => from[i] < from[j]
      /\ \A i \in 1 .. Len(kept) : from[i] \in places /\ kept[i] = list[from[i]]
      /\ \A n \in 1 .. Len(list) : n \in places => \E i \in 1 .. Len(kept) : from[i] = n
  BY <1>2 DEF Selects
<1>4. Len(kept) <= Len(list)
  BY <1>0, <1>3, Increasing
<1>5. ASSUME NEW x \in Range(kept)
      PROVE  \E i \in 1 .. Len(list) : i \in places /\ x = list[i]
  <2>1. PICK k \in 1 .. Len(kept) : x = kept[k]
    BY <1>1, RangeFrom
  <2> QED BY <1>3, <2>1
<1>6. ASSUME NEW i \in 1 .. Len(list), i \in places
      PROVE  list[i] \in Range(kept)
  <2>1. PICK k \in 1 .. Len(kept) : from[k] = i
    BY <1>3, <1>6
  <2>2. kept[k] = list[i] /\ kept[k] \in Range(kept)
    BY <1>1, <1>3, <2>1, RangeHas
  <2> QED BY <2>2
<1> QED BY <1>1, <1>4, <1>5, <1>6 DEF kept

LEMMA EmptyRange ==
    ASSUME NEW S, NEW list \in Seq(S)
    PROVE  list = << >> <=> Range(list) = {}
<1>1. list = << >> => Range(list) = {}
  BY DEF Range
<1>2. ASSUME Range(list) = {} PROVE list = << >>
  <2>1. Len(list) \in Nat
    OBVIOUS
  <2>2. \A i \in 1 .. Len(list) : FALSE
    BY <1>2, RangeHas
  <2>3. Len(list) = 0
    BY <2>1, <2>2
  <2> QED BY <2>3
<1> QED BY <1>1, <1>2

(* A page that has room for all of the rows. *)
LEMMA WholePage ==
    ASSUME NEW S, NEW list \in Seq(S), NEW q, q.index = 0, q.limit \in Nat,
           Len(list) <= q.limit
    PROVE  /\ Page(list, q) \in Seq(S) /\ Len(Page(list, q)) = Len(list)
           /\ \A i \in 1 .. Len(list) : Page(list, q)[i] = list[i]
<1> DEFINE page == Page(list, q)
           n == Len(list)
<1>1. /\ page \in Seq(S)
      /\ Len(page) = IF q.index < n
                     THEN IF q.limit > n - q.index THEN n - q.index ELSE q.limit
                     ELSE 0
      /\ \A i \in 1 .. Len(page) : page[i] = list[q.index + i]
  BY PageIs
<1>2. n \in Nat /\ n <= q.limit /\ q.index = 0 /\ q.limit \in Nat
  OBVIOUS
<1> HIDE DEF page, n
<1>3. Len(page) = n
  BY <1>1, <1>2
<1>4. \A i \in 1 .. n : page[i] = list[i]
  BY <1>1, <1>2, <1>3
<1> QED BY <1>1, <1>3, <1>4 DEF page, n

(* The filters of the queues have one name, and none is passed over. *)
LEMMA QueuesGrouped ==
    ASSUME NEW S, NEW queues \in Seq(S), NEW F,
           F = [i \in DOMAIN queues |-> << "queues", LowerBound(queues[i], "key") >>]
    PROVE  /\ IsFilters(F) /\ Grouped(F)
           /\ \A i \in 1 .. Len(F) : Group(F, i) = 1 .. Len(F) /\ i \notin PassedOver(F)
           /\ Len(F) = Len(queues)
           /\ \A i \in 1 .. Len(F) : F[i][1] = "queues" /\ F[i][2] = LowerBound(queues[i], "key")
<1> DEFINE n == Len(queues)
<1>1. n \in Nat /\ DOMAIN queues = 1 .. n
  BY SeqDomain
<1>2. DOMAIN F = 1 .. n /\ F = [i \in 1 .. n |-> F[i]]
  BY <1>1
<1>3. \A i \in 1 .. n : F[i][1] = "queues" /\ F[i][2] = LowerBound(queues[i], "key")
  BY <1>1
<1> HIDE DEF n
<1>4. Len(F) = n
  BY <1>1, <1>2, FunctionIsList
<1>5. IsFilters(F) /\ Grouped(F)
  BY <1>1, <1>2, <1>3, <1>4 DEF IsFilters, Grouped
<1>6. \A i \in 1 .. n : Group(F, i) = 1 .. n
  BY <1>2, <1>3 DEF Group
<1>7. ASSUME NEW i \in 1 .. n PROVE i \notin PassedOver(F)
  <2>1. CASE i = 1
    <3>1. i \in 1 .. Len(F) /\ ~ (i > 1)
      BY <1>4, <2>1
    <3> QED BY <1>5, <3>1, OverIs
  <2>2. CASE i # 1
    <3>1. i \in 1 .. Len(F) /\ 1 \in 1 .. Len(F) /\ F[1][1] = F[i][1]
      BY <1>1, <1>3, <1>4
    <3> QED BY <1>5, <2>2, <3>1, SharedIsReached
  <2> QED BY <2>1, <2>2
<1> QED BY <1>3, <1>4, <1>5, <1>6, <1>7 DEF n

SpellsOneOf(row, queues) ==
    \E j \in 1 .. Len(queues) : LowerBound(queues[j], "key") \in Range(Values(row, "queues"))

IsReachable(row) == Type(row) = "subscription" /\ row["state"] = << "reachable" >>

LEMMA OneState ==
    ASSUME NEW row, IsRow(row), Complete(row), Type(row) = "subscription"
    PROVE  row["state"] = << "reachable" >> <=> "reachable" \in Range(Values(row, "state"))
<1>1. "state" \in DOMAIN row /\ Len(row["state"]) = 1
  BY DEF Complete
<1>2. row["state"] \in Seq(Range(row["state"]))
  BY <1>1, MultimapHas DEF IsRow
<1> DEFINE state == row["state"]
<1>3. Values(row, "state") = state
  BY <1>1 DEF Values
<1> HIDE DEF state
<1>4. state \in Seq(Range(state)) /\ Len(state) = 1
  BY <1>1, <1>2 DEF state
<1>5. state = << state[1] >>
  BY <1>4
<1>6. Range(state) = {state[1]}
  BY <1>4, SeqDomain DEF Range
<1>7. state = << "reachable" >> <=> state[1] = "reachable"
  BY <1>5
<1> QED BY <1>3, <1>6, <1>7 DEF state

LEMMA ReachedPasses ==
    ASSUME NEW S, NEW queues \in Seq(S), NEW row, IsRow(row), Complete(row)
    PROVE  Passes(row, ReachableQuery(queues)) <=>
              IsReachable(row) /\ (queues = << >> \/ SpellsOneOf(row, queues))
<1> DEFINE q == ReachableQuery(queues)
           F == [i \in DOMAIN queues |-> << "queues", LowerBound(queues[i], "key") >>]
           one == << "type", "subscription" >>
           two == << "state", "reachable" >>
           ok(f) == f[2] \in Range(Values(row, f[1]))
<1>1. q.inclusive = F /\ q.exclusive = {one} \cup {two}
  BY ReachableIs
<1>2. PassesExclusive(row, {one} \cup {two}) <=> ok(one) /\ ok(two)
  BY DEF PassesExclusive
<1>3. ok(one) <=> Type(row) = "subscription"
  BY OneType
<1>4. Type(row) = "subscription" => (ok(two) <=> row["state"] = << "reachable" >>)
  BY OneState
<1> HIDE DEF ok, one, two, q
<1>5. PassesExclusive(row, q.exclusive) <=> IsReachable(row)
  BY <1>1, <1>2, <1>3, <1>4 DEF IsReachable
<1>6. PICK G : G = F
  OBVIOUS
<1>7. /\ IsFilters(G) /\ Grouped(G)
      /\ \A i \in 1 .. Len(G) : Group(G, i) = 1 .. Len(G) /\ i \notin PassedOver(G)
      /\ Len(G) = Len(queues)
      /\ \A i \in 1 .. Len(G) : G[i][1] = "queues" /\ G[i][2] = LowerBound(queues[i], "key")
  BY <1>6, QueuesGrouped
<1> HIDE DEF F
<1>8. PassesInclusive(row, q.inclusive) <=> \A k \in 1 .. Len(G) : HasOne(row, G, k)
  BY <1>1, <1>6, <1>7, InclusiveIs
<1>9. \A k \in 1 .. Len(G) : HasOne(row, G, k) <=> SpellsOneOf(row, queues)
  BY <1>7 DEF HasOne, SpellsOneOf
<1>10. (\A k \in 1 .. Len(G) : HasOne(row, G, k)) <=> queues = << >> \/ SpellsOneOf(row, queues)
  <2>1. Len(queues) \in Nat
    OBVIOUS
  <2>2. queues = << >> => Len(queues) = 0
    OBVIOUS
  <2>3. queues # << >> => 1 \in 1 .. Len(queues)
    BY <2>1
  <2> QED BY <1>7, <1>9, <2>1, <2>2, <2>3
<1> QED BY <1>5, <1>8, <1>10 DEF Passes, q

(* What the query of the reachable subscriptions finds. *)
LEMMA ReachedAre ==
    ASSUME RowsInv(rows), NEW S, NEW queues \in Seq(S),
           NEW reached, reached = Read(ReachableQuery(queues)).resultset
    PROVE  /\ reached \in Seq(Range(rows))
           /\ \A row : row \in Range(reached) <=>
                 /\ row \in Range(rows) /\ IsReachable(row)
                 /\ queues = << >> \/ SpellsOneOf(row, queues)
<1> DEFINE q == ReachableQuery(queues)
<1>1. /\ IsReadable(q) /\ ~ MissesKey(q) /\ q.keys = << >> /\ q.fields = {} /\ q.include = ""
      /\ q.index = 0 /\ q.limit = SizeMax
  BY ReachableIs
<1>p. \A row : IsRow(row) /\ Complete(row) =>
         (Passes(row, q) <=> IsReachable(row) /\ (queues = << >> \/ SpellsOneOf(row, queues)))
  BY ReachedPasses
<1>0. reached = Read(q).resultset
  OBVIOUS
<1> HIDE DEF q
<1>2. rows \in Seq(Range(rows)) /\ Len(rows) \in Nat /\ DOMAIN rows = 1 .. Len(rows)
  BY RowsAre
<1>3. Found(q) = rows
  BY <1>1 DEF Found
<1> DEFINE passing == Passing(q)
<1>4. passing = Kept(rows, {i \in 1 .. Len(rows) : Passes(rows[i], q)})
  BY <1>2, <1>3 DEF Passing
<1> HIDE DEF passing
<1>5. /\ passing \in Seq(Range(rows)) /\ Len(passing) <= Len(rows)
      /\ \A x : x \in Range(passing) <=> \E i \in 1 .. Len(rows) : Passes(rows[i], q) /\ x = rows[i]
  <2> DEFINE places == {i \in 1 .. Len(rows) : Passes(rows[i], q)}
  <2>1. \A i \in 1 .. Len(rows) : i \in places <=> Passes(rows[i], q)
    OBVIOUS
  <2>2. passing = Kept(rows, places)
    BY <1>4
  <2> HIDE DEF places
  <2>3. /\ passing \in Seq(Range(rows)) /\ Len(passing) <= Len(rows)
        /\ \A x : x \in Range(passing) <=> \E i \in 1 .. Len(rows) : i \in places /\ x = rows[i]
    BY <1>2, <2>2, KeptRange
  <2> QED BY <2>1, <2>3
<1>6. Len(passing) <= q.limit /\ q.limit \in Nat
  <2>1. Len(rows) <= MaxRows /\ MaxRows \in Nat /\ SizeMax \in Nat /\ MaxRows <= SizeMax
    BY DefaultsAssumption DEF RowsInv
  <2>2. Len(passing) \in Nat
    BY <1>5, SeqDomain
  <2>3. Len(passing) <= Len(rows) /\ Len(rows) \in Nat /\ q.limit = SizeMax
    BY <1>1, <1>2, <1>5
  <2> DEFINE n == Len(passing)
             m == Len(rows)
  <2>4. n \in Nat /\ m \in Nat /\ n <= m /\ m <= MaxRows
    BY <2>1, <2>2, <2>3
  <2> HIDE DEF n, m
  <2>5. n <= SizeMax
    BY <2>1, <2>4
  <2> QED BY <2>1, <2>3, <2>5 DEF n
<1>7. Paged(q) = Page(passing, q)
  BY DEF Paged, passing
<1>8. /\ Paged(q) \in Seq(Range(rows)) /\ Len(Paged(q)) = Len(passing)
      /\ \A i \in 1 .. Len(passing) : Paged(q)[i] = passing[i]
  <2>1. q.index = 0 /\ q.limit \in Nat /\ Len(passing) <= q.limit
    BY <1>1, <1>6
  <2>2. passing \in Seq(Range(rows))
    BY <1>5
  <2>3. /\ Page(passing, q) \in Seq(Range(rows)) /\ Len(Page(passing, q)) = Len(passing)
        /\ \A i \in 1 .. Len(passing) : Page(passing, q)[i] = passing[i]
    BY <2>1, <2>2, WholePage
  <2> QED BY <1>7, <2>3
<1>9. reached = Paged(q)
  <2>1. Read(q).resultset = Results(q)
    BY <1>1, ReadSucceeds DEF IsReadable
  <2>2. Shown(q) = Paged(q)
    BY <1>1, <1>8, NothingRelated
  <2>3. Results(q) = Fields(Shown(q), q.fields)
    BY DEF Results, Shown
  <2>4. Fields(Shown(q), {}) = Shown(q)
    BY DEF Fields
  <2> QED BY <1>0, <1>1, <2>1, <2>2, <2>3, <2>4
<1>10. Range(Paged(q)) = Range(passing)
  <2>1. DOMAIN Paged(q) = 1 .. Len(passing) /\ DOMAIN passing = 1 .. Len(passing)
    BY <1>5, <1>8, SeqDomain
  <2> QED BY <1>8, <2>1 DEF Range
<1>11. \A x : x \in Range(passing) <=> x \in Range(rows) /\ Passes(x, q)
  <2>1. \A x \in Range(rows) : \E i \in 1 .. Len(rows) : x = rows[i]
    BY <1>2, RangeFrom
  <2>2. \A i \in 1 .. Len(rows) : rows[i] \in Range(rows)
    BY <1>2, RangeHas
  <2> QED BY <1>5, <2>1, <2>2
<1>12. ASSUME NEW row
       PROVE  row \in Range(reached) <=>
                 /\ row \in Range(rows) /\ IsReachable(row)
                 /\ queues = << >> \/ SpellsOneOf(row, queues)
  <2>1. row \in Range(reached) <=> row \in Range(rows) /\ Passes(row, q)
    BY <1>9, <1>10, <1>11
  <2>2. row \in Range(rows) => IsRow(row) /\ Complete(row)
    BY RowHas
  <2> QED BY <1>p, <2>1, <2>2
<1> QED BY <1>8, <1>9, <1>12

(* Who is to have a message, of any rows. *)
NamedRows(list, queues) ==
    {row \in Range(list) :
        /\ Type(row) = "subscription"
        /\ row["state"] = << "reachable" >>
        /\ \E i \in DOMAIN queues : queues[i]["key"][1] \in Range(Values(row, "queues"))}

(* The fields that a publication gives leave what identifies a queue. *)
KeepsQueues(fields) == fields = {} \/ {"key", "type"} \subseteq fields

IsExactPublish(list, ans) ==
    ans.method = "PUBLISH" /\ ans.code \in {201, 202} /\ KeepsQueues(ans.selection.fields) =>
        /\ Range(ans.body) = NamedRows(list, Selected(list, "queue", ans.selection))
        /\ ans.code = IF NamedRows(list, Selected(list, "queue", ans.selection)) = {}
                      THEN 201 ELSE 202

LEMMA ExactPublishIs ==
    /\ PublishReachesNamed <=> IsExactPublish(rows, answer)
    /\ PublishReachesNamed' <=> IsExactPublish(rows', answer')
BY DEF PublishReachesNamed, IsExactPublish, NamedRows, KeepsQueues

(* Of those that are reached the handler keeps all. *)
SpeltRows(queues) == {row \in Range(rows) : IsReachable(row) /\ SpellsOneOf(row, queues)}

LEMMA ReceiversAre ==
    ASSUME RowsInv(rows), NEW S, NEW queues \in Seq(S)
    PROVE  /\ Range(Receivers(queues)) = SpeltRows(queues)
           /\ Receivers(queues) = << >> <=> SpeltRows(queues) = {}
<1> DEFINE reached == Reached(queues)
           receivers == Receivers(queues)
<1>1. /\ reached \in Seq(Range(rows))
      /\ \A row : row \in Range(reached) <=>
            /\ row \in Range(rows) /\ IsReachable(row)
            /\ queues = << >> \/ SpellsOneOf(row, queues)
  BY ReachedAre DEF Reached
<1>r. receivers = Kept(reached, {i \in DOMAIN reached : NamesQueue(reached[i], queues)})
  BY DEF Receivers
<1> HIDE DEF reached, receivers
<1>2. DOMAIN reached = 1 .. Len(reached)
  BY <1>1, SeqDomain
<1>3. /\ receivers \in Seq(Range(rows))
      /\ \A x : x \in Range(receivers) <=>
            \E i \in 1 .. Len(reached) : NamesQueue(reached[i], queues) /\ x = reached[i]
  <2> DEFINE places == {i \in DOMAIN reached : NamesQueue(reached[i], queues)}
  <2>1. \A i \in 1 .. Len(reached) : i \in places <=> NamesQueue(reached[i], queues)
    BY <1>2
  <2>2. receivers = Kept(reached, places)
    BY <1>r
  <2> HIDE DEF places
  <2> QED BY <1>1, <2>1, <2>2, KeptRange
<1>4. \A x : x \in Range(receivers) <=> x \in Range(reached) /\ NamesQueue(x, queues)
  <2>1. \A x \in Range(reached) : \E i \in 1 .. Len(reached) : x = reached[i]
    BY <1>1, RangeFrom
  <2>2. \A i \in 1 .. Len(reached) : reached[i] \in Range(reached)
    BY <1>1, RangeHas
  <2> QED BY <1>3, <2>1, <2>2
<1>5. ASSUME NEW row, SpellsOneOf(row, queues) PROVE NamesQueue(row, queues)
  <2>1. PICK i \in 1 .. Len(queues) : LowerBound(queues[i], "key") \in Range(Values(row, "queues"))
    BY <1>5 DEF SpellsOneOf
  <2>2. queues[i] \in Range(queues)
    BY RangeHas
  <2> QED BY <2>1, <2>2 DEF NamesQueue
<1>6. ASSUME NEW row, NamesQueue(row, queues) PROVE queues # << >>
  <2>1. PICK queue \in Range(queues) : TRUE
    BY <1>6 DEF NamesQueue
  <2> QED BY <2>1, EmptyRange
<1>7. \A x : x \in Range(receivers) <=> x \in SpeltRows(queues)
  BY <1>1, <1>4, <1>5, <1>6 DEF SpeltRows
<1>8. Range(receivers) = SpeltRows(queues)
  BY <1>7
<1> QED BY <1>3, <1>8, EmptyRange DEF receivers

(* The keys of the queues that a publication reads. *)
LEMMA QueuesAre ==
    ASSUME RowsInv(rows), NEW selection \in Selections, KeepsQueues(selection.fields),
           NEW q, q = QueryOf(selection, "queue"), ~ MissesKey(q),
           NEW queues, queues = QueuesOf(Results(q))
    PROVE  /\ \E T : queues \in Seq(T)
           /\ \A key : (\E j \in 1 .. Len(queues) : LowerBound(queues[j], "key") = key) <=>
                        \E i \in 1 .. Len(Paged(q)) : Paged(q)[i]["key"][1] = key
<1> DEFINE list == Paged(q)
           shown == Fields(list, q.fields)
<1>1. IsReadable(q) /\ q.include = "" /\ q.fields = selection.fields
  BY KeysAre, QueryPlain
<1>2. list \in Seq(Range(rows)) /\ \A i \in 1 .. Len(list) : Passes(list[i], q)
  BY <1>1, PagedAre DEF RowsInv
<1>3. \A i \in 1 .. Len(list) : IsRow(list[i])
  BY <1>2, RangeHas, RowHas
<1>4. Results(q) = shown
  <2>1. Shown(q) = Paged(q)
    BY <1>1, <1>2, NothingRelated
  <2> QED BY <2>1 DEF Results, Shown
<1>5. ASSUME NEW i \in 1 .. Len(list) PROVE list[i]["type"][1] = "queue"
  <2> DEFINE row == list[i]
             type == << "type", "queue" >>
             ok(f) == f[2] \in Range(Values(row, f[1]))
  <2>1. PassesExclusive(row, q.exclusive)
    BY <1>2 DEF Passes
  <2>2. type \in q.exclusive
    <3>1. q.exclusive = Exclusive(selection.filters) \cup {type}
      BY QueryHas
    <3> QED BY <3>1
  <2>3. \A f \in q.exclusive : ok(f)
    BY <2>1 DEF PassesExclusive
  <2>4. ok(type)
    BY <2>2, <2>3
  <2>5. Type(row) = "queue"
    BY <1>3, <2>4, OneType
  <2> QED BY <2>5 DEF Type
<1> DEFINE fields == selection.fields
<1>6. ShowsProperty(fields, "key") /\ ShowsProperty(fields, "type")
  BY DEF KeepsQueues, ShowsProperty
<1>s. shown = Fields(list, fields)
  BY <1>1
<1> HIDE DEF list, shown, fields
<1>7. Have(list, "key") /\ Have(list, "type")
  BY <1>3 DEF IsRow, Have
<1>8. /\ \E T : shown \in Seq(T)
      /\ Len(shown) = Len(list)
      /\ \A i \in 1 .. Len(list) : "key" \in DOMAIN shown[i] /\ shown[i]["key"] = list[i]["key"]
  <2>1. Same(list, shown, "key") /\ \E T : shown \in Seq(T)
    BY <1>2, <1>6, <1>7, <1>s, FieldsKeep
  <2> QED BY <2>1 DEF Same
<1>9. \A i \in 1 .. Len(list) : "type" \in DOMAIN shown[i] /\ shown[i]["type"] = list[i]["type"]
  <2>1. Same(list, shown, "type")
    BY <1>2, <1>6, <1>7, <1>s, FieldsKeep
  <2> QED BY <2>1 DEF Same
<1>10. PICK T : shown \in Seq(T)
  BY <1>8
<1>11. \A i \in 1 .. Len(list) :
          LowerBound(shown[i], "key") = list[i]["key"][1] /\ LowerBound(shown[i], "type") = "queue"
  BY <1>5, <1>8, <1>9, BoundIs
<1> DEFINE places == {i \in DOMAIN shown : LowerBound(shown[i], "type") = "queue"}
<1>12. queues = Kept(shown, places)
  BY <1>4 DEF QueuesOf
<1>13. \A i \in 1 .. Len(list) : i \in places
  BY <1>8, <1>10, <1>11, SeqDomain
<1> HIDE DEF places
<1>14. /\ queues \in Seq(T)
       /\ \A x : x \in Range(queues) <=> \E i \in 1 .. Len(shown) : i \in places /\ x = shown[i]
  BY <1>10, <1>12, KeptRange
<1>15. \A x : x \in Range(queues) <=> \E i \in 1 .. Len(list) : x = shown[i]
  BY <1>8, <1>13, <1>14
<1>16. ASSUME NEW key
       PROVE  (\E j \in 1 .. Len(queues) : LowerBound(queues[j], "key") = key) <=>
                 \E i \in 1 .. Len(list) : list[i]["key"][1] = key
  <2>1. ASSUME NEW j \in 1 .. Len(queues), LowerBound(queues[j], "key") = key
        PROVE  \E i \in 1 .. Len(list) : list[i]["key"][1] = key
    <3>1. queues[j] \in Range(queues)
      BY <1>14, RangeHas
    <3>2. PICK i \in 1 .. Len(list) : queues[j] = shown[i]
      BY <1>15, <3>1
    <3> QED BY <1>11, <2>1, <3>2
  <2>2. ASSUME NEW i \in 1 .. Len(list), list[i]["key"][1] = key
        PROVE  \E j \in 1 .. Len(queues) : LowerBound(queues[j], "key") = key
    <3>1. shown[i] \in Range(queues)
      BY <1>15
    <3>2. PICK j \in 1 .. Len(queues) : shown[i] = queues[j]
      BY <1>14, <3>1, RangeFrom
    <3> QED BY <1>11, <2>2, <3>2
  <2> QED BY <2>1, <2>2
<1> QED BY <1>14, <1>16 DEF list

LEMMA ExactPublication ==
    ASSUME RowsInv(rows), NEW selection \in Selections, Publish(selection)
    PROVE  IsExactPublish(rows', answer')
<1> DEFINE q == QueryOf(selection, "queue")
<1>1. CASE answer'.code \notin {201, 202} \/ ~ KeepsQueues(selection.fields)
  <2>1. answer'.selection = selection
    BY PublishIs
  <2> QED BY <1>1, <2>1 DEF IsExactPublish
<1>2. CASE answer'.code \in {201, 202} /\ KeepsQueues(selection.fields)
  <2>1. PICK queues :
           /\ rows' = rows /\ answer'.selection = selection
           /\ Read(q).error = 0
           /\ queues = QueuesOf(Read(q).resultset)
           /\ answer'.body = Receivers(queues)
           /\ answer'.code = IF Receivers(queues) = << >> THEN 201 ELSE 202
    BY <1>2, PublishIs DEF Undefined
  <2>2. IsReadable(q) /\ IsQuery(q) /\ q.error = 0
    BY KeysAre, QueriesAre
  <2>3. ~ MissesKey(q)
    BY <2>1, <2>2, ReadFails
  <2>4. Selected(rows, "queue", selection) = Paged(q)
    BY <2>3, SelectedIs
  <2>5. queues = QueuesOf(Results(q))
    BY <2>1, <2>2, <2>3, ReadSucceeds
  <2>q. q = QueryOf(selection, "queue") /\ KeepsQueues(selection.fields)
    BY <1>2
  <2> HIDE DEF q
  <2>6. /\ \E T : queues \in Seq(T)
        /\ \A key : (\E j \in 1 .. Len(queues) : LowerBound(queues[j], "key") = key) <=>
                     \E i \in 1 .. Len(Paged(q)) : Paged(q)[i]["key"][1] = key
    BY <2>3, <2>5, <2>q, QueuesAre
  <2> DEFINE list == Paged(q)
  <2>7. list \in Seq(Range(rows))
    BY <2>2, <2>3, PagedAre DEF RowsInv
  <2> HIDE DEF list
  <2>8. DOMAIN list = 1 .. Len(list)
    BY <2>7, SeqDomain
  <2>9. NamedRows(rows, list) = SpeltRows(queues)
    <3>1. ASSUME NEW row
          PROVE  SpellsOneOf(row, queues) <=>
                    \E i \in DOMAIN list : list[i]["key"][1] \in Range(Values(row, "queues"))
      BY <2>6, <2>8 DEF SpellsOneOf, list
    <3> QED BY <3>1 DEF NamedRows, SpeltRows, IsReachable
  <2>10. PICK T : queues \in Seq(T)
    BY <2>6
  <2>11. /\ Range(Receivers(queues)) = SpeltRows(queues)
         /\ Receivers(queues) = << >> <=> SpeltRows(queues) = {}
    BY <2>10, ReceiversAre
  <2> QED BY <2>1, <2>4, <2>9, <2>11 DEF IsExactPublish, list
<1> QED BY <1>1, <1>2

(* A message that is accepted is for the reachable subscriptions that spell  *)
(* the key of one of its queues as it is stored, whichever rows there are    *)
(* and whichever fields it gives that keep what identifies a queue           *)
(* (exchange_impl.cpp:898, 943, 990).                                        *)
THEOREM MessagesReachTheNamed == Spec => []PublishReachesNamed
<1>1. Init => PublishReachesNamed
  <2>1. NoAnswer.method # "PUBLISH"
    BY DEF NoAnswer
  <2> QED BY <2>1 DEF Init, PublishReachesNamed
<1>2. Inv /\ PublishReachesNamed /\ [Next]_vars => PublishReachesNamed'
  <2> SUFFICES ASSUME Inv, PublishReachesNamed, [Next]_vars PROVE PublishReachesNamed'
    OBVIOUS
  <2>0. RowsInv(rows)
    BY DEF Inv
  <2>1. CASE UNCHANGED vars
    <3>1. rows' = rows /\ answer' = answer
      BY <2>1 DEF vars
    <3>2. IsExactPublish(rows, answer)
      BY ExactPublishIs
    <3> QED BY <3>1, <3>2, ExactPublishIs
  <2>2. answer'.method # "PUBLISH" => PublishReachesNamed'
    BY ExactPublishIs DEF IsExactPublish
  <2>3. CASE Answered
    <3>1. answer'.method = ""
      BY <2>3, AnsweredIs
    <3> QED BY <2>2, <3>1
  <2>4. CASE Request
    <3>1. PICK selection \in Selections :
              \/ \E type \in Types : Get(type, selection)
              \/ \E type \in Types : \E body \in Bodies : Post(type, selection, body.values)
              \/ \E type \in Types : \E changes \in Changes : Put(type, selection, changes)
              \/ \E type \in Types : Delete(type, selection)
              \/ Publish(selection)
      BY <2>4, RequestIs
    <3>2. ASSUME Publish(selection) PROVE PublishReachesNamed'
      <4>1. IsExactPublish(rows', answer')
        BY <2>0, <3>2, ExactPublication
      <4> QED BY <4>1, ExactPublishIs
    <3>3. ASSUME NEW type \in Types, NEW changes \in Changes, Put(type, selection, changes)
          PROVE  answer'.method = "PUT"
      BY <3>3, PutIs
    <3> QED BY <2>2, <3>1, <3>2, <3>3, OtherMethods
  <2> QED BY <2>1, <2>3, <2>4 DEF Next
<1> QED BY <1>1, <1>2, InvariantHolds, PTL DEF Spec

=============================================================================
