----------------------------- MODULE ListProofs -----------------------------
(***************************************************************************)
(* What holds of the operators of Lists, and induction over the natural    *)
(* numbers in the form in which the proofs use it: a set that has no least *)
(* element is empty.                                                       *)
(***************************************************************************)
EXTENDS Lists, Integers, WellFoundedInduction, TLAPS

\* A set of numbers of which none is the first is empty.
LEMMA NoLeast ==
  ASSUME NEW Bad \in SUBSET Nat, \A n \in Nat : (\A m \in 0 .. n - 1 : m \notin Bad) => n \notin Bad
  PROVE  Bad = {}
<1> SUFFICES ASSUME Bad # {} PROVE FALSE
  OBVIOUS
<1>1. PICK x \in Bad : \A y \in Bad : ~(<<y, x>> \in OpToRel(<, Nat))
  BY WFMin, NatLessThanWellFounded
<1>2. x \in Nat /\ x \in Bad
  BY <1>1
<1>3. \A y \in Bad : ~(y < x)
  BY <1>1 DEF OpToRel
<1>4. \A m \in 0 .. x - 1 : m \in Nat /\ m < x
  BY <1>2
<1>5. QED BY <1>2, <1>3, <1>4

\* A set of numbers without 0 that no step leads into is empty.
LEMMA NoFirst ==
  ASSUME NEW Bad \in SUBSET Nat, 0 \notin Bad, \A n \in Nat : n \notin Bad => n + 1 \notin Bad
  PROVE  Bad = {}
<1>1. ASSUME NEW n \in Nat, \A m \in 0 .. n - 1 : m \notin Bad PROVE n \notin Bad
  <2>1. CASE n = 0
    BY <2>1
  <2>2. CASE n # 0
    <3>1. n - 1 \in Nat /\ n - 1 \in 0 .. n - 1 /\ n = (n - 1) + 1
      BY <2>2
    <3>2. QED BY <1>1, <3>1
  <2>3. QED BY <2>1, <2>2
<1>2. QED BY <1>1, NoLeast

\* The function by which a list is filtered.
Filters(some, list, S, n) ==
  some = [k \in 0 .. n |-> IF k = 0 THEN <<>>
                           ELSE IF list[k] \in S THEN Append(some[k - 1], list[k]) ELSE some[k - 1]]

\* There is one.
LEMMA FilterExists ==
  ASSUME NEW list, NEW S, NEW n \in Nat PROVE \E some : Filters(some, list, S, n)
<1> DEFINE Bad == {m \in Nat : ~ \E some : Filters(some, list, S, m)}
<1>1. 0 \notin Bad
  <2> DEFINE some == [k \in 0 .. 0 |-> <<>>]
  <2>1. Filters(some, list, S, 0)
    BY DEF Filters
  <2>2. QED BY <2>1
<1>2. ASSUME NEW m \in Nat, m \notin Bad PROVE m + 1 \notin Bad
  <2>1. PICK some : Filters(some, list, S, m)
    BY <1>2
  <2> DEFINE next == IF list[m + 1] \in S THEN Append(some[m], list[m + 1]) ELSE some[m]
             more == [k \in 0 .. m + 1 |-> IF k <= m THEN some[k] ELSE next]
  <2>2. \A k \in 0 .. m + 1 :
          more[k] = IF k = 0 THEN <<>>
                    ELSE IF list[k] \in S THEN Append(more[k - 1], list[k]) ELSE more[k - 1]
    <3> SUFFICES ASSUME NEW k \in 0 .. m + 1
                 PROVE  more[k] = IF k = 0 THEN <<>>
                                  ELSE IF list[k] \in S THEN Append(more[k - 1], list[k])
                                       ELSE more[k - 1]
      OBVIOUS
    <3>1. CASE k = 0
      BY <2>1, <3>1 DEF Filters
    <3>2. CASE k # 0 /\ k <= m
      <4>1. k \in 0 .. m /\ k - 1 \in 0 .. m /\ k - 1 \in 0 .. m + 1
        BY <3>2
      <4>2. more[k] = some[k] /\ more[k - 1] = some[k - 1]
        BY <4>1
      <4>3. some[k] = IF list[k] \in S THEN Append(some[k - 1], list[k]) ELSE some[k - 1]
        BY <2>1, <3>2, <4>1 DEF Filters
      <4>4. QED BY <3>2, <4>2, <4>3
    <3>3. CASE k = m + 1
      <4>1. k # 0 /\ k - 1 = m /\ more[k - 1] = some[m] /\ more[k] = next
        BY <3>3
      <4>2. QED BY <3>3, <4>1
    <3>4. QED BY <3>1, <3>2, <3>3
  <2>3. more = [k \in 0 .. m + 1 |-> more[k]]
    OBVIOUS
  <2> HIDE DEF more
  <2>4. Filters(more, list, S, m + 1)
    BY <2>2, <2>3 DEF Filters
  <2>5. QED BY <2>4
<1>3. Bad = {}
  <2> HIDE DEF Bad
  <2>1. Bad \in SUBSET Nat
    BY DEF Bad
  <2>2. QED BY <1>1, <1>2, <2>1, NoFirst
<1>4. QED BY <1>3

\* Where the elements of a filtered list come from: places chooses the elements of S,
\* each once and in their order.
Places(places, some, list, S, n) ==
  /\ places \in [1 .. Len(some) -> 1 .. n]
  /\ \A j \in 1 .. Len(some) : some[j] = list[places[j]] /\ list[places[j]] \in S
  /\ \A j, k \in 1 .. Len(some) : j < k => places[j] < places[k]
  /\ \A i \in 1 .. n : list[i] \in S => \E j \in 1 .. Len(some) : places[j] = i

\* A filtered list has the elements of S, each once and in their order.
LEMMA FilterIs ==
  ASSUME NEW T, NEW list \in Seq(T), NEW S
  PROVE  /\ Filter(list, S) \in Seq(T)
         /\ \E places : Places(places, Filter(list, S), list, S, Len(list))
<1>1. PICK some : /\ Filters(some, list, S, Len(list))
                  /\ Filter(list, S) = some[Len(list)]
  <2> DEFINE some == CHOOSE f : Filters(f, list, S, Len(list))
  <2>1. Filters(some, list, S, Len(list))
    BY FilterExists
  <2>2. Filter(list, S) = some[Len(list)]
    BY DEF Filter, Filters
  <2>3. QED BY <2>1, <2>2
<1> DEFINE Good(n) == some[n] \in Seq(T) /\ \E places : Places(places, some[n], list, S, n)
           Bad == {n \in Nat : n <= Len(list) /\ ~Good(n)}
<1>2. 0 \notin Bad
  <2>1. some[0] = <<>>
    BY <1>1 DEF Filters
  <2>2. 1 .. Len(some[0]) = {} /\ 1 .. 0 = {} /\ some[0] \in Seq(T)
    BY <2>1
  <2> DEFINE places == [j \in {} |-> 0]
  <2>3. places \in [{} -> {}]
    OBVIOUS
  <2> HIDE DEF places
  <2>4. Places(places, some[0], list, S, 0)
    BY <2>2, <2>3 DEF Places
  <2>5. QED BY <2>2, <2>4
<1>3. ASSUME NEW n \in Nat, n \notin Bad PROVE n + 1 \notin Bad
  <2> SUFFICES ASSUME n + 1 <= Len(list) PROVE Good(n + 1)
    OBVIOUS
  <2>1. PICK q \in Seq(T) : q = some[n]
    BY <1>3
  <2>2. PICK places : Places(places, q, list, S, n)
    BY <1>3, <2>1
  <2>3. list[n + 1] \in T
    OBVIOUS
  <2>4. some[n + 1] = IF list[n + 1] \in S THEN Append(q, list[n + 1]) ELSE q
    <3>1. n + 1 \in 0 .. Len(list) /\ n + 1 # 0 /\ (n + 1) - 1 = n
      OBVIOUS
    <3>2. some[n + 1] = IF list[n + 1] \in S THEN Append(some[(n + 1) - 1], list[n + 1])
                        ELSE some[(n + 1) - 1]
      BY <1>1, <3>1 DEF Filters
    <3>3. QED BY <2>1, <3>1, <3>2
  <2>5. CASE list[n + 1] \in S
    <3> DEFINE new == Append(q, list[n + 1])
               more == [j \in 1 .. Len(q) + 1 |-> IF j <= Len(q) THEN places[j] ELSE n + 1]
    <3>1. /\ new \in Seq(T) /\ Len(new) = Len(q) + 1 /\ Len(q) \in Nat
          /\ \A j \in 1 .. Len(q) : new[j] = q[j]
          /\ new[Len(q) + 1] = list[n + 1]
      BY <2>3
    <3>2. Len(q) \in Nat /\ places \in [1 .. Len(q) -> 1 .. n]
      BY <2>2 DEF Places
    <3>3. /\ \A j \in 1 .. Len(q) : more[j] = places[j] /\ places[j] \in 1 .. n
          /\ more[Len(q) + 1] = n + 1
      <4>1. PICK m \in Nat : m = Len(q)
        BY <3>2
      <4>2. \A j \in 1 .. m : j \in 1 .. m + 1 /\ j <= m
        OBVIOUS
      <4>3. m + 1 \in 1 .. m + 1 /\ ~(m + 1 <= m)
        OBVIOUS
      <4>4. \A j \in 1 .. m : more[j] = places[j] /\ places[j] \in 1 .. n
        BY <3>2, <4>1, <4>2
      <4>5. more[m + 1] = n + 1
        BY <4>1, <4>3
      <4>6. QED BY <4>1, <4>4, <4>5
    <3>4. more \in [1 .. Len(q) + 1 -> 1 .. n + 1]
      BY <3>2
    <3> HIDE DEF new, more
    <3>5. \A j \in 1 .. Len(new) : new[j] = list[more[j]] /\ list[more[j]] \in S
      BY <2>2, <2>5, <3>1, <3>3 DEF Places
    <3>6. ASSUME NEW j \in 1 .. Len(new), NEW k \in 1 .. Len(new), j < k
          PROVE  more[j] < more[k]
      <4>1. j \in 1 .. Len(q)
        BY <3>1, <3>6
      <4>2. CASE k \in 1 .. Len(q)
        BY <2>2, <3>3, <3>6, <4>1, <4>2 DEF Places
      <4>3. CASE k = Len(q) + 1
        BY <3>3, <4>1, <4>3
      <4>4. QED BY <3>1, <4>2, <4>3
    <3>7. \A i \in 1 .. n + 1 : list[i] \in S => \E j \in 1 .. Len(new) : more[j] = i
      <4> SUFFICES ASSUME NEW i \in 1 .. n + 1, list[i] \in S
                   PROVE  \E j \in 1 .. Len(new) : more[j] = i
        OBVIOUS
      <4>1. CASE i = n + 1
        BY <3>1, <3>3, <4>1
      <4>2. CASE i \in 1 .. n
        <5>1. PICK j \in 1 .. Len(q) : places[j] = i
          BY <2>2, <4>2 DEF Places
        <5>2. QED BY <3>1, <3>3, <5>1
      <4>3. QED BY <4>1, <4>2
    <3>8. Places(more, new, list, S, n + 1)
      BY <3>1, <3>4, <3>5, <3>6, <3>7 DEF Places
    <3>9. some[n + 1] = new
      BY <2>4, <2>5 DEF new
    <3>10. QED BY <3>1, <3>8, <3>9
  <2>6. CASE list[n + 1] \notin S
    <3>1. some[n + 1] = q /\ Len(q) \in Nat
      BY <2>4, <2>6
    <3>2. places \in [1 .. Len(q) -> 1 .. n + 1]
      BY <2>2, <3>1 DEF Places
    <3>3. \A i \in 1 .. n + 1 : list[i] \in S => i \in 1 .. n
      BY <2>6
    <3>4. Places(places, q, list, S, n + 1)
      BY <2>2, <3>2, <3>3 DEF Places
    <3>5. QED BY <3>1, <3>4
  <2>7. QED BY <2>5, <2>6
<1>4. Bad = {}
  <2> HIDE DEF Bad
  <2>1. Bad \in SUBSET Nat
    BY DEF Bad
  <2>2. QED BY <1>2, <1>3, <2>1, NoFirst
<1>5. Len(list) \in Nat /\ Good(Len(list))
  BY <1>4
<1>6. QED BY <1>1, <1>5

\* A filtered list is a list of the same elements.
LEMMA FilterType ==
  ASSUME NEW T, NEW list \in Seq(T), NEW S PROVE Filter(list, S) \in Seq(T)
BY FilterIs

\* Every element of S stays in the filtered list.
LEMMA FilterKeeps ==
  ASSUME NEW T, NEW list \in Seq(T), NEW S, NEW i \in 1 .. Len(list), list[i] \in S
  PROVE  \E j \in 1 .. Len(Filter(list, S)) : Filter(list, S)[j] = list[i]
<1>1. PICK some \in Seq(T) : some = Filter(list, S)
  BY FilterIs
<1>2. PICK places : Places(places, some, list, S, Len(list))
  BY <1>1, FilterIs
<1>3. Len(list) \in Nat
  OBVIOUS
<1>4. PICK j \in 1 .. Len(some) : places[j] = i
  BY <1>2, <1>3 DEF Places
<1>5. some[j] = list[i]
  BY <1>2, <1>4 DEF Places
<1>6. QED BY <1>1, <1>4, <1>5

\* A filtered list has nothing but elements of S that the list had.
LEMMA FilterFrom ==
  ASSUME NEW T, NEW list \in Seq(T), NEW S, NEW j \in 1 .. Len(Filter(list, S))
  PROVE  Filter(list, S)[j] \in S /\ \E i \in 1 .. Len(list) : Filter(list, S)[j] = list[i]
<1>1. PICK some \in Seq(T) : some = Filter(list, S)
  BY FilterIs
<1>2. PICK places : Places(places, some, list, S, Len(list))
  BY <1>1, FilterIs
<1>3. j \in 1 .. Len(some) /\ Len(list) \in Nat
  BY <1>1
<1>4. places[j] \in 1 .. Len(list)
  BY <1>2, <1>3 DEF Places
<1>5. some[j] = list[places[j]] /\ list[places[j]] \in S
  BY <1>2, <1>3 DEF Places
<1>6. QED BY <1>1, <1>4, <1>5
=============================================================================
