----------------------------- MODULE Sensors_proofs -----------------------------
(***************************************************************************)
(* How the files of one FRU are combined, for any number of files and any  *)
(* temperatures: each file that is read keeps the value of the FRU at the  *)
(* worst of the readings so far, so that their order does not matter.      *)
(***************************************************************************)
EXTENDS Sensors, WellFoundedInduction, TLAPS

\* The first file of a FRU gives it the only reading there is.
LEMMA FirstIsWorst ==
    ASSUME NEW temp \in Readings
    PROVE  IsWorst(temp, {temp})
BY DEF IsWorst, Readings, NaN

\* A further file, whatever it reads, and whatever the value stands for
\* (readTempSensors, "Multiple sensors found for this FRU type").
THEOREM FuseKeepsWorst ==
    ASSUME NEW seen \in SUBSET Readings, NEW existing \in Readings,
           NEW temp \in Readings, IsWorst(existing, seen)
    PROVE  IsWorst(Fuse(existing, temp), seen \cup {temp})
<1> USE DEF Readings, NaN
<1>1. CASE {existing, temp} = {NaN, 0}
  <2>1. Fuse(existing, temp) = NaN
    BY <1>1 DEF Fuse
  <2>2. NaN \in seen \cup {temp} /\ \A t \in seen \cup {temp} : t <= 0
    BY <1>1 DEF IsWorst
  <2>3. QED
    BY <2>1, <2>2 DEF IsWorst
<1>2. CASE {existing, temp} # {NaN, 0} /\ (existing = NaN \/ temp > existing)
  <2>1. Fuse(existing, temp) = temp
    BY <1>2 DEF Fuse
  <2>2. temp # 0
    BY <1>2
  <2>3. \A t \in seen : t <= existing \/ t = NaN \/ t <= 0
    BY DEF IsWorst
  <2>4. CASE temp > 0
    BY <1>2, <2>1, <2>3, <2>4 DEF IsWorst
  <2>5. CASE temp = NaN
    BY <1>2, <2>1, <2>5 DEF IsWorst
  <2>6. QED
    BY <2>2, <2>4, <2>5
<1>3. CASE {existing, temp} # {NaN, 0} /\ existing # NaN /\ ~ (temp > existing)
  <2>1. Fuse(existing, temp) = existing
    BY <1>3 DEF Fuse
  <2>2. QED
    BY <1>3, <2>1 DEF IsWorst
<1>4. QED
  BY <1>1, <1>2, <1>3

(***************************************************************************)
(* Induction over the files of a directory.  The library's induction       *)
(* theorems take a predicate; these take a set of numbers.                 *)
(***************************************************************************)

LEMMA LeastNat ==
    ASSUME NEW T \in SUBSET Nat, T # {}
    PROVE  \E m \in T : \A n \in T : m <= n
<1> DEFINE Less == OpToRel(<, Nat)
<1>1. IsWellFoundedOn(Less, Nat)
  BY NatLessThanWellFounded
<1>2. \A x, y \in Nat : x < y => <<x, y>> \in Less
  BY DEF OpToRel
<1> HIDE DEF Less
<1>3. PICK m \in T : \A n \in T : ~ (<<n, m>> \in Less)
  BY <1>1, WFMin
<1>4. \A n \in T : ~ (n < m)
  BY <1>2, <1>3
<1>5. QED
  BY <1>4

LEMMA SetInduction ==
    ASSUME NEW T \in SUBSET Nat, 0 \in T, \A n \in T : n + 1 \in T
    PROVE  T = Nat
<1> SUFFICES ASSUME Nat \ T # {}
             PROVE  FALSE
  OBVIOUS
<1>1. PICK m \in Nat \ T : \A n \in Nat \ T : m <= n
  BY LeastNat
<1>2. m # 0 /\ m - 1 \in Nat
  BY <1>1
<1>3. m - 1 \in T
  BY <1>1, <1>2
<1>4. QED
  BY <1>1, <1>3

(***************************************************************************)
(* All files of a FRU                                                      *)
(***************************************************************************)

\* The value after each of the first n files of directory d
Values(d, n, value) ==
    value = [i \in 1 .. n |-> IF i = 1 THEN d[1] ELSE Fuse(value[i - 1], d[i])]

\* There are such values: the recursion of Fused is well defined.
LEMMA ValuesExist ==
    ASSUME NEW d
    PROVE  \A n \in Nat : \E value : Values(d, n, value)
<1> DEFINE T == {n \in Nat : \E value : Values(d, n, value)}
<1>1. 0 \in T
  <2> DEFINE none == [i \in 1 .. 0 |-> d[1]]
  <2>1. Values(d, 0, none)
    BY DEF Values
  <2>2. QED
    BY <2>1
<1>2. ASSUME NEW n \in T
      PROVE  n + 1 \in T
  <2>1. PICK value : Values(d, n, value)
    BY <1>2
  <2> DEFINE last == IF n + 1 = 1 THEN d[1] ELSE Fuse(value[n], d[n + 1])
             more == [i \in 1 .. n + 1 |-> IF i = n + 1 THEN last ELSE value[i]]
  <2>2. n \in Nat
    BY <1>2
  <2>3. ASSUME NEW i \in 1 .. n + 1
        PROVE  more[i] = IF i = 1 THEN d[1] ELSE Fuse(more[i - 1], d[i])
    <3>1. CASE i = n + 1
      <4>1. more[i] = last
        BY <3>1
      <4>2. n + 1 # 1 => more[i - 1] = value[n]
        BY <2>2, <3>1
      <4>3. QED
        BY <2>2, <3>1, <4>1, <4>2
    <3>2. CASE i # n + 1
      <4>1. i \in 1 .. n /\ more[i] = value[i]
        BY <2>2, <3>2
      <4>2. value[i] = IF i = 1 THEN d[1] ELSE Fuse(value[i - 1], d[i])
        BY <2>1, <4>1 DEF Values
      <4>3. i # 1 => more[i - 1] = value[i - 1]
        BY <2>2, <4>1
      <4>4. QED
        BY <4>1, <4>2, <4>3
    <3>3. QED
      BY <3>1, <3>2
  <2> HIDE DEF last
  <2>4. more = [i \in 1 .. n + 1 |->
                  IF i = 1 THEN d[1] ELSE Fuse(more[i - 1], d[i])]
    <3> HIDE DEF more
    <3>1. more = [i \in 1 .. n + 1 |-> more[i]]
      BY DEF more
    <3>2. QED
      BY <2>3, <3>1
  <2>5. Values(d, n + 1, more)
    <3> HIDE DEF more
    <3>1. QED
      BY <2>4 DEF Values
  <2>6. QED
    BY <2>2, <2>5
<1> HIDE DEF T
<1>3. T = Nat
  <2>1. T \in SUBSET Nat
    BY DEF T
  <2>2. QED
    BY <1>1, <1>2, <2>1, SetInduction
<1>4. QED
  BY <1>3 DEF T

\* Fused is the last of them.
LEMMA FusedIsValue ==
    ASSUME NEW d \in Seq(Readings)
    PROVE  \E value : Values(d, Len(d), value) /\ Fused(d) = value[Len(d)]
<1>1. DOMAIN d = 1 .. Len(d) /\ Len(d) \in Nat
  OBVIOUS
<1>2. PICK some : Values(d, Len(d), some)
  BY <1>1, ValuesExist
<1>3. \E value : value = [i \in DOMAIN d |->
                             IF i = 1 THEN d[1] ELSE Fuse(value[i - 1], d[i])]
  BY <1>1, <1>2 DEF Values
<1> DEFINE chosen == CHOOSE value : value = [i \in DOMAIN d |->
                         IF i = 1 THEN d[1] ELSE Fuse(value[i - 1], d[i])]
<1>4. chosen = [i \in DOMAIN d |->
                   IF i = 1 THEN d[1] ELSE Fuse(chosen[i - 1], d[i])]
  BY <1>3
<1>5. Fused(d) = chosen[Len(d)]
  BY DEF Fused
<1> HIDE DEF chosen
<1>6. QED
  BY <1>1, <1>4, <1>5 DEF Values

\* Every reading combined with a value is a reading again.
LEMMA FuseType ==
    ASSUME NEW existing \in Readings, NEW temp \in Readings
    PROVE  Fuse(existing, temp) \in Readings
BY DEF Fuse, Readings

\* Whatever number of files a FRU has, and in whatever order they are found, its
\* temperature is the worst of what they read (readTempSensors).
THEOREM FusedIsWorst ==
    ASSUME NEW d \in Seq(Readings), d # <<>>
    PROVE  Fused(d) \in Readings /\ IsWorst(Fused(d), ReadingsOf(d))
<1>1. /\ Len(d) \in Nat /\ Len(d) > 0 /\ DOMAIN d = 1 .. Len(d)
      /\ \A i \in 1 .. Len(d) : d[i] \in Readings
  OBVIOUS
<1>2. PICK value : Values(d, Len(d), value) /\ Fused(d) = value[Len(d)]
  BY FusedIsValue
<1> DEFINE First(n) == {d[i] : i \in 1 .. n}
           T == {n \in Nat : n \in 1 .. Len(d) =>
                    value[n] \in Readings /\ IsWorst(value[n], First(n))}
<1>3. 0 \in T
  OBVIOUS
<1>4. ASSUME NEW n \in T
      PROVE  n + 1 \in T
  <2> SUFFICES ASSUME n + 1 \in 1 .. Len(d)
               PROVE  /\ value[n + 1] \in Readings
                      /\ IsWorst(value[n + 1], First(n + 1))
    OBVIOUS
  <2>1. n \in Nat /\ d[n + 1] \in Readings
    BY <1>1, <1>4
  <2>2. value[n + 1] = IF n + 1 = 1 THEN d[1] ELSE Fuse(value[n + 1 - 1], d[n + 1])
    BY <1>2 DEF Values
  <2>3. CASE n = 0
    <3>1. value[n + 1] = d[1] /\ d[1] \in Readings
      BY <2>1, <2>2, <2>3
    <3>2. First(n + 1) = {d[1]}
      BY <2>3
    <3> HIDE DEF First
    <3>3. QED
      BY <3>1, <3>2, FirstIsWorst
  <2>4. CASE n # 0
    <3>1. n \in 1 .. Len(d)
      BY <1>1, <2>1, <2>4
    <3>2. value[n] \in Readings /\ IsWorst(value[n], First(n))
      BY <1>4, <3>1
    <3>3. value[n + 1] = Fuse(value[n], d[n + 1])
      BY <2>1, <2>2, <2>4
    <3>4. First(n + 1) = First(n) \cup {d[n + 1]}
      BY <2>1
    <3>5. First(n) \in SUBSET Readings
      BY <1>1, <3>1
    <3> HIDE DEF First
    <3>6. QED
      BY <2>1, <3>2, <3>3, <3>4, <3>5, FuseType, FuseKeepsWorst
  <2>5. QED
    BY <2>3, <2>4
<1>5. T = Nat
  <2>1. T \in SUBSET Nat
    OBVIOUS
  <2> HIDE DEF T
  <2>2. QED
    BY <1>3, <1>4, <2>1, SetInduction
<1>6. value[Len(d)] \in Readings /\ IsWorst(value[Len(d)], First(Len(d)))
  <2>1. Len(d) \in T
    <3> HIDE DEF T
    <3>1. QED
      BY <1>1, <1>5
  <2>2. Len(d) \in 1 .. Len(d)
    BY <1>1
  <2> HIDE DEF First
  <2>3. QED
    BY <2>1, <2>2
<1>7. First(Len(d)) = ReadingsOf(d)
  BY <1>1 DEF ReadingsOf
<1>8. QED
  BY <1>2, <1>6, <1>7
===============================================================================
