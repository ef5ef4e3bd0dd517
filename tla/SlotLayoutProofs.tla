-------------------------- MODULE SlotLayoutProofs --------------------------
(***************************************************************************)
(* What the arithmetic of SlotLayout gives for every number, and that the  *)
(* layout made from arguments main() accepts is the right one.             *)
(***************************************************************************)
EXTENDS MCSlotLayout, TLAPS, WellFoundedInduction

\* A nonempty set of natural numbers has a least member.
LEMMA LeastMember ==
  ASSUME NEW S \in SUBSET Nat, S # {}
  PROVE  \E m \in S : \A k \in S : m <= k
<1>1. \E m \in S : \A k \in S : ~ (<<k, m>> \in OpToRel(<, Nat))
  BY NatLessThanWellFounded, WFMin
<1>2. PICK m \in S : \A k \in S : ~ (<<k, m>> \in OpToRel(<, Nat))
  BY <1>1
<1>3. ASSUME NEW k \in S PROVE m <= k
  <2>1. ~(k < m) BY <1>2 DEF OpToRel
  <2> QED BY <2>1
<1> QED BY <1>3

\* Quotient and remainder.
LEMMA DivMod ==
  ASSUME NEW x \in Nat, NEW a \in Nat \ {0}
  PROVE  x \div a \in Nat /\ x % a \in 0 .. a - 1 /\ x = a * (x \div a) + (x % a)
OBVIOUS

LEMMA Product ==
  ASSUME NEW a \in Nat, NEW b \in Nat
  PROVE  a * b \in Nat /\ a * b = b * a
OBVIOUS

\* The larger factor makes the larger product, by a whole z at least.
LEMMA ProductGrows ==
  ASSUME NEW i \in Nat, NEW j \in Nat, NEW z \in Nat, i < j
  PROVE  i * z \in Nat /\ j * z \in Nat /\ i * z + z <= j * z
<1> DEFINE k == j - i - 1
<1>1. k \in Nat /\ j = i + 1 + k
  OBVIOUS
<1>2. k * z \in Nat /\ i * z \in Nat
  BY <1>1
<1>3. j * z = i * z + z + k * z
  BY <1>1
<1> QED BY <1>2, <1>3

\* A multiple divided gives the other factor, and no remainder.
LEMMA MultipleDivides ==
  ASSUME NEW a \in Nat \ {0}, NEW b \in Nat
  PROVE  a * b \in Nat /\ (a * b) \div a = b /\ (a * b) % a = 0
<1> DEFINE x == a * b
           q == x \div a
           r == x % a
<1>1. x \in Nat /\ x = b * a
  BY Product
<1> HIDE DEF x
<1>2a. q \in Nat /\ r \in 0 .. a - 1 /\ x = a * q + r
  BY <1>1, DivMod
<1> HIDE DEF q, r
<1>2. q \in Nat /\ r \in 0 .. a - 1 /\ x = q * a + r /\ q * a \in Nat
  BY <1>2a, Product
<1>3. ~(q < b)
  BY <1>1, <1>2, ProductGrows
<1>4. ~(b < q)
  BY <1>1, <1>2, ProductGrows
<1>5. q = b
  BY <1>2, <1>3, <1>4
<1>6. r = 0
  BY <1>1, <1>2, <1>5
<1> QED BY <1>1, <1>5, <1>6 DEF q, r, x

\* std::lcm of two positive numbers is a positive common multiple.
LEMMA LcmIsCommonMultiple ==
  ASSUME NEW a \in Nat \ {0}, NEW b \in Nat \ {0}
  PROVE  LeastCommonMultiple(a, b) \in CommonMultiple(a, b)
<1>1. a * b \in CommonMultiple(a, b)
  <2>1. a * b \in Nat /\ a * b >= 1 /\ a * b = b * a
    OBVIOUS
  <2>2. (a * b) % a = 0
    BY MultipleDivides
  <2>3. (b * a) % b = 0
    BY MultipleDivides
  <2> QED BY <2>1, <2>2, <2>3 DEF CommonMultiple
<1>2. CommonMultiple(a, b) \in SUBSET Nat
  BY DEF CommonMultiple
<1>3. \E m \in CommonMultiple(a, b) : \A k \in CommonMultiple(a, b) : m <= k
  BY <1>1, <1>2, LeastMember
<1> QED BY <1>3 DEF LeastCommonMultiple

LEMMA LcmPositive ==
  ASSUME NEW a \in Nat \ {0}, NEW b \in Nat \ {0}
  PROVE  LeastCommonMultiple(a, b) \in Nat \ {0}
<1>1. CommonMultiple(a, b) \subseteq Nat \ {0}
  BY DEF CommonMultiple
<1> QED BY <1>1, LcmIsCommonMultiple

-----------------------------------------------------------------------------
\* The rounding gives the next multiple of the alignment when it has room.
LEMMA RankStrideRoundsUp ==
  ASSUME NEW limit \in Nat \ {0}, NEW d \in Nat, NEW a \in Nat \ {0}, d + a <= limit
  PROVE  /\ RankStride(limit, d, a) \in Nat
         /\ RankStride(limit, d, a) % a = 0
         /\ d <= RankStride(limit, d, a) /\ RankStride(limit, d, a) < d + a
<1> DEFINE y == d + a - 1
           q == y \div a
<1>1. y \in Nat /\ y % limit = y
  OBVIOUS
<1>2. q \in Nat /\ y % a \in 0 .. a - 1 /\ y = a * q + (y % a)
  BY <1>1, DivMod
<1>3. RankStride(limit, d, a) = q * a
  BY <1>1 DEF RankStride
<1> HIDE DEF q
<1>4. a * q \in Nat /\ (a * q) % a = 0 /\ a * q = q * a
  BY <1>2, MultipleDivides, Product
<1> QED BY <1>2, <1>3, <1>4

\* A number of slots main() accepts survives the way through SlotCount.
LEMMA AcceptedCounts ==
  ASSUME NEW limit \in Nat \ {0}, NEW n \in Nat, NEW size \in Nat, NEW count \in Nat,
         Accepted(limit, n, size, count)
  PROVE  /\ MappingCount(limit, n, count) = n
         /\ DataBytes(limit, size, count) = size * count
         /\ size * count \in Nat
<1>1. n \in Nat \ {0} /\ size \in Nat \ {0} /\ count \in Nat \ {0} /\ limit - 1 \in Nat
  BY DEF Accepted
<1>2. ASSUME NEW a \in Nat \ {0}, count <= (limit - 1) \div a
      PROVE  a * count \in Nat /\ (a * count) % limit = a * count
  <2> DEFINE q == (limit - 1) \div a
  <2>0. q \in Nat /\ (limit - 1) % a \in 0 .. a - 1
        /\ limit - 1 = a * q + ((limit - 1) % a)
    BY <1>1, DivMod
  <2> HIDE DEF q
  <2>1. a * q \in Nat /\ a * q <= limit - 1 /\ a * q = q * a /\ a * count = count * a
    BY <1>1, <2>0, Product
  <2>2. count = q \/ count < q
    BY <1>2, <1>1, <2>0 DEF q
  <2>3. a * count \in Nat /\ a * count <= a * q
    BY <1>1, <2>0, <2>1, <2>2, ProductGrows, Product
  <2> QED BY <2>1, <2>3
<1>3. DataBytes(limit, size, count) = size * count /\ size * count \in Nat
  BY <1>1, <1>2 DEF Accepted, DataBytes
<1>4. n * count \in Nat /\ SlotCount(limit, n, count) = n * count
  BY <1>1, <1>2 DEF Accepted, SlotCount
<1>5. MappingCount(limit, n, count) = n
  <2>1. n * count = count * n
    BY <1>1
  <2> QED BY <1>1, <1>4, <2>1, MultipleDivides DEF MappingCount
<1> QED BY <1>3, <1>5

\* A slot below the last belongs to one of the ranks and ends inside its data.
LEMMA SlotInside ==
  ASSUME NEW n \in Nat, NEW count \in Nat \ {0}, NEW size \in Nat,
         NEW s \in Nat, s < n * count
  PROVE  /\ RankOf(s, count) \in 0 .. n - 1
         /\ Offset(s, size, count) \in Nat
         /\ Offset(s, size, count) + size <= size * count
<1> DEFINE q == s \div count
           i == s % count
<1>0. q \in Nat /\ i \in 0 .. count - 1 /\ s = count * q + i
  BY DivMod
<1> HIDE DEF q, i
<1>1. q \in Nat /\ i \in 0 .. count - 1 /\ s = q * count + i
  BY <1>0, Product
<1>2. ~(n <= q)
  <2>1. CASE n = q BY <1>1, <2>1
  <2>2. CASE n < q BY <1>1, <2>2, ProductGrows
  <2> QED BY <1>1, <2>1, <2>2
<1>3. i * size \in Nat /\ i * size + size <= count * size /\ count * size = size * count
  BY <1>1, ProductGrows, Product
<1> QED BY <1>1, <1>2, <1>3 DEF RankOf, Offset, IndexInRank, q, i

\* Two slots of one rank do not overlap.
LEMMA SlotsApart ==
  ASSUME NEW count \in Nat \ {0}, NEW size \in Nat, NEW s \in Nat, NEW t \in Nat,
         t < s, RankOf(s, count) = RankOf(t, count)
  PROVE  Offset(t, size, count) + size <= Offset(s, size, count)
<1> DEFINE q == s \div count
           p == t \div count
           i == s % count
           j == t % count
<1>1. q \in Nat /\ i \in 0 .. count - 1 /\ s = count * q + i
  BY DivMod
<1>2. p \in Nat /\ j \in 0 .. count - 1 /\ t = count * p + j
  BY DivMod
<1>3. p = q
  BY DEF RankOf
<1> HIDE DEF p, q, i, j
<1>4. count * q \in Nat
  BY <1>1, Product
<1>5. j < i
  BY <1>1, <1>2, <1>3, <1>4
<1> QED BY <1>1, <1>2, <1>5, ProductGrows DEF Offset, IndexInRank, i, j
-----------------------------------------------------------------------------
\* What the two steps establish: arguments that got past main() were accepted,
\* and the layout is the one computed from them.
Inv ==
  /\ ranks \in Nat /\ slotSize \in Nat /\ slots \in Nat
  /\ stage \in {"accepted", "laidout"} => Accepted(Limit, ranks, slotSize, slots)
  /\ stage = "laidout" =>
       /\ alignment \in Nat \ {0}
       /\ stride = RankStride(Limit, DataBytes(Limit, slotSize, slots), alignment)
       /\ mappingCount = MappingCount(Limit, ranks, slots)

LEMMA InvHolds == Spec => []Inv
<1>1. Init => Inv
  BY LimitAssumption, MaxRanksAssumption DEF Init, Inv, SizeT
<1>2. Inv /\ [Next]_vars => Inv'
  <2> SUFFICES ASSUME Inv, [Next]_vars PROVE Inv'
    OBVIOUS
  <2>1. CASE CheckArguments
    BY <2>1 DEF Inv, CheckArguments
  <2>2. CASE LayOut
    <3>1. PICK granularity \in Granularities :
            IF granularity = 0
              THEN stage' = "failed" /\ UNCHANGED <<alignment, stride, mappingCount>>
              ELSE /\ stage' = "laidout"
                   /\ alignment' = LeastCommonMultiple(VaAlignment, granularity)
                   /\ stride' = RankStride(Limit, DataBytes(Limit, slotSize, slots), alignment')
                   /\ mappingCount' = MappingCount(Limit, ranks, slots)
      BY <2>2 DEF LayOut
    <3>2. granularity # 0 => LeastCommonMultiple(VaAlignment, granularity) \in Nat \ {0}
      BY AlignmentAssumption, GranularityAssumption, LcmPositive
    <3> QED BY <2>2, <3>1, <3>2 DEF Inv, LayOut
  <2>3. CASE UNCHANGED vars
    BY <2>3 DEF Inv, vars
  <2> QED BY <2>1, <2>2, <2>3 DEF Next
<1> QED BY <1>1, <1>2, PTL DEF Spec

\* The sizes of a layout, in the terms of its arguments.
LEMMA LaidOut ==
  ASSUME Inv, stage = "laidout"
  PROVE  /\ ranks \in Nat /\ slotSize \in Nat /\ slots \in Nat \ {0}
         /\ Data \in Nat /\ mappingCount = ranks
         /\ NoWrap => stride \in Nat /\ RoundedUp
<1>1. /\ Accepted(Limit, ranks, slotSize, slots)
      /\ ranks \in Nat /\ slotSize \in Nat /\ slots \in Nat \ {0}
  BY DEF Inv, Accepted
<1>2. /\ mappingCount = ranks /\ Data \in Nat
      /\ DataBytes(Limit, slotSize, slots) = Data
  BY <1>1, LimitAssumption, AcceptedCounts DEF Inv, Data
<1>3. alignment \in Nat \ {0} /\ stride = RankStride(Limit, Data, alignment)
  BY <1>2 DEF Inv
<1>4. ASSUME NoWrap PROVE stride \in Nat /\ RoundedUp
  BY <1>2, <1>3, <1>4, LimitAssumption, RankStrideRoundsUp DEF NoWrap, RoundedUp
<1> QED BY <1>1, <1>2, <1>4

\* data_strategy.cc:186: with room for it, the stride is the data of a rank
\* rounded up to the next multiple of the alignment.
THEOREM StrideIsRoundedUp == Spec => []StrideRoundedUp
<1>1. Inv => StrideRoundedUp
  BY LaidOut DEF StrideRoundedUp
<1> QED BY <1>1, InvHolds, PTL

\* data_strategy.cc:65, 73: dividing the number of all slots by the number of
\* slots of a rank gives back the number of ranks, because main() refuses
\* arguments whose product wraps around.
THEOREM EveryRankHasMapping == Spec => []MappingForEveryRank
<1>1. Inv => MappingForEveryRank
  BY LaidOut DEF MappingForEveryRank
<1> QED BY <1>1, InvHolds, PTL

\* data_strategy.cc:308-332: every slot lies inside the memory of a rank that
\* has a mapping, and no two overlap.
THEOREM SlotsAreInPlace == Spec => []SlotsInPlace
<1>1. ASSUME Inv PROVE SlotsInPlace
  <2> SUFFICES ASSUME stage = "laidout", NoWrap,
                      NEW s \in 0 .. ranks * slots - 1
               PROVE  /\ RankOf(s, slots) < mappingCount
                      /\ Offset(s, slotSize, slots) + slotSize <= stride
                      /\ \A t \in 0 .. s - 1 :
                           RankOf(s, slots) = RankOf(t, slots) =>
                             Offset(t, slotSize, slots) + slotSize <= Offset(s, slotSize, slots)
    BY DEF SlotsInPlace
  <2>1. /\ ranks \in Nat /\ slotSize \in Nat /\ slots \in Nat \ {0}
        /\ Data \in Nat /\ mappingCount = ranks /\ stride \in Nat /\ RoundedUp
    BY <1>1, LaidOut
  <2>2. s \in Nat /\ s < ranks * slots
    BY <2>1, Product
  <2>3. /\ RankOf(s, slots) \in 0 .. ranks - 1
        /\ Offset(s, slotSize, slots) \in Nat
        /\ Offset(s, slotSize, slots) + slotSize <= Data
    BY <2>1, <2>2, SlotInside DEF Data
  <2>4. ASSUME NEW t \in 0 .. s - 1, RankOf(s, slots) = RankOf(t, slots)
        PROVE  Offset(t, slotSize, slots) + slotSize <= Offset(s, slotSize, slots)
    <3>1. t \in Nat /\ t < s BY <2>2
    <3> QED BY <2>1, <2>2, <2>4, <3>1, SlotsApart
  <2>5. Offset(s, slotSize, slots) + slotSize <= stride
    BY <2>1, <2>3 DEF RoundedUp
  <2> QED BY <2>1, <2>3, <2>4, <2>5
<1> QED BY <1>1, InvHolds, PTL
=============================================================================
