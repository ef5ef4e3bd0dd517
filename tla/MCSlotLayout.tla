---------------------------- MODULE MCSlotLayout ----------------------------
(***************************************************************************)
(* SlotLayout over every combination of arguments in a size_t of a few     *)
(* bits: main() checks its arguments, LocalSetup lays the memory out.      *)
(***************************************************************************)
EXTENDS SlotLayout

CONSTANTS
  Limit,          \* the numbers below it fit in size_t
  VaAlignment,    \* kAddressAlignment
  Granularities,  \* what the HAL may answer, 0 included
  MaxRanks        \* 128 in the code

ASSUME LimitAssumption == Limit \in Nat \ {0}
ASSUME AlignmentAssumption == VaAlignment \in Nat \ {0}
ASSUME GranularityAssumption == Granularities \subseteq Nat
ASSUME MaxRanksAssumption == MaxRanks \in Nat

SizeT == 0 .. Limit - 1

VARIABLES stage, ranks, slotSize, slots, alignment, stride, mappingCount
vars == <<stage, ranks, slotSize, slots, alignment, stride, mappingCount>>

Init ==
  /\ stage = "arguments"
  /\ ranks \in 0 .. MaxRanks /\ slotSize \in SizeT /\ slots \in SizeT
  /\ alignment = 0 /\ stride = 0 /\ mappingCount = 0

\* main() goes on or prints an argument error and returns 2.
CheckArguments ==
  /\ stage = "arguments"
  /\ stage' = IF Accepted(Limit, ranks, slotSize, slots) THEN "accepted" ELSE "refused"
  /\ UNCHANGED <<ranks, slotSize, slots, alignment, stride, mappingCount>>

\* LocalSetup refuses a granularity of 0.
LayOut ==
  /\ stage = "accepted"
  /\ \E granularity \in Granularities :
       IF granularity = 0
         THEN stage' = "failed" /\ UNCHANGED <<alignment, stride, mappingCount>>
         ELSE /\ stage' = "laidout"
              /\ alignment' = LeastCommonMultiple(VaAlignment, granularity)
              /\ stride' = RankStride(Limit, DataBytes(Limit, slotSize, slots), alignment')
              /\ mappingCount' = MappingCount(Limit, ranks, slots)
  /\ UNCHANGED <<ranks, slotSize, slots>>

Next == CheckArguments \/ LayOut
Spec == Init /\ [][Next]_vars

-----------------------------------------------------------------------------
(***************************************************************************)
(* Properties.                                                             *)
(***************************************************************************)
Data == slotSize * slots
NoWrap == Data + alignment <= Limit

\* "Rounded up to a multiple of the least common multiple of 1 GiB and the
\* granularity" (ucm_data_strategy/README.md:14), as long as there is room in
\* size_t for the rounding; for larger sizes main() accepts too, it is not.
RoundedUp == stride % alignment = 0 /\ Data <= stride /\ stride < Data + alignment
StrideRoundedUp == stage = "laidout" /\ NoWrap => RoundedUp

\* There is a mapping for every rank of --ranks, although their number is
\* computed back from the number of slots (data_strategy.cc:65, 73).
MappingForEveryRank == stage = "laidout" => mappingCount = ranks

\* Every slot of --ranks lies inside the memory of a rank that has a mapping,
\* and two slots of one rank do not overlap (data_strategy.cc:308-332).
SlotsInPlace ==
  stage = "laidout" /\ NoWrap =>
    \A s \in 0 .. ranks * slots - 1 :
      /\ RankOf(s, slots) < mappingCount
      /\ Offset(s, slotSize, slots) + slotSize <= stride
      /\ \A t \in 0 .. s - 1 :
           RankOf(s, slots) = RankOf(t, slots) =>
             Offset(t, slotSize, slots) + slotSize <= Offset(s, slotSize, slots)
=============================================================================
