----------------------------- MODULE SlotLayout -----------------------------
(***************************************************************************)
(* The arithmetic of ucm_data_strategy: what main() accepts, the size of a *)
(* rank's reservation, and where a slot lies.  size_t holds the numbers    *)
(* below limit; a larger result of the code's arithmetic wraps around.     *)
(***************************************************************************)
EXTENDS Integers

\* The check of the arguments (main.cpp:42-47).  Mutant: the last factor of the
\* check, that the number of all slots fits, is left out.
AcceptedPerRank(limit, ranks, slotSize, slots) ==
  ranks > 0 /\ slotSize > 0 /\ slots > 0 /\ slots <= (limit - 1) \div slotSize
Accepted(limit, ranks, slotSize, slots) ==
  /\ ranks > 0 /\ slotSize > 0 /\ slots > 0
  /\ slots <= (limit - 1) \div slotSize
  /\ slots <= (limit - 1) \div ranks

\* The number of slots of all ranks, and of mappings made from it.
SlotCount(limit, ranks, slots) == (ranks * slots) % limit
MappingCount(limit, ranks, slots) == SlotCount(limit, ranks, slots) \div slots

DataBytes(limit, slotSize, slots) == (slotSize * slots) % limit

\* std::lcm of the alignment of addresses and the granularity of allocations.
CommonMultiple(a, b) == {m \in 1 .. a * b : m % a = 0 /\ m % b = 0}
LeastCommonMultiple(a, b) ==
  CHOOSE m \in CommonMultiple(a, b) : \A k \in CommonMultiple(a, b) : m <= k

\* dataBytes rounded up to a multiple of alignment.
RoundedDown(limit, dataBytes, alignment) ==   \* mutant: "+ alignment - 1" is missing
  (dataBytes \div alignment) * alignment
RankStride(limit, dataBytes, alignment) ==
  (((dataBytes + alignment - 1) % limit) \div alignment) * alignment

\* The rank that owns a slot, and where in that rank's memory the slot begins.
RankOf(slot, slots) == slot \div slots
IndexInRank(slot, slots) == slot % slots
GlobalOffset(slot, slotSize, slots) == slot * slotSize   \* mutant: % is missing
Offset(slot, slotSize, slots) == IndexInRank(slot, slots) * slotSize
=============================================================================
