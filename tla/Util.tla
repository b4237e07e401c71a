-------------------------------- MODULE Util --------------------------------
(***************************************************************************)
(* Rounding to a power of two (util.h), by which the ring of CircBuf, the  *)
(* output buffer and the receive buffer find their sizes.                  *)
(***************************************************************************)
EXTENDS Integers, FiniteSets

CONSTANT Bits       \* the width of the unsigned integers that are rounded

ASSUME BitsAssumption == Bits \in Nat

(* 1ull << n *)
Pow2[n \in Nat] == IF n = 0 THEN 1 ELSE 2 * Pow2[n - 1]

(* find_last_set_bit: the number of binary digits. *)
FindLastSetBit(x) == Cardinality({k \in 0 .. (Bits - 1) : Pow2[k] <= x})

(* roundup_pow_of_two; the callers stay below the largest power. *)
RoundUpPowOfTwo(x) == Pow2[FindLastSetBit(x - 1)]

(* rounddown_pow_of_two *)
RoundDownPowOfTwo(x) == IF x = 0 THEN 0 ELSE Pow2[FindLastSetBit(x) - 1]
=============================================================================
