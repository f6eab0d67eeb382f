-------------------------- MODULE MachineIntegers --------------------------
(***************************************************************************)
(* The conversions `as i32` and `as u32`, and arithmetic that wraps.  The  *)
(* width is a parameter: small in a run, arbitrary in a proof.             *)
(***************************************************************************)
EXTENDS Integers

CONSTANT HalfWord   \* 2^31: an i32 lies in -HalfWord .. HalfWord - 1

ASSUME HalfWordAssumption == HalfWord \in Nat \ {0}

Word == 2 * HalfWord

I32(n) == ((n + HalfWord) % Word) - HalfWord

U32(n) == n % Word
=============================================================================
