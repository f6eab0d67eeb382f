------------------------------ MODULE Balances ------------------------------
(***************************************************************************)
(* The part of pallet_balances the kontracts pallet calls through its      *)
(* Currency type, on the data of one account.  pallet_balances is a        *)
(* dependency of the repository, not a part of it.                         *)
(***************************************************************************)
EXTENDS Integers

CONSTANT ExistentialDeposit     \* Config of pallet_balances

ASSUME BalancesAssumption == ExistentialDeposit \in Nat

AccountData == [free : Nat, reserved : Nat]

TotalBalance(acc) == acc.free + acc.reserved

\* The account does not exist, or holds the existential deposit.
Alive(acc) == TotalBalance(acc) = 0 \/ TotalBalance(acc) >= ExistentialDeposit

\* An account left with less than the existential deposit is reaped.
Settled(acc) ==
  IF TotalBalance(acc) < ExistentialDeposit THEN [free |-> 0, reserved |-> 0] ELSE acc

Smaller(m, n) == IF m <= n THEN m ELSE n

\* Currency::reserve fails unless the free balance covers the amount.
CanReserve(acc, amount) == amount <= acc.free

Reserved(acc, amount) ==
  Settled([free |-> acc.free - amount, reserved |-> acc.reserved + amount])

\* Currency::unreserve gives back what is reserved, at most the amount.
Unreserved(acc, amount) ==
  LET actual == Smaller(acc.reserved, amount)
  IN  Settled([free |-> acc.free + actual, reserved |-> acc.reserved - actual])

\* Currency::slash takes the free balance first and the reserved one next.
Slashed(acc, amount) ==
  LET fromFree     == Smaller(acc.free, amount)
      fromReserved == Smaller(acc.reserved, amount - fromFree)
  IN  Settled([free |-> acc.free - fromFree, reserved |-> acc.reserved - fromReserved])
=============================================================================
