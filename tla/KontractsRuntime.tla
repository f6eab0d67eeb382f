-------------------------- MODULE KontractsRuntime --------------------------
(***************************************************************************)
(* The runtime around the kontracts pallet: signed extrinsics with nonces  *)
(* and fees, transfers, and the sudo key for the calls of the root.        *)
(*                                                                         *)
(* An extrinsic is submitted, stays available to every block author from   *)
(* then on, and may be applied late, in any order and again: whether it    *)
(* then does anything is decided by the checks of SignedExtra.  Applying   *)
(* one is three steps that nothing interleaves with: the checks, which     *)
(* take the fee, the dispatch, and what follows it.                        *)
(***************************************************************************)
EXTENDS Kontracts

CONSTANTS
  Signer,           \* accounts that sign extrinsics
  SudoKey,          \* Sudo: the account that may dispatch as root
  Calls,            \* Calls[a]: the calls a signs extrinsics of
  Fee,              \* Fee[name]: of a call, for its base, its weight and its length
  MaxNonce,         \* bound: nonces signed for
  MaxExtrinsics     \* bound: extrinsics submitted

PalletCall ==
  [call : {"upload_code"}, code : Binary] \cup
  [call : {"execute_code"}, id : CodeId, expected : Declared, budget : Budget] \cup
  [call : {"delete_code"}, id : CodeId] \cup
  [call : {"update_code"}, id : CodeId, code : Binary]

RuntimeCall ==
  PalletCall \cup
  [call : {"transfer"}, dest : Account, value : Nat] \cup
  [call : {"sudo"}, inner : PalletCall]

CallName == SignedCall \cup RootCall \cup {"transfer", "sudo"}

ASSUME RuntimeAssumption ==
  /\ Signer \subseteq Account /\ SudoKey \in Account
  /\ Calls \in [Signer -> SUBSET RuntimeCall]
  /\ Fee \in [CallName -> Nat \ {0}]
  /\ ExistentialDeposit > 0

VARIABLES
  nonce,        \* System: nonce of every account, 0 for one that does not exist
  submitted,    \* extrinsics that passed validate_transaction
  applying,     \* the extrinsic being applied, if any, and how far
  included      \* history: extrinsics applied since their signer was created

runtimeVars == <<vars, nonce, submitted, applying, included>>

Idle == [phase |-> "idle"]

RuntimeInit ==
  /\ Init
  /\ nonce = [a \in Account |-> 0]
  /\ submitted = {}
  /\ applying = Idle
  /\ included = [a \in Account |-> {}]

----------------------------------------------------------------------------
(***************************************************************************)
(* The checks: CheckNonce and ChargeTransactionPayment                     *)
(***************************************************************************)

\* The fee is withdrawn from the free balance and must not kill the account.
CanPay(acc, fee) == fee <= acc.free /\ TotalBalance(acc) - fee >= ExistentialDeposit

\* The pool asks validate_transaction: a nonce may be ahead, not behind.  The
\* caller declared what it saw, seen is the storage it saw.
Submit(who, n, c) ==
  /\ applying = Idle
  /\ n >= nonce[who]
  /\ CanPay(balances[who], Fee[c.call])
  /\ Cardinality(submitted) < MaxExtrinsics
  /\ submitted' = submitted \cup
       {[signer |-> who, nonce |-> n, call |-> c,
         seen |-> IF c.call = "execute_code" THEN Storages[c.id] ELSE EmptyStorage]}
  /\ UNCHANGED <<vars, nonce, applying, included>>

PreDispatch(x) ==
  /\ applying = Idle
  /\ x.nonce = nonce[x.signer]
  /\ CanPay(balances[x.signer], Fee[x.call.call])
  /\ nonce' = [nonce EXCEPT ![x.signer] = @ + 1]
  /\ balances' = [balances EXCEPT ![x.signer].free = @ - Fee[x.call.call]]
  /\ included' = [included EXCEPT ![x.signer] = @ \cup {x}]
  /\ applying' = [phase |-> "checked", xt |-> x, before |-> <<Codes, Storages, balances, nonce>>]
  /\ UNCHANGED <<Codes, Storages, last, confiscated, submitted>>

----------------------------------------------------------------------------
(***************************************************************************)
(* The dispatch                                                            *)
(***************************************************************************)

\* A slip: two copies of the account written one after the other, also when
\* they are the same account.
TransfersToItself(who, dest, value) ==
  /\ value <= balances[who].free
  /\ balances' = [[balances EXCEPT ![who] = Settled([@ EXCEPT !.free = @ - value])]
                    EXCEPT ![dest] = [balances[dest] EXCEPT !.free = @ + value]]
  /\ confiscated' = confiscated
  /\ Deposits([type |-> "None"], 0)
  /\ UNCHANGED <<Codes, Storages>>

\* The sender may be reaped, and then loses what it has reserved; the receiver
\* must be left with the existential deposit.
Transfers(who, dest, value) ==
  /\ who # dest
  /\ value <= balances[who].free
  /\ TotalBalance(balances[dest]) + value >= ExistentialDeposit
  /\ LET acc == Settled([balances[who] EXCEPT !.free = @ - value])
     IN  /\ balances' = [balances EXCEPT ![who] = acc, ![dest].free = @ + value]
         /\ confiscated' = confiscated + balances[who].reserved - acc.reserved
  /\ Deposits([type |-> "None"], 0)
  /\ UNCHANGED <<Codes, Storages>>

TransferFails(who, dest, value) ==
  /\ who # dest
  /\ \/ value > balances[who].free
     \/ TotalBalance(balances[dest]) + value < ExistentialDeposit
  /\ Fails("BalancesError")

TransferNothing(who, dest, value) ==
  /\ value = 0 \/ who = dest
  /\ Deposits([type |-> "None"], 0)
  /\ UNCHANGED <<Codes, Storages, balances, confiscated>>

Transfer(who, dest, value) ==
  \/ value > 0 /\ Transfers(who, dest, value)
  \/ value > 0 /\ TransferFails(who, dest, value)
  \/ TransferNothing(who, dest, value)

\* A dispatch with the root origin, by sudo: it tells the result in an event
\* and succeeds, also when ensure_signed turns the root away.
DispatchAsRoot(c) ==
  \/ c.call = "delete_code" /\ DeleteCode(c.id)
  \/ c.call = "update_code" /\ UpdateCode(c.id, c.code)
  \/ /\ c.call \in SignedCall
     /\ Deposits([type |-> "None"], 0)
     /\ UNCHANGED <<Codes, Storages, balances, confiscated>>

\* A slip: sudo for everybody.
SudoForAll(who, c) == DispatchAsRoot(c)

\* Only the key may.
Sudo(who, c) ==
  \/ who = SudoKey /\ DispatchAsRoot(c)
  \/ who # SudoKey /\ Fails("RequireSudo")

DispatchAs(who, c) ==
  \/ c.call = "upload_code" /\ UploadCode(who, c.code)
  \/ c.call = "execute_code" /\ ExecuteCode(who, c.id, c.expected, Run(c.id, c.budget))
  \/ c.call \in RootCall /\ RejectOrigin(who, c.call)
  \/ c.call = "transfer" /\ Transfer(who, c.dest, c.value)
  \/ c.call = "sudo" /\ Sudo(who, c.inner)

\* A slip: the nonce is undone with the dispatch.
RemovesReapedOrFailed ==
  /\ nonce' = [a \in Account |->
       IF TotalBalance(balances'[a]) = 0 THEN 0
       ELSE IF last'.result # "Ok" /\ a = applying.xt.signer THEN nonce[a] - 1 ELSE nonce[a]]
  /\ included' = [a \in Account |-> IF TotalBalance(balances'[a]) = 0 THEN {} ELSE included[a]]

\* The data of a reaped account is removed, its nonce included.
RemovesReaped ==
  /\ nonce' = [a \in Account |-> IF TotalBalance(balances'[a]) = 0 THEN 0 ELSE nonce[a]]
  /\ included' = [a \in Account |-> IF TotalBalance(balances'[a]) = 0 THEN {} ELSE included[a]]

Dispatch ==
  /\ applying.phase = "checked"
  /\ DispatchAs(applying.xt.signer, applying.xt.call)
  /\ RemovesReaped
  /\ applying' = [applying EXCEPT !.phase = "dispatched"]
  /\ UNCHANGED submitted

----------------------------------------------------------------------------
(***************************************************************************)
(* After the dispatch                                                      *)
(***************************************************************************)

\* What sudo did is free of charge, for the key.
Refund(x) == IF x.call.call = "sudo" /\ x.signer = SudoKey THEN Fee["sudo"] ELSE 0

PostDispatch ==
  /\ applying.phase = "dispatched"
  /\ last.result # HostPanic
  /\ LET x == applying.xt
     IN  balances' = IF TotalBalance(balances[x.signer]) = 0 THEN balances
                     ELSE [balances EXCEPT ![x.signer].free = @ + Refund(x)]
  /\ applying' = Idle
  /\ UNCHANGED <<Codes, Storages, last, confiscated, nonce, submitted, included>>

\* The host panicked: the block author goes back to the state that it had when
\* it began to apply the extrinsic.
Unwind ==
  /\ applying.phase = "dispatched"
  /\ last.result = HostPanic
  /\ Codes' = applying.before[1] /\ Storages' = applying.before[2]
  /\ balances' = applying.before[3] /\ nonce' = applying.before[4]
  /\ included' = [included EXCEPT ![applying.xt.signer] = @ \ {applying.xt}]
  /\ applying' = Idle
  /\ UNCHANGED <<last, confiscated, submitted>>

RuntimeNext ==
  \/ \E who \in Signer, n \in 0 .. MaxNonce : \E c \in Calls[who] : Submit(who, n, c)
  \/ \E x \in submitted : PreDispatch(x)
  \/ Dispatch
  \/ PostDispatch
  \/ Unwind

RuntimeSpec == RuntimeInit /\ [][RuntimeNext]_runtimeVars

----------------------------------------------------------------------------
(***************************************************************************)
(* Properties                                                              *)
(***************************************************************************)

\* The nonce of an account is the number of its extrinsics applied since it
\* exists, failed ones and refunded ones included: none is applied twice to the
\* same account, which begins anew when it is reaped.
NonceCountsExtrinsics == \A a \in Account : nonce[a] = Cardinality(included[a])

\* A caller whose declaration covers what the kontract does on the storage it
\* saw is slashed only when an execution changed that storage in between.
SlashedOnlyIfStale ==
  [][applying.phase = "checked" /\ last'.event.type = "ExceededStorage" =>
       LET x   == applying.xt
           run == HostExecute(Codes[x.call.id], x.seen, x.call.budget)
       IN  \/ Storages[x.call.id] # x.seen
           \/ EntriesSize[run.storage] - EntriesSize[x.seen] > x.call.expected]_runtimeVars

TotalIssuance == Total([a \in Account |-> TotalBalance(balances[a])])

\* Fees, slashes and dust are burned, refunds give back a fee just taken: over
\* the application of an extrinsic the issuance never grows.
IssuanceNeverGrows ==
  applying.phase # "idle" =>
    TotalIssuance + (IF applying.phase = "dispatched" THEN Refund(applying.xt) ELSE 0)
      <= Total([a \in Account |-> TotalBalance(applying.before[3][a])])

\* An extrinsic that fails leaves its fee and its nonce used, and nothing else
\* of all that was done between its checks and the end of its application.
FailureCostsFee ==
  [][applying.phase = "dispatched" /\ last.result \notin {"Ok", HostPanic} =>
       LET x == applying.xt
       IN  /\ <<Codes', Storages'>> = <<applying.before[1], applying.before[2]>>
           /\ balances' = [applying.before[3] EXCEPT ![x.signer].free = @ - Fee[x.call.call]]
           /\ nonce' = [applying.before[4] EXCEPT ![x.signer] = @ + 1]]_runtimeVars

\* Deposits that cover bytes still stored are lost by their owner alone, who
\* executes and is slashed, or transfers away what keeps its account alive: no
\* fee, refund, root call or extrinsic of another account reaches them.
DepositsLostByOwner ==
  [][\A a \in Account :
       DepositsFollow(a, /\ applying.phase = "checked" /\ applying.xt.signer = a
                         /\ \/ last'.event.type = "ExceededStorage"
                            \/ applying.xt.call.call = "transfer")]_runtimeVars

\* A code disappears only by an extrinsic signed with the sudo key.
OnlySudoRemovesCode ==
  [][\A id \in DOMAIN Codes : id \notin DOMAIN Codes' => applying.xt.signer = SudoKey]_runtimeVars
============================================================================
