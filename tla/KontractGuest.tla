--------------------------- MODULE KontractGuest ---------------------------
(***************************************************************************)
(* A kontract built with the SDK and run by the executor: the binary is    *)
(* given, and each of its statements is one call of the SDK or what it     *)
(* computes until the next one.                                            *)
(*                                                                         *)
(* Every step is a step of KontractExecutor.  What the execution computes  *)
(* is also given in one piece, as a function of the binary, the storage    *)
(* and the budget: the pallet relies on it.                                *)
(***************************************************************************)
EXTENDS KontractExecutor, Sequences

CONSTANTS
  Kontract,     \* binaries
  Program,      \* Program[b]: the statements of main
  LoadError     \* LoadError[b]: why a binary never gets to main, if it does not

\* A binary that is no wasm module, imports what the host does not offer, or
\* exports no main is found out while the executor does this.
LoadErrorOf ==
  [module      |-> "IncorrecBinary",
   instantiate |-> "ImpossibleCreateInstance",
   entry       |-> "MainEntryPointNotDefined"]

\* The SDK is called with keys and values that a kontract can build.
StatementOK(st) ==
  /\ st.op \in {"write", "delete", "read", "take", "loop", "panic"}
  /\ st.op \in {"write", "delete", "read"} => st.key \in GuestKey
  /\ st.op = "write" => st.value \in [Value -> Value]

ASSUME GuestAssumption ==
  /\ DOMAIN Program = Kontract
  /\ \A b \in Kontract : /\ Program[b] \in Seq({Program[b][i] : i \in DOMAIN Program[b]})
                        /\ \A i \in DOMAIN Program[b] : StatementOK(Program[b][i])
  /\ DOMAIN LoadError \subseteq Kontract
  /\ \A b \in DOMAIN LoadError : \E p \in DOMAIN LoadErrorOf : LoadError[b] = LoadErrorOf[p]

\* The limits given by the caller.
GuestBudget == [fuel : Fuel, read : Limit, write : Limit]

VARIABLES
  call,     \* the arguments of execute_code
  pc,       \* the next statement
  taken     \* the value taken last, or the empty one

guestVars == <<vars, call, pc, taken>>

\* The new store of a call.
NewStore(s, g) ==
  [max_n_read |-> g.read, max_n_write |-> g.write, curr_n_read |-> 0, curr_n_write |-> 0,
   storage |-> s]

NoBuffer == [size |-> 0, written |-> 0, value |-> EmptyValue]

NothingServed == [reads |-> 0, writes |-> 0]

\* execute_code has been called with these arguments.
Called(b, s, g) ==
  /\ call = [code |-> b, storage |-> s, budget |-> g]
  /\ phase = "module" /\ store = NewStore(s, g) /\ fuel = g.fuel
  /\ buffer = NoBuffer /\ result = NoResult /\ served = NothingServed
  /\ pc = 1 /\ taken = EmptyValue

GuestInit == \E b \in Kontract, s \in InitialStorages, g \in GuestBudget : Called(b, s, g)

Statements == Program[call.code]

\* main is at a statement of this kind.
At(op) == phase = "main" /\ pc <= Len(Statements) /\ Statements[pc].op = op

Statement == Statements[pc]

Continues == pc' = pc + 1 /\ UNCHANGED <<call, taken>>

Stays == UNCHANGED <<call, pc, taken>>

----------------------------------------------------------------------------
(***************************************************************************)
(* Loading                                                                 *)
(***************************************************************************)

Unloadable(b, p) == b \in DOMAIN LoadError /\ LoadError[b] = LoadErrorOf[p]

\* A kontract is compiled by rustc and has no start function.
Loads ==
  /\ NewModule \/ Instantiate \/ GetTypedFunc
  /\ phase' # "start"
  /\ result' = IF Unloadable(call.code, phase) THEN Error(LoadError[call.code]) ELSE NoResult
  /\ Stays

\* What main executes after its last statement, dropping its vectors, takes a
\* unit of fuel to be left.
MainReturns ==
  /\ phase = "main" /\ pc > Len(Statements)
  /\ fuel > 0
  /\ Returns
  /\ Stays

FuelRunsOut ==
  /\ phase = "main"
  /\ OutOfFuel
  /\ Stays

----------------------------------------------------------------------------
(***************************************************************************)
(* The SDK                                                                 *)
(***************************************************************************)

\* The vector that read allocates for the result.
MaxValueBytes == 100

SDKBuffers == {b \in Buffer : b.size = MaxValueBytes /\ b.room > b.size}

\* A call that the caller's limits do not allow ends the execution.
SDKWrite ==
  /\ At("write")
  /\ \/ Set(Statement.key, Statement.value[taken]) /\ Continues
     \/ ExceedsWrites /\ Stays

\* A slip: a deletion that writes the empty vector, which reads the same.
SDKDeleteWritesEmpty ==
  /\ At("delete")
  /\ \/ Set(Statement.key, EmptyValue) /\ Continues
     \/ ExceedsWrites /\ Stays

SDKDelete ==
  /\ At("delete")
  /\ \/ Remove(Statement.key) /\ Continues
     \/ ExceedsWrites /\ Stays

SDKRead ==
  /\ At("read")
  /\ \/ \E b \in SDKBuffers : Get(Statement.key, b)
     \/ ExceedsReads
  /\ IF phase' = "main" THEN Continues ELSE Stays

\* What is in the buffer is decoded twice, as a vector by read and as what it
\* encodes by main; the kontract panics when it cannot be.
Take ==
  /\ At("take")
  /\ LET v == Statement.taken[buffer.value]
     IN  IF v \in Value
         THEN Compute /\ pc' = pc + 1 /\ taken' = v /\ UNCHANGED call
         ELSE WasmTrap /\ result' = Error("WasmPanic") /\ Stays

\* The panic handler aborts, which is the unreachable instruction.
PanicHandler == At("panic") /\ WasmTrap /\ Stays

LoopForever == At("loop") /\ Compute /\ Stays

GuestNext ==
  \/ Loads \/ MainReturns \/ FuelRunsOut
  \/ SDKWrite \/ SDKDelete \/ SDKRead
  \/ Take \/ PanicHandler \/ LoopForever

\* The binary is known and runs on as the host does.
GuestSpec == GuestInit /\ [][GuestNext]_guestVars /\ WF_guestVars(GuestNext)

----------------------------------------------------------------------------
(***************************************************************************)
(* The outcome in one piece: what main would do were there no limits, and  *)
(* the first thing that stops it.                                          *)
(***************************************************************************)

Found(s, k) == IF Blake2[k] \in DOMAIN s THEN s[Blake2[k]] ELSE EmptyValue

Started(s) == [storage |-> s, read |-> EmptyValue, taken |-> EmptyValue]

\* What a statement makes of the storage and the values of main.
After(st, m) ==
  CASE st.op = "write"  -> [m EXCEPT !.storage = Inserted(@, Blake2[st.key], st.value[m.taken])]
    [] st.op = "delete" -> [m EXCEPT !.storage = Removed(@, Blake2[st.key])]
    [] st.op = "read"   -> [m EXCEPT !.read = Found(m.storage, st.key)]
    [] st.op = "take" /\ st.taken[m.read] \in Value -> [m EXCEPT !.taken = st.taken[m.read]]
    [] OTHER -> m

\* The storage and the values of main before its i-th statement.
Before(b, s) ==
  LET at[i \in 1 .. Len(Program[b]) + 1] ==
        IF i = 1 THEN Started(s) ELSE After(Program[b][i - 1], at[i - 1])
  IN  at

\* Statements of these kinds among the first i.
Count(b, ops, i) == Cardinality({j \in 1 .. i : Program[b][j].op \in ops})

\* Why the i-th statement, or the end of main, is not completed.
Stopped(b, s, g, i) ==
  LET op == IF i > Len(Program[b]) THEN "end" ELSE Program[b][i].op
      m  == Before(b, s)[i]
  IN  CASE i > g.fuel \/ op = "loop" -> Error("OutOfFuel")
        [] i <= g.fuel /\ op \in {"write", "delete"} /\ Count(b, {"write", "delete"}, i) > g.write ->
             Error("OutOfWrites")
        [] i <= g.fuel /\ op = "read" /\ Count(b, {"read"}, i) > g.read -> Error("OutOfReads")
        [] i <= g.fuel /\ op = "read" /\ Count(b, {"read"}, i) <= g.read
             /\ Length[Found(m.storage, Program[b][i].key)] > MaxValueBytes -> Error("WasmPanic")
        [] i <= g.fuel /\ op = "read" /\ Count(b, {"read"}, i) <= g.read
             /\ Length[Found(m.storage, Program[b][i].key)] \in 64 .. MaxValueBytes ->
             [state |-> "HostPanic"]
        [] i <= g.fuel /\ op = "take" /\ Program[b][i].taken[m.read] \notin Value -> Error("WasmPanic")
        [] i <= g.fuel /\ op = "panic" -> Error("WasmPanic")
        [] OTHER -> NoResult

Outcome(b, s, g) ==
  LET end   == Len(Program[b]) + 1
      stops == {i \in 1 .. end : Stopped(b, s, g, i) # NoResult}
      first == CHOOSE i \in stops : \A j \in stops : i <= j
  IN  CASE b \in DOMAIN LoadError -> Error(LoadError[b])
        [] b \notin DOMAIN LoadError /\ stops # {} -> Stopped(b, s, g, first)
        [] b \notin DOMAIN LoadError /\ stops = {} ->
             [state |-> "Ok", storage |-> Before(b, s)[end].storage]

----------------------------------------------------------------------------
(***************************************************************************)
(* Properties                                                              *)
(***************************************************************************)

\* Two nodes that execute a kontract agree: what execute_code returns depends
\* on the binary, the storage and the limits only, in the way Outcome says,
\* whatever limit is met first.
OutcomeIsFunction ==
  phase = "done" => result = Outcome(call.code, call.storage, call.budget)

\* A storage without the entries of empty values.
Nonempty(s) == [k \in {j \in DOMAIN s : Length[s[j]] > 0} |-> s[k]]

SameButEmpty(r1, r2) ==
  IF r1.state = "Ok" /\ r2.state = "Ok"
  THEN Nonempty(r1.storage) = Nonempty(r2.storage)
  ELSE r1 = r2

\* A kontract cannot tell an absent key from an empty value: deprived of its
\* empty entries it computes the same.  So nobody needs to pay for them.
AbsentIsEmpty ==
  phase = "done" =>
    SameButEmpty(result, Outcome(call.code, Nonempty(call.storage), call.budget))
=============================================================================
