------------------------ MODULE KontractGuestProofs ------------------------
(***************************************************************************)
(* A kontract built with the SDK, whatever its statements, is one of the   *)
(* binaries that the executor is proved about, and what its execution      *)
(* returns is a function of the binary, the storage and the limits.        *)
(***************************************************************************)
EXTENDS KontractGuest, KontractExecutorProofs, FiniteSetTheorems

\* The SDK goes through the program and remembers a value.
GuestOK ==
  /\ call.code \in Kontract
  /\ pc \in Nat \ {0}
  /\ taken \in Value

\* A kontract starts as an execution does.
LEMMA InitGuest ==
  ASSUME GuestInit
  PROVE  Init /\ GuestOK
<1>1. PICK b \in Kontract, s \in InitialStorages, g \in GuestBudget : Called(b, s, g)
  BY DEF GuestInit
<1>2. g.fuel \in Fuel /\ g.read \in Limit /\ g.write \in Limit
  BY DEF GuestBudget
<1>3. NewStore(s, g) \in [max_n_read : Limit, max_n_write : Limit,
                          curr_n_read : {0}, curr_n_write : {0}, storage : InitialStorages]
  BY <1>2 DEF NewStore
<1>4. Init
  BY <1>1, <1>2, <1>3 DEF Called, Init, NoBuffer, NothingServed
<1>5. GuestOK
  BY <1>1, ExecutorAssumption DEF Called, GuestOK
<1>. QED  BY <1>4, <1>5

\* A statement that is reached is one of the program.
LEMMA StatementReached ==
  ASSUME GuestOK, NEW op, At(op)
  PROVE  StatementOK(Statement) /\ Statement.op = op
<1>1. Statements \in Seq({Statements[i] : i \in DOMAIN Statements})
  BY GuestAssumption DEF GuestOK, Statements
<1>2. pc \in DOMAIN Statements
  BY <1>1 DEF At, GuestOK
<1>. QED  BY <1>2, GuestAssumption DEF GuestOK, Statements, Statement, At

\* Every statement of a kontract is a step of the executor.
LEMMA GuestStep ==
  ASSUME GuestOK, GuestNext
  PROVE  Next /\ GuestOK'
<1>1. CASE Loads \/ MainReturns \/ FuelRunsOut
  BY <1>1 DEF Loads, MainReturns, FuelRunsOut, Stays, Next, GuestOK
<1>2. CASE SDKWrite
  <2>1. Statement.key \in GuestKey /\ Statement.value[taken] \in Value
    BY <1>2, StatementReached DEF SDKWrite, StatementOK, GuestOK
  <2>. QED  BY <1>2, <2>1 DEF SDKWrite, Next, Stays, Continues, GuestOK
<1>3. CASE SDKDelete
  <2>1. Statement.key \in GuestKey
    BY <1>3, StatementReached DEF SDKDelete, StatementOK
  <2>. QED  BY <1>3, <2>1 DEF SDKDelete, Next, Stays, Continues, GuestOK
<1>4. CASE SDKRead
  <2>1. Statement.key \in GuestKey
    BY <1>4, StatementReached DEF SDKRead, StatementOK
  <2>2. SDKBuffers \subseteq Buffer
    BY DEF SDKBuffers
  <2>3. Next
    BY <1>4, <2>1, <2>2 DEF SDKRead, Next
  <2>4. GuestOK'
    BY <1>4 DEF SDKRead, Stays, Continues, GuestOK
  <2>. QED  BY <2>3, <2>4
<1>5. CASE Take
  <2>1. Compute \/ WasmTrap
    BY <1>5 DEF Take
  <2>2. GuestOK'
    BY <1>5 DEF Take, Stays, GuestOK
  <2>. QED  BY <2>1, <2>2 DEF Next
<1>6. CASE PanicHandler \/ LoopForever
  BY <1>6 DEF PanicHandler, LoopForever, Stays, Next, GuestOK
<1>. QED  BY <1>1, <1>2, <1>3, <1>4, <1>5, <1>6 DEF GuestNext

LEMMA NextGuest ==
  ASSUME GuestOK, [GuestNext]_guestVars
  PROVE  [Next]_vars /\ GuestOK'
<1>1. CASE UNCHANGED guestVars
  BY <1>1 DEF guestVars, vars, GuestOK
<1>. QED  BY <1>1, GuestStep

\* The limits of the caller and the types of the store hold with it.
THEOREM GuestInvariance == GuestSpec => [](IInv /\ GuestOK)
<1>1. GuestInit => IInv /\ GuestOK
  BY InitGuest, InitIInv
<1>2. IInv /\ GuestOK /\ [GuestNext]_guestVars => (IInv /\ GuestOK)'
  BY NextGuest, NextIInv
<1>. QED  BY <1>1, <1>2, PTL DEF GuestSpec

\* No sequence of SDK calls carries out more reads and writes than allowed.
THEOREM KontractLimitsHold == GuestSpec => []LimitsRespected
<1>1. IInv => LimitsRespected
  BY DEF IInv
<1>. QED  BY <1>1, GuestInvariance, PTL

\* write, read and delete of the SDK act on the map of the kontract as promised,
\* and a kontract that panics, loops or is cut off returns a true error.
THEOREM KontractPromiseIsKept == GuestSpec => KeepsPromise
<1>1. GuestInit => Promise!Init
  BY InitGuest, InitPromise
<1>2. IInv /\ GuestOK /\ [GuestNext]_guestVars => [Promise!Next]_Promise!vars
  BY NextGuest, NextPromise
<1>. QED  BY <1>1, <1>2, GuestInvariance, PTL DEF GuestSpec, KeepsPromise, Promise!Spec

\* A kontract executes no more statements than its caller gave it fuel for,
\* also one that loops.
THEOREM KontractsAreBounded ==
  GuestSpec => [][StepsLeft' \in Nat /\ StepsLeft' < StepsLeft]_guestVars
<1>1. IInv /\ GuestOK /\ [GuestNext]_guestVars
        => [StepsLeft' \in Nat /\ StepsLeft' < StepsLeft]_guestVars
  BY GuestStep, EveryStepCounts
<1>. QED  BY <1>1, GuestInvariance, PTL DEF GuestSpec

----------------------------------------------------------------------------
(***************************************************************************)
(* Induction over the statements of a program                              *)
(***************************************************************************)

\* Induction on a set of numbers: of the intervals up to a missing number, one
\* is minimal.
LEMMA InductionOnSets ==
  ASSUME NEW S, 0 \in S, \A n \in Nat : n \in S => n + 1 \in S
  PROVE  Nat \subseteq S
<1>. DEFINE Missing == {n \in Nat : n \notin S}
            Upto == {0 .. n : n \in Missing}
<1>. SUFFICES ASSUME Missing # {}
              PROVE  FALSE
  OBVIOUS
<1>1. Upto \subseteq FiniteSubsetsOf(Nat) /\ Upto # {}
  <2>1. \A n \in Nat : 0 .. n \subseteq Nat
    OBVIOUS
  <2>2. \A n \in Nat : 0 .. n \in FiniteSubsetsOf(Nat)
    BY <2>1, FS_Interval DEF FiniteSubsetsOf
  <2>. QED  BY <2>2
<1>2. PICK U \in Upto : \A V \in Upto : <<V, U>> \notin StrictSubsetOrdering(Nat)
  <2>. HIDE DEF Upto
  <2>1. IsWellFoundedOn(StrictSubsetOrdering(Nat), FiniteSubsetsOf(Nat))
    BY FS_StrictSubsetOrderingWellFounded
  <2>. QED  BY <1>1, <2>1, WFMin
<1>3. PICK n \in Missing : U = 0 .. n
  BY <1>2
<1>4. n # 0 /\ n - 1 \in Nat /\ n - 1 \notin S
  BY <1>3
<1>5. 0 .. (n - 1) \in Upto
  BY <1>4
<1>6. <<0 .. (n - 1), 0 .. n>> \in StrictSubsetOrdering(Nat)
  <2>1. /\ n \in 0 .. n /\ n \notin 0 .. (n - 1)
        /\ 0 .. (n - 1) \subseteq 0 .. n /\ 0 .. n \subseteq Nat
    BY <1>3
  <2>. QED  BY <2>1 DEF StrictSubsetOrdering
<1>. QED  BY <1>2, <1>3, <1>5, <1>6

\* The least element of a set of numbers.
LEMMA LeastElement ==
  ASSUME NEW S \in SUBSET Nat, S # {}
  PROVE  \E i \in S : \A j \in S : i <= j
<1>. DEFINE Below == {n \in Nat : \A j \in S : n <= j}
<1>. SUFFICES ASSUME \A i \in S : \E j \in S : j < i
              PROVE  FALSE
  OBVIOUS
<1>1. 0 \in Below
  OBVIOUS
<1>2. \A n \in Nat : n \in Below => n + 1 \in Below
  OBVIOUS
<1>3. Nat \subseteq Below
  <2>. HIDE DEF Below
  <2>. QED  BY <1>1, <1>2, InductionOnSets
<1>4. PICK i \in S : TRUE
  OBVIOUS
<1>5. i + 1 \in Below
  BY <1>3
<1>. QED  BY <1>5

\* The length of a program.
LEMMA ProgramLength ==
  ASSUME NEW b \in Kontract
  PROVE  /\ Len(Program[b]) \in Nat
         /\ DOMAIN Program[b] = 1 .. Len(Program[b])
         /\ \A i \in 1 .. Len(Program[b]) : StatementOK(Program[b][i])
<1>1. Program[b] \in Seq({Program[b][i] : i \in DOMAIN Program[b]})
  BY GuestAssumption
<1>. QED  BY <1>1, GuestAssumption

\* The recursion of Before ends: there is a function that follows it.
LEMMA BeforeDefined ==
  ASSUME NEW b \in Kontract, NEW s
  PROVE  Before(b, s) =
           [i \in 1 .. Len(Program[b]) + 1 |->
              IF i = 1 THEN Started(s) ELSE After(Program[b][i - 1], Before(b, s)[i - 1])]
<1>. DEFINE End == Len(Program[b]) + 1
            Follows(f, n) ==
              f = [i \in 1 .. n |->
                     IF i = 1 THEN Started(s) ELSE After(Program[b][i - 1], f[i - 1])]
            Reached == {n \in Nat : \E f : Follows(f, n)}
<1>1. 0 \in Reached
  <2>1. Follows([i \in 1 .. 0 |-> 0], 0)
    OBVIOUS
  <2>. QED  BY <2>1
<1>2. ASSUME NEW n \in Nat, n \in Reached
      PROVE  n + 1 \in Reached
  <2>1. PICK f : Follows(f, n)
    BY <1>2
  <2>. DEFINE g == [i \in 1 .. n + 1 |->
                     IF i = 1 THEN Started(s) ELSE After(Program[b][i - 1], f[i - 1])]
  <2>2. ASSUME NEW i \in 1 .. n + 1, i # 1
        PROVE  g[i - 1] = f[i - 1]
    <3>1. i - 1 \in 1 .. n /\ i - 1 \in 1 .. n + 1
      BY <2>2
    <3>2. f[i - 1] = IF i - 1 = 1 THEN Started(s) ELSE After(Program[b][i - 1 - 1], f[i - 1 - 1])
      BY <2>1, <3>1
    <3>3. g[i - 1] = IF i - 1 = 1 THEN Started(s) ELSE After(Program[b][i - 1 - 1], f[i - 1 - 1])
      BY <3>1
    <3>. QED  BY <3>2, <3>3
  <2>3. Follows(g, n + 1)
    BY <2>2
  <2>4. \E h : Follows(h, n + 1)
    <3>. HIDE DEF Follows, g
    <3>. QED  BY <2>3
  <2>. QED  BY <2>4
<1>3. End \in Nat
  BY ProgramLength
<1>4. End \in Reached
  <2>. HIDE DEF Reached, End
  <2>. QED  BY <1>1, <1>2, <1>3, InductionOnSets
<1>5. \E f : Follows(f, End)
  BY <1>4
<1>6. Before(b, s) = CHOOSE f : Follows(f, End)
  BY DEF Before
<1>7. Follows(Before(b, s), End)
  <2>. HIDE DEF Follows
  <2>. QED  BY <1>5, <1>6
<1>. QED  BY <1>7

\* What main starts with, and what a statement makes of it.
LEMMA BeforeSteps ==
  ASSUME NEW b \in Kontract, NEW s
  PROVE  /\ Before(b, s)[1] = Started(s)
         /\ \A i \in 1 .. Len(Program[b]) :
              Before(b, s)[i + 1] = After(Program[b][i], Before(b, s)[i])
<1>. DEFINE End == Len(Program[b]) + 1
<1>1. Len(Program[b]) \in Nat
  BY ProgramLength
<1>2. \A i \in 1 .. End : Before(b, s)[i] =
        IF i = 1 THEN Started(s) ELSE After(Program[b][i - 1], Before(b, s)[i - 1])
  <2>. DEFINE F == Before(b, s)
  <2>1. F = [i \in 1 .. End |->
               IF i = 1 THEN Started(s) ELSE After(Program[b][i - 1], F[i - 1])]
    BY BeforeDefined
  <2>. HIDE DEF F, End
  <2>2. \A i \in 1 .. End :
          F[i] = IF i = 1 THEN Started(s) ELSE After(Program[b][i - 1], F[i - 1])
    BY <2>1
  <2>. QED  BY <2>2 DEF F
<1>3. \A i \in 1 .. Len(Program[b]) : i + 1 \in 1 .. End /\ i + 1 # 1 /\ i + 1 - 1 = i
  BY <1>1
<1>. QED  BY <1>1, <1>2, <1>3

\* What main works on: its storage, the value read last, the value taken last.
Memory == [storage : Storage, read : Value, taken : Value]

\* What a kontract reads is a value.
LEMMA FoundType ==
  ASSUME NEW s \in Storage, NEW k \in GuestKey
  PROVE  Found(s, k) \in Value
<1>1. \A x \in DOMAIN s : s[x] \in Value
  BY DEF Storage
<1>. QED  BY <1>1, ExecutorAssumption DEF Found

\* A statement leaves a storage and two values.
LEMMA AfterType ==
  ASSUME NEW st, StatementOK(st), NEW m \in Memory
  PROVE  After(st, m) \in Memory
<1>1. m.storage \in Storage /\ m.read \in Value /\ m.taken \in Value
  BY DEF Memory
<1>2. CASE st.op = "write"
  <2>1. Blake2[st.key] \in Key /\ st.value[m.taken] \in Value
    BY <1>1, <1>2, ExecutorAssumption DEF StatementOK
  <2>2. Inserted(m.storage, Blake2[st.key], st.value[m.taken]) \in Storage
    BY <1>1, <2>1, StorageChanges
  <2>. QED  BY <1>2, <2>2 DEF After, Memory
<1>3. CASE st.op = "delete"
  <2>1. Blake2[st.key] \in Key
    BY <1>3, ExecutorAssumption DEF StatementOK
  <2>2. Removed(m.storage, Blake2[st.key]) \in Storage
    BY <1>1, <2>1, StorageChanges, ExecutorAssumption
  <2>. QED  BY <1>3, <2>2 DEF After, Memory
<1>4. CASE st.op = "read"
  <2>1. Found(m.storage, st.key) \in Value
    BY <1>1, <1>4, FoundType DEF StatementOK
  <2>. QED  BY <1>4, <2>1 DEF After, Memory
<1>5. CASE st.op \notin {"write", "delete", "read"}
  BY <1>5 DEF After, Memory
<1>. QED  BY <1>2, <1>3, <1>4, <1>5

\* main always works on a storage and two values.
LEMMA BeforeType ==
  ASSUME NEW b \in Kontract, NEW s \in Storage, NEW i \in 1 .. Len(Program[b]) + 1
  PROVE  Before(b, s)[i] \in Memory
<1>. DEFINE End == Len(Program[b]) + 1
            Typed == {n \in Nat : n + 1 \in 1 .. End => Before(b, s)[n + 1] \in Memory}
<1>1. Len(Program[b]) \in Nat
  BY ProgramLength
<1>2. 0 \in Typed
  <2>1. Started(s) \in Memory
    BY ExecutorAssumption DEF Started, Memory
  <2>. QED  BY <2>1, BeforeSteps
<1>3. ASSUME NEW n \in Nat, n \in Typed
      PROVE  n + 1 \in Typed
  <2>. SUFFICES ASSUME n + 2 \in 1 .. End
                PROVE  Before(b, s)[n + 2] \in Memory
    OBVIOUS
  <2>1. n + 1 \in 1 .. Len(Program[b]) /\ n + 1 \in 1 .. End
    BY <1>1
  <2>2. Before(b, s)[n + 2] = After(Program[b][n + 1], Before(b, s)[n + 1])
    <3>1. Before(b, s)[n + 1 + 1] = After(Program[b][n + 1], Before(b, s)[n + 1])
      BY <2>1, BeforeSteps
    <3>. QED  BY <3>1
  <2>3. StatementOK(Program[b][n + 1]) /\ Before(b, s)[n + 1] \in Memory
    BY <1>3, <2>1, ProgramLength
  <2>. QED  BY <2>2, <2>3, AfterType
<1>4. Nat \subseteq Typed
  <2>. HIDE DEF Typed
  <2>. QED  BY <1>2, <1>3, InductionOnSets
<1>5. i - 1 \in Nat /\ i - 1 + 1 = i
  BY <1>1
<1>. QED  BY <1>4, <1>5
\* The limits are numbers.
LEMMA BudgetType ==
  ASSUME NEW g \in GuestBudget
  PROVE  g.fuel \in Nat /\ g.read \in Nat /\ g.write \in Nat
<1>1. Fuel \subseteq 0 .. Word - 1 /\ Limit \subseteq 0 .. Word - 1
  BY ExecutorAssumption
<1>2. g.fuel \in 0 .. Word - 1 /\ g.read \in 0 .. Word - 1 /\ g.write \in 0 .. Word - 1
  BY <1>1 DEF GuestBudget
<1>. QED  BY <1>2, WordType

\* One more statement counts if it is of one of the kinds.
LEMMA CountStep ==
  ASSUME NEW b \in Kontract, NEW ops, NEW i \in 1 .. Len(Program[b])
  PROVE  /\ Count(b, ops, i - 1) \in Nat
         /\ Count(b, ops, i) = Count(b, ops, i - 1) + IF Program[b][i].op \in ops THEN 1 ELSE 0
<1>. DEFINE C(n) == {j \in 1 .. n : Program[b][j].op \in ops}
<1>1. i \in Nat \ {0}
  BY ProgramLength
<1>2. IsFiniteSet(C(i - 1)) /\ Cardinality(C(i - 1)) \in Nat
  <2>1. IsFiniteSet(1 .. i - 1) /\ C(i - 1) \subseteq 1 .. i - 1
    BY <1>1, FS_Interval
  <2>2. IsFiniteSet(C(i - 1))
    BY <2>1, FS_Subset
  <2>. QED  BY <2>2, FS_CardinalityType
<1>3. Count(b, ops, i) = Cardinality(C(i)) /\ Count(b, ops, i - 1) = Cardinality(C(i - 1))
  BY DEF Count
<1>4. CASE Program[b][i].op \in ops
  <2>1. C(i) = C(i - 1) \cup {i} /\ i \notin C(i - 1)
    BY <1>1, <1>4
  <2>2. Cardinality(C(i)) = Cardinality(C(i - 1)) + 1
    <3>. HIDE DEF C
    <3>. QED  BY <1>2, <2>1, FS_AddElement
  <2>. HIDE DEF C
  <2>. QED  BY <1>2, <1>3, <1>4, <2>2
<1>5. CASE Program[b][i].op \notin ops
  <2>1. C(i) = C(i - 1)
    BY <1>1, <1>5
  <2>. HIDE DEF C
  <2>. QED  BY <1>2, <1>3, <1>5, <2>1
<1>. QED  BY <1>4, <1>5

LEMMA CountNothing ==
  ASSUME NEW b, NEW ops
  PROVE  Count(b, ops, 0) = 0
<1>1. {j \in 1 .. 0 : Program[b][j].op \in ops} = {}
  OBVIOUS
<1>. QED  BY <1>1, FS_EmptySet DEF Count

----------------------------------------------------------------------------
(***************************************************************************)
(* What stops a statement, kind by kind                                    *)
(***************************************************************************)

\* The fuel stops any statement, and nothing else stops a loop.
LEMMA StoppedByFuel ==
  ASSUME NEW b \in Kontract, NEW s, NEW g \in GuestBudget, NEW i \in 1 .. Len(Program[b]) + 1,
         i > g.fuel \/ (i <= Len(Program[b]) /\ Program[b][i].op = "loop")
  PROVE  Stopped(b, s, g, i) = Error("OutOfFuel")
<1>1. i \in Nat /\ Len(Program[b]) \in Nat /\ g.fuel \in Nat
  BY ProgramLength, BudgetType
<1>2. CASE i > g.fuel
  <2>1. ~(i <= g.fuel)
    BY <1>1, <1>2
  <2>. QED  BY <1>2, <2>1 DEF Stopped
<1>3. CASE i <= Len(Program[b]) /\ Program[b][i].op = "loop"
  BY <1>1, <1>3 DEF Stopped
<1>. QED  BY <1>2, <1>3

\* The limit of the writes stops a write or a deletion.
LEMMA StoppedModifying ==
  ASSUME NEW b \in Kontract, NEW s, NEW g \in GuestBudget, NEW i \in 1 .. Len(Program[b]),
         i <= g.fuel, Program[b][i].op \in {"write", "delete"}
  PROVE  Stopped(b, s, g, i) =
           IF Count(b, {"write", "delete"}, i) > g.write THEN Error("OutOfWrites") ELSE NoResult
<1>1. i \in Nat /\ Len(Program[b]) \in Nat /\ i <= Len(Program[b])
  BY ProgramLength
<1>2. g.fuel \in Nat
  BY BudgetType
<1>. QED  BY <1>1, <1>2 DEF Stopped

\* The limit of the reads stops a read, or what is found is not delivered.
LEMMA StoppedReading ==
  ASSUME NEW b \in Kontract, NEW s, NEW g \in GuestBudget, NEW i \in 1 .. Len(Program[b]),
         i <= g.fuel, Program[b][i].op = "read",
         NEW length \in Nat,
         length = Length[Found(Before(b, s)[i].storage, Program[b][i].key)],
         Count(b, {"read"}, i) \in Nat
  PROVE  Stopped(b, s, g, i) =
           IF Count(b, {"read"}, i) > g.read THEN Error("OutOfReads")
           ELSE IF length > MaxValueBytes THEN Error("WasmPanic")
           ELSE IF length >= 64 THEN [state |-> "HostPanic"]
           ELSE NoResult
<1>1. i \in Nat /\ Len(Program[b]) \in Nat /\ i <= Len(Program[b])
  BY ProgramLength
<1>2. g.fuel \in Nat /\ g.read \in Nat
  BY BudgetType
<1>3. \A n \in Nat : n \in 64 .. MaxValueBytes <=> n >= 64 /\ ~(n > MaxValueBytes)
  BY DEF MaxValueBytes
<1>4. Count(b, {"read"}, i) <= g.read <=> ~(Count(b, {"read"}, i) > g.read)
  BY <1>2
<1>. QED  BY <1>1, <1>2, <1>3, <1>4 DEF Stopped

\* A value that cannot be decoded stops what is computed from it.
LEMMA StoppedTaking ==
  ASSUME NEW b \in Kontract, NEW s, NEW g \in GuestBudget, NEW i \in 1 .. Len(Program[b]),
         i <= g.fuel, Program[b][i].op = "take"
  PROVE  Stopped(b, s, g, i) =
           IF Program[b][i].taken[Before(b, s)[i].read] \in Value THEN NoResult
           ELSE Error("WasmPanic")
<1>1. i \in Nat /\ Len(Program[b]) \in Nat /\ i <= Len(Program[b])
  BY ProgramLength
<1>2. g.fuel \in Nat
  BY BudgetType
<1>. QED  BY <1>1, <1>2 DEF Stopped

\* A panic stops the kontract, and the end of main is reached.
LEMMA StoppedOtherwise ==
  ASSUME NEW b \in Kontract, NEW s, NEW g \in GuestBudget
  PROVE  /\ \A i \in 1 .. Len(Program[b]) :
              i <= g.fuel /\ Program[b][i].op = "panic" =>
                Stopped(b, s, g, i) = Error("WasmPanic")
         /\ Len(Program[b]) + 1 <= g.fuel =>
              Stopped(b, s, g, Len(Program[b]) + 1) = NoResult
<1>1. Len(Program[b]) \in Nat /\ \A i \in 1 .. Len(Program[b]) : i \in Nat /\ i <= Len(Program[b])
  BY ProgramLength
<1>2. g.fuel \in Nat
  BY BudgetType
<1>. QED  BY <1>1, <1>2 DEF Stopped

\* The first thing that stops the kontract is the outcome.
LEMMA FirstStop ==
  ASSUME NEW b \in Kontract, NEW s, NEW g, b \notin DOMAIN LoadError,
         NEW i \in 1 .. Len(Program[b]) + 1,
         \A j \in 1 .. i - 1 : Stopped(b, s, g, j) = NoResult,
         Stopped(b, s, g, i) # NoResult
  PROVE  Outcome(b, s, g) = Stopped(b, s, g, i)
<1>. DEFINE stops == {j \in 1 .. Len(Program[b]) + 1 : Stopped(b, s, g, j) # NoResult}
            first == CHOOSE k \in stops : \A j \in stops : k <= j
<1>1. Len(Program[b]) \in Nat
  BY ProgramLength
<1>2. i \in stops /\ \A j \in stops : i <= j
  BY <1>1
<1>3. first = i
  <2>1. first \in stops /\ \A j \in stops : first <= j
    <3>. HIDE DEF stops
    <3>. QED  BY <1>2
  <2>2. first <= i /\ i <= first /\ first \in Int /\ i \in Int
    BY <1>1, <1>2, <2>1
  <2>. HIDE DEF first
  <2>. QED  BY <2>2
<1>4. stops # {}
  BY <1>2
<1>5. Outcome(b, s, g) = Stopped(b, s, g, first)
  BY <1>4 DEF Outcome
<1>. QED  BY <1>3, <1>5

\* A kontract that nothing stops returns its storage.
LEMMA NoStop ==
  ASSUME NEW b \in Kontract, NEW s, NEW g, b \notin DOMAIN LoadError,
         \A j \in 1 .. Len(Program[b]) + 1 : Stopped(b, s, g, j) = NoResult
  PROVE  Outcome(b, s, g) = [state |-> "Ok", storage |-> Before(b, s)[Len(Program[b]) + 1].storage]
<1>1. {j \in 1 .. Len(Program[b]) + 1 : Stopped(b, s, g, j) # NoResult} = {}
  OBVIOUS
<1>. QED  BY <1>1 DEF Outcome
----------------------------------------------------------------------------
(***************************************************************************)
(* The execution comes to its outcome                                      *)
(***************************************************************************)

\* The limits of the call are those of its store.
CallOK ==
  /\ call.storage \in Storage
  /\ call.budget \in GuestBudget
  /\ store.max_n_read = call.budget.read /\ store.max_n_write = call.budget.write

\* What main works on now.
Now == [storage |-> store.storage, read |-> buffer.value, taken |-> taken]

\* No statement has been executed yet.
BeforeMain ==
  /\ pc = 1 /\ Now = Started(call.storage)
  /\ store.curr_n_read = 0 /\ store.curr_n_write = 0
  /\ fuel = call.budget.fuel

\* Why the statement before which main is, if it is the i-th, is not completed.
StoppedAt(i) == Stopped(call.code, call.storage, call.budget, i)

\* The statements before pc have been executed, each for a unit of fuel, and
\* the execution is where Before puts it.
InMain ==
  /\ call.code \notin DOMAIN LoadError
  /\ pc <= Len(Statements) + 1
  /\ Now = Before(call.code, call.storage)[pc]
  /\ store.curr_n_read = Count(call.code, {"read"}, pc - 1)
  /\ store.curr_n_write = Count(call.code, {"write", "delete"}, pc - 1)
  /\ fuel = call.budget.fuel - (pc - 1) \/ At("loop")
  /\ \A i \in 1 .. pc - 1 : StoppedAt(i) = NoResult

\* The execution is on its way to the outcome, or has come to it.
OInv ==
  /\ CallOK
  /\ phase \in {"module", "instantiate", "entry", "main", "done"}
  /\ phase \in {"instantiate", "entry"} => ~Unloadable(call.code, "module")
  /\ phase = "entry" => ~Unloadable(call.code, "instantiate")
  /\ phase \in {"module", "instantiate", "entry"} => BeforeMain
  /\ phase = "main" => InMain
  /\ OutcomeIsFunction

\* What there is to know of an execution of a kontract.
GInv == IInv /\ GuestOK /\ OInv

\* The errors that end an execution are not the result of one that goes on.
LEMMA ErrorIsResult ==
  /\ \A e : Error(e) # NoResult
  /\ [state |-> "HostPanic"] # NoResult
BY DEF Error, NoResult

\* A binary that passes the three phases of the loading can be loaded.
LEMMA Loadable ==
  ASSUME NEW b \in Kontract,
         ~Unloadable(b, "module"), ~Unloadable(b, "instantiate"), ~Unloadable(b, "entry")
  PROVE  b \notin DOMAIN LoadError
<1>1. DOMAIN LoadErrorOf = {"module", "instantiate", "entry"}
  BY DEF LoadErrorOf
<1>. QED  BY <1>1, GuestAssumption DEF Unloadable

\* A binary fails to load for its own reason, or goes on unless it has one.
LEMMA LoadsStep ==
  ASSUME GInv, Loads
  PROVE  OInv'
<1>1. /\ call' = call /\ pc' = pc /\ taken' = taken
      /\ UNCHANGED <<store, fuel, buffer, served>>
      /\ phase \in {"module", "instantiate", "entry"}
  BY DEF Loads, Stays, NewModule, Instantiate, GetTypedFunc
<1>2. CallOK' /\ BeforeMain
  BY <1>1 DEF GInv, OInv, CallOK
<1>3. Now' = Now
  BY <1>1 DEF Now
<1>4. BeforeMain'
  BY <1>1, <1>2, <1>3 DEF BeforeMain
<1>5. result' = IF Unloadable(call.code, phase) THEN Error(LoadError[call.code]) ELSE NoResult
  BY DEF Loads
<1>6. CASE phase' = "done"
  <2>1. result' # NoResult
    BY <1>1, <1>6, ErrorIsResult DEF Loads, NewModule, Instantiate, GetTypedFunc, Ends
  <2>2. call.code \in DOMAIN LoadError /\ result' = Error(LoadError[call.code])
    BY <1>5, <2>1 DEF Unloadable
  <2>3. OutcomeIsFunction'
    BY <1>1, <2>2 DEF OutcomeIsFunction, Outcome
  <2>. QED  BY <1>2, <1>6, <2>3 DEF OInv
<1>7. CASE phase' # "done"
  <2>1. result = NoResult
    BY <1>1 DEF GInv, IInv
  <2>2. /\ result' = result
        /\ \/ phase = "module" /\ phase' = "instantiate"
           \/ phase = "instantiate" /\ phase' = "entry"
           \/ phase = "entry" /\ phase' = "main"
    BY <1>7 DEF Loads, NewModule, Instantiate, GetTypedFunc, Ends
  <2>3. ~Unloadable(call.code, phase)
    BY <1>5, <2>1, <2>2, ErrorIsResult
  <2>4. OutcomeIsFunction'
    BY <1>7 DEF OutcomeIsFunction
  <2>5. CASE phase' # "main"
    BY <1>1, <1>2, <1>4, <2>2, <2>3, <2>4, <2>5 DEF GInv, OInv, Unloadable
  <2>6. CASE phase' = "main"
    <3>1. call.code \in Kontract /\ call.code \notin DOMAIN LoadError
      BY <2>2, <2>3, <2>6, Loadable DEF GInv, GuestOK, OInv
    <3>2. pc' <= Len(Statements') + 1
      BY <1>1, <1>2, <3>1, ProgramLength DEF BeforeMain, Statements
    <3>3. Now' = Before(call.code, call.storage)[pc]
      BY <1>2, <1>3, <3>1, BeforeSteps DEF BeforeMain
    <3>4. pc - 1 = 0 /\ 1 .. pc - 1 = {}
      BY <1>2 DEF BeforeMain
    <3>5. /\ store.curr_n_read = Count(call.code, {"read"}, pc - 1)
          /\ store.curr_n_write = Count(call.code, {"write", "delete"}, pc - 1)
      BY <1>2, <3>4, CountNothing DEF BeforeMain
    <3>6. fuel = call.budget.fuel - (pc - 1)
      BY <1>2, <3>4, BudgetType DEF BeforeMain, GInv, OInv, CallOK
    <3>7. InMain'
      BY <1>1, <3>1, <3>2, <3>3, <3>4, <3>5, <3>6 DEF InMain
    <3>. QED  BY <1>2, <2>4, <2>6, <3>7 DEF OInv
  <2>. QED  BY <2>5, <2>6
<1>. QED  BY <1>6, <1>7

\* Whatever main does, its call and its program stay.
LEMMA MainFacts ==
  ASSUME GInv, phase = "main"
  PROVE  /\ call.code \in Kontract /\ call.storage \in Storage /\ call.budget \in GuestBudget
         /\ CallOK /\ InMain
         /\ pc \in 1 .. Len(Statements) + 1
         /\ pc <= Len(Statements) => pc \in 1 .. Len(Program[call.code])
         /\ Len(Statements) \in Nat /\ call.budget.fuel \in Nat /\ fuel \in Nat
         /\ Now \in Memory
<1>1. /\ call.code \in Kontract /\ call.storage \in Storage /\ call.budget \in GuestBudget
      /\ CallOK /\ InMain /\ pc \in Nat \ {0} /\ fuel \in Nat
  BY DEF GInv, GuestOK, OInv, CallOK, IInv, TypeOK
<1>2. Len(Statements) \in Nat /\ call.budget.fuel \in Nat
  BY <1>1, ProgramLength, BudgetType DEF Statements
<1>3. pc \in 1 .. Len(Statements) + 1
  BY <1>1, <1>2 DEF InMain
<1>4. Now \in Memory
  BY <1>1, <1>3, BeforeType DEF InMain, Statements
<1>. QED  BY <1>1, <1>2, <1>3, <1>4 DEF Statements

\* What stops the statement before which main is gives the outcome.
LEMMA MainStops ==
  ASSUME GInv, phase = "main", StoppedAt(pc) # NoResult,
         result' = StoppedAt(pc), phase' = "done", call' = call,
         store'.max_n_read = store.max_n_read, store'.max_n_write = store.max_n_write
  PROVE  OInv'
<1>1. Outcome(call.code, call.storage, call.budget) = StoppedAt(pc)
  BY MainFacts, FirstStop DEF InMain, StoppedAt, Statements
<1>2. OutcomeIsFunction'
  BY <1>1 DEF OutcomeIsFunction
<1>3. CallOK'
  BY MainFacts DEF CallOK
<1>. QED  BY <1>2, <1>3 DEF OInv

\* A statement that nothing stops is executed for a unit of fuel.
LEMMA MainContinues ==
  ASSUME GInv, phase = "main", pc <= Len(Statements), Statement.op # "loop",
         Burns, StoppedAt(pc) = NoResult,
         phase' = phase, call' = call, pc' = pc + 1,
         Now' = After(Statement, Now),
         store'.max_n_read = store.max_n_read, store'.max_n_write = store.max_n_write,
         store'.curr_n_read = store.curr_n_read + IF Statement.op = "read" THEN 1 ELSE 0,
         store'.curr_n_write =
           store.curr_n_write + IF Statement.op \in {"write", "delete"} THEN 1 ELSE 0
  PROVE  OInv'
<1>1. /\ call.code \in Kontract /\ pc \in 1 .. Len(Program[call.code])
      /\ Len(Program[call.code]) \in Nat /\ call.budget.fuel \in Nat /\ InMain
      /\ Statement = Program[call.code][pc]
  BY MainFacts DEF Statement, Statements
<1>2. CallOK' /\ OutcomeIsFunction'
  BY MainFacts DEF CallOK, OutcomeIsFunction
<1>3. pc' <= Len(Statements') + 1
  BY <1>1 DEF Statements
<1>4. Now' = Before(call.code, call.storage)[pc + 1]
  BY <1>1, BeforeSteps DEF InMain
<1>5. pc' - 1 = pc
  BY <1>1
<1>6. store'.curr_n_read = Count(call.code, {"read"}, pc)
  BY <1>1, CountStep DEF InMain
<1>7. store'.curr_n_write = Count(call.code, {"write", "delete"}, pc)
  BY <1>1, CountStep DEF InMain
<1>8. fuel' = call.budget.fuel - pc
  BY <1>1 DEF InMain, Burns, At, Statement
<1>9. \A i \in 1 .. pc : StoppedAt(i) = NoResult
  <2>1. \A i \in 1 .. pc : i = pc \/ i \in 1 .. pc - 1
    BY <1>1
  <2>. QED  BY <1>1, <2>1 DEF InMain
<1>10. InMain'
  <2>1. (\A i \in 1 .. pc - 1 : StoppedAt(i) = NoResult)'
    BY <1>5, <1>9 DEF StoppedAt
  <2>2. fuel' = call'.budget.fuel - (pc' - 1)
    BY <1>5, <1>8
  <2>3. /\ store'.curr_n_read = Count(call'.code, {"read"}, pc' - 1)
        /\ store'.curr_n_write = Count(call'.code, {"write", "delete"}, pc' - 1)
    BY <1>5, <1>6, <1>7
  <2>4. call'.code \notin DOMAIN LoadError
    BY <1>1 DEF InMain
  <2>5. Now' = Before(call'.code, call'.storage)[pc']
    BY <1>4
  <2>. QED  BY <1>3, <2>1, <2>2, <2>3, <2>4, <2>5 DEF InMain
<1>. QED  BY <1>2, <1>10 DEF OInv
\* What a host call that ends main reports.
LEMMA TrapInMain ==
  ASSUME phase = "main"
  PROVE  \A reason :
           Traps(reason) => phase' = "done" /\ result' = Error(TrapError(reason))
BY DEF Traps, Ends

LEMMA TrapErrors ==
  /\ TrapError("all fuel consumed by WebAssembly") = "OutOfFuel"
  /\ TrapError("ExceededReads") = "OutOfReads" /\ TrapError("ExceededWrites") = "OutOfWrites"
  /\ \A reason \in OtherTraps : TrapError(reason) = "WasmPanic"
BY DEF TrapError, OtherTraps

\* A statement that is executed is one that the fuel does not stop.
LEMMA FuelLeft ==
  ASSUME GInv, phase = "main", Burns, ~At("loop")
  PROVE  pc <= call.budget.fuel
<1>1. /\ fuel = call.budget.fuel - (pc - 1) /\ fuel \in Nat /\ fuel > 0
      /\ call.budget.fuel \in Nat /\ pc \in Int
  BY MainFacts DEF InMain, Burns
<1>. QED  BY <1>1

\* The counter of the writes and the count of the statements, and the same for
\* the reads.
LEMMA CountersInMain ==
  ASSUME GInv, phase = "main", fuel > 0, pc <= Len(Statements)
  PROVE  /\ Statement.op \in {"write", "delete"} =>
              Counted(store.curr_n_write) = Count(call.code, {"write", "delete"}, pc)
         /\ Statement.op = "read" =>
              Counted(store.curr_n_read) = Count(call.code, {"read"}, pc)
         /\ Count(call.code, {"write", "delete"}, pc) \in Nat
         /\ Count(call.code, {"read"}, pc) \in Nat
         /\ Counted(store.curr_n_write) = store.curr_n_write + 1
         /\ Counted(store.curr_n_read) = store.curr_n_read + 1
         /\ store.max_n_read \in Nat /\ store.max_n_write \in Nat
<1>1. /\ Counted(store.curr_n_write) = store.curr_n_write + 1
      /\ Counted(store.curr_n_read) = store.curr_n_read + 1
  BY CountedExact DEF GInv
<1>2. call.code \in Kontract /\ pc \in 1 .. Len(Program[call.code]) /\ InMain
  BY MainFacts
<1>3. Statement = Program[call.code][pc]
  BY DEF Statement, Statements
<1>4. store.max_n_read \in Nat /\ store.max_n_write \in Nat
  BY MainFacts, BudgetType DEF CallOK
<1>5. /\ Count(call.code, {"write", "delete"}, pc - 1) \in Nat
      /\ Count(call.code, {"write", "delete"}, pc) =
           Count(call.code, {"write", "delete"}, pc - 1)
             + IF Statement.op \in {"write", "delete"} THEN 1 ELSE 0
  BY <1>2, <1>3, CountStep
<1>6. /\ Count(call.code, {"read"}, pc - 1) \in Nat
      /\ Count(call.code, {"read"}, pc) =
           Count(call.code, {"read"}, pc - 1) + IF Statement.op \in {"read"} THEN 1 ELSE 0
  BY <1>2, <1>3, CountStep
<1>7. /\ store.curr_n_read = Count(call.code, {"read"}, pc - 1)
      /\ store.curr_n_write = Count(call.code, {"write", "delete"}, pc - 1)
  BY <1>2 DEF InMain
<1>. QED  BY <1>1, <1>4, <1>5, <1>6, <1>7

\* The end of main is reached.
LEMMA ReturnsStep ==
  ASSUME GInv, MainReturns
  PROVE  OInv'
<1>1. /\ phase = "main" /\ pc > Len(Statements) /\ fuel > 0
      /\ phase' = "done" /\ result' = [state |-> "Ok", storage |-> store.storage]
      /\ call' = call /\ store' = store
  BY DEF MainReturns, Returns, Stays, Ends
<1>2. /\ call.code \in Kontract /\ call.budget \in GuestBudget /\ InMain
      /\ pc = Len(Statements) + 1 /\ Len(Statements) \in Nat
      /\ call.budget.fuel \in Nat /\ fuel \in Nat
  BY <1>1, MainFacts
<1>3. ~At("loop")
  BY <1>1, <1>2 DEF At
<1>4. pc <= call.budget.fuel
  BY <1>1, <1>2, <1>3 DEF InMain
<1>5. StoppedAt(pc) = NoResult
  BY <1>2, <1>4, StoppedOtherwise DEF StoppedAt, Statements
<1>6. \A i \in 1 .. Len(Statements) + 1 : StoppedAt(i) = NoResult
  <2>1. \A i \in 1 .. Len(Statements) + 1 : i = pc \/ i \in 1 .. pc - 1
    BY <1>2
  <2>. QED  BY <1>2, <1>5, <2>1 DEF InMain
<1>7. Outcome(call.code, call.storage, call.budget) =
        [state |-> "Ok", storage |-> Before(call.code, call.storage)[pc].storage]
  BY <1>2, <1>6, NoStop DEF InMain, StoppedAt, Statements
<1>8. Before(call.code, call.storage)[pc].storage = store.storage
  BY <1>2 DEF InMain, Now
<1>9. OutcomeIsFunction'
  BY <1>1, <1>7, <1>8 DEF OutcomeIsFunction
<1>10. CallOK'
  BY <1>1 DEF GInv, OInv, CallOK
<1>. QED  BY <1>1, <1>9, <1>10 DEF OInv

\* The fuel is used up before the next statement, or in a loop.
LEMMA FuelStep ==
  ASSUME GInv, FuelRunsOut
  PROVE  OInv'
<1>1. /\ phase = "main" /\ fuel = 0 /\ call' = call /\ store' = store
      /\ phase' = "done" /\ result' = Error("OutOfFuel")
  BY TrapInMain, TrapErrors DEF FuelRunsOut, OutOfFuel, Stays
<1>2. /\ call.code \in Kontract /\ call.budget \in GuestBudget /\ InMain
      /\ pc \in 1 .. Len(Statements) + 1 /\ Len(Statements) \in Nat
      /\ call.budget.fuel \in Nat
  BY <1>1, MainFacts
<1>3. pc > call.budget.fuel \/ (pc <= Len(Statements) /\ Statements[pc].op = "loop")
  BY <1>1, <1>2 DEF InMain, At
<1>4. StoppedAt(pc) = Error("OutOfFuel")
  BY <1>2, <1>3, StoppedByFuel DEF StoppedAt, Statements
<1>. QED  BY <1>1, <1>4, MainStops, ErrorIsResult

\* A write or a deletion is counted, and carried out or turned down.
LEMMA ModifyStep ==
  ASSUME GInv, NEW op \in {"write", "delete"}, At(op), NEW storage,
         \/ /\ Modifies(storage) /\ Continues
            /\ [Now EXCEPT !.storage = storage] = After(Statement, Now)
         \/ ExceedsWrites /\ Stays
  PROVE  OInv'
<1>1. /\ phase = "main" /\ pc <= Len(Statements) /\ Statement.op = op
      /\ Statement = Program[call.code][pc]
  BY DEF At, Statement, Statements
<1>2. Burns /\ fuel > 0
  BY DEF Modifies, ExceedsWrites, Burns
<1>3. ~At("loop")
  BY <1>1 DEF At, Statement
<1>4. /\ call.code \in Kontract /\ call.budget \in GuestBudget /\ CallOK
      /\ pc \in 1 .. Len(Program[call.code]) /\ pc <= call.budget.fuel
  BY <1>1, <1>2, <1>3, MainFacts, FuelLeft
<1>5. StoppedAt(pc) = IF Counted(store.curr_n_write) > store.max_n_write
                      THEN Error("OutOfWrites") ELSE NoResult
  BY <1>1, <1>2, <1>4, CountersInMain, StoppedModifying DEF StoppedAt, CallOK
<1>6. Counted(store.curr_n_write) \in Nat /\ store.max_n_write \in Nat
  BY <1>1, <1>2, CountersInMain
<1>7. CASE Modifies(storage) /\ Continues /\ [Now EXCEPT !.storage = storage] = After(Statement, Now)
  <2>1. StoppedAt(pc) = NoResult
    BY <1>5, <1>6, <1>7 DEF Modifies, Allowed
  <2>2. store \in KontractStore /\ store' = [store EXCEPT !.curr_n_write = Counted(@), !.storage = storage]
    BY <1>7 DEF Modifies, GInv, IInv, TypeOK
  <2>3. /\ store'.max_n_read = store.max_n_read /\ store'.max_n_write = store.max_n_write
        /\ store'.curr_n_read = store.curr_n_read
        /\ store'.curr_n_write = Counted(store.curr_n_write) /\ store'.storage = storage
    BY <2>2 DEF KontractStore
  <2>4. store'.curr_n_write = store.curr_n_write + 1 /\ store.curr_n_read + 0 = store.curr_n_read
    BY <1>1, <1>2, <2>2, <2>3, CountersInMain, WordType DEF KontractStore
  <2>5. Now' = After(Statement, Now)
    BY <1>7, <2>3 DEF Modifies, Continues, Now
  <2>6. phase' = phase /\ call' = call /\ pc' = pc + 1
    BY <1>7 DEF Modifies, Continues
  <2>7. Statement.op # "read" /\ Statement.op # "loop"
    BY <1>1
  <2>. QED  BY <1>1, <1>2, <2>1, <2>3, <2>4, <2>5, <2>6, <2>7, MainContinues
<1>8. CASE ExceedsWrites /\ Stays
  <2>1. /\ phase' = "done" /\ result' = Error("OutOfWrites")
        /\ call' = call /\ store' = store
    BY <1>1, <1>8, TrapInMain, TrapErrors DEF ExceedsWrites, Stays
  <2>2. StoppedAt(pc) = Error("OutOfWrites")
    BY <1>5, <1>6, <1>8 DEF ExceedsWrites, Allowed
  <2>. QED  BY <1>1, <2>1, <2>2, MainStops, ErrorIsResult
<1>. QED  BY <1>7, <1>8

LEMMA WriteStep ==
  ASSUME GInv, SDKWrite
  PROVE  OInv'
<1>. DEFINE storage == Inserted(store.storage, Blake2[Statement.key], Statement.value[taken])
<1>1. At("write") /\ Statement.op = "write"
  BY DEF SDKWrite, At, Statement
<1>2. [Now EXCEPT !.storage = storage] = After(Statement, Now)
  BY <1>1 DEF After, Now
<1>3. (Modifies(storage) /\ Continues) \/ (ExceedsWrites /\ Stays)
  BY DEF SDKWrite, Set
<1>. HIDE DEF storage
<1>. QED  BY <1>1, <1>2, <1>3, ModifyStep

LEMMA DeleteStep ==
  ASSUME GInv, SDKDelete
  PROVE  OInv'
<1>. DEFINE storage == Removed(store.storage, Blake2[Statement.key])
<1>1. At("delete") /\ Statement.op = "delete"
  BY DEF SDKDelete, At, Statement
<1>2. [Now EXCEPT !.storage = storage] = After(Statement, Now)
  BY <1>1 DEF After, Now
<1>3. (Modifies(storage) /\ Continues) \/ (ExceedsWrites /\ Stays)
  BY DEF SDKDelete, Remove
<1>. HIDE DEF storage
<1>. QED  BY <1>1, <1>2, <1>3, ModifyStep
\* The buffer of the SDK takes a value of up to MaxValueBytes, and what is
\* written into it is as long as the encoding when the value is short.
LEMMA SDKBufferFits ==
  ASSUME NEW b \in SDKBuffers, NEW v \in Value
  PROVE  /\ Length[v] \in Nat
         /\ b.size < Length[v] <=> Length[v] > MaxValueBytes
         /\ b.size >= Length[v] <=> ~(Length[v] > MaxValueBytes)
         /\ b.size >= Length[v] => (Copies(v, b) <=> ~(Length[v] >= 64))
<1>1. /\ b.size = 100 /\ b.size \in Nat /\ b.room \in Nat /\ b.room > 100
      /\ Length[v] \in Nat
  BY ExecutorAssumption, StorageAssumption DEF SDKBuffers, MaxValueBytes
<1>2. CompactLength(Length[v]) = 1 <=> ~(Length[v] >= 64)
  BY <1>1 DEF CompactLength
<1>3. CompactLength(Length[v]) \in Nat
  BY DEF CompactLength
<1>4. Slice(v) = EncodedLength(Length[v]) <=> CompactLength(Length[v]) = 1
  BY <1>1, <1>3 DEF Slice, EncodedLength
<1>5. b.size >= Length[v] => Slice(v) <= b.room
  BY <1>1 DEF Slice
<1>. QED  BY <1>1, <1>2, <1>4, <1>5 DEF Copies, MaxValueBytes

\* A read is counted, and delivered, turned down, or in vain.
LEMMA ReadStep ==
  ASSUME GInv, SDKRead
  PROVE  OInv'
<1>1. /\ phase = "main" /\ pc <= Len(Statements) /\ Statement.op = "read"
      /\ Statement = Program[call.code][pc] /\ Statement.key \in GuestKey
  BY StatementReached DEF GInv, SDKRead, At, Statement, Statements, StatementOK
<1>2. Burns /\ fuel > 0
  BY DEF SDKRead, Get, ExceedsReads, Burns
<1>3. ~At("loop")
  BY <1>1 DEF At, Statement
<1>4. /\ call.code \in Kontract /\ call.budget \in GuestBudget /\ CallOK /\ InMain
      /\ pc \in 1 .. Len(Program[call.code]) /\ pc <= call.budget.fuel
  BY <1>1, <1>2, <1>3, MainFacts, FuelLeft
<1>. DEFINE v == Stored(Statement.key)
<1>5. /\ v = Found(store.storage, Statement.key) /\ v \in Value
      /\ v = Found(Before(call.code, call.storage)[pc].storage, Program[call.code][pc].key)
  <2>1. v = Found(store.storage, Statement.key)
    BY DEF Stored, Found
  <2>2. store.storage = Before(call.code, call.storage)[pc].storage
    BY <1>4 DEF InMain, Now
  <2>3. store.storage \in Storage
    BY DEF GInv, IInv, TypeOK, KontractStore
  <2>. QED  BY <1>1, <2>1, <2>2, <2>3, FoundType
<1>. HIDE DEF v
<1>6. Length[v] \in Nat
  BY <1>5, StorageAssumption
<1>7. /\ Counted(store.curr_n_read) = Count(call.code, {"read"}, pc)
      /\ Counted(store.curr_n_read) = store.curr_n_read + 1
      /\ Counted(store.curr_n_read) \in Nat /\ store.max_n_read \in Nat
      /\ store.max_n_read = call.budget.read
  BY <1>1, <1>2, <1>4, CountersInMain DEF CallOK
<1>8. StoppedAt(pc) = IF Counted(store.curr_n_read) > store.max_n_read THEN Error("OutOfReads")
                      ELSE IF Length[v] > MaxValueBytes THEN Error("WasmPanic")
                      ELSE IF Length[v] >= 64 THEN [state |-> "HostPanic"]
                      ELSE NoResult
  BY <1>1, <1>4, <1>5, <1>6, <1>7, StoppedReading DEF StoppedAt
<1>9. ASSUME NEW b \in SDKBuffers, Get(Statement.key, b)
      PROVE  OInv'
  <2>1. ~(Counted(store.curr_n_read) > store.max_n_read)
    <3>1. Counted(store.curr_n_read) <= store.max_n_read
      BY <1>9 DEF Get, Allowed
    <3>. QED  BY <1>7, <3>1
  <2>2. store \in KontractStore /\ store' = [store EXCEPT !.curr_n_read = Counted(@)]
    BY <1>9 DEF Get, GInv, IInv, TypeOK
  <2>3. /\ store'.max_n_read = store.max_n_read /\ store'.max_n_write = store.max_n_write
        /\ store'.curr_n_write = store.curr_n_write /\ store'.storage = store.storage
        /\ store'.curr_n_read = Counted(store.curr_n_read)
    BY <2>2 DEF KontractStore
  <2>4. CASE Length[v] > MaxValueBytes
    <3>1. ~(b.size >= Length[v]) /\ b.size < Length[v]
      BY <1>5, <2>4, SDKBufferFits
    <3>2. Traps("Impossible write data in wasm memory")
      BY <1>9, <3>1 DEF Get, v
    <3>3. phase' = "done" /\ result' = Error("WasmPanic")
      BY <1>1, <3>2, TrapInMain, TrapErrors DEF OtherTraps
    <3>4. call' = call
      BY <1>1, <3>3 DEF SDKRead, Stays
    <3>5. StoppedAt(pc) = Error("WasmPanic")
      BY <1>8, <2>1, <2>4
    <3>. QED  BY <1>1, <2>3, <3>3, <3>4, <3>5, MainStops, ErrorIsResult
  <2>5. CASE ~(Length[v] > MaxValueBytes) /\ Length[v] >= 64
    <3>1. b.size >= Length[v] /\ ~(b.size < Length[v]) /\ ~Copies(v, b)
      BY <1>5, <2>5, SDKBufferFits
    <3>2. Panics
      BY <1>9, <3>1 DEF Get, v
    <3>3. phase' = "done" /\ result' = [state |-> "HostPanic"]
      BY <3>2 DEF Panics, Ends
    <3>4. call' = call
      BY <1>1, <3>3 DEF SDKRead, Stays
    <3>5. StoppedAt(pc) = [state |-> "HostPanic"]
      BY <1>8, <2>1, <2>5
    <3>. QED  BY <1>1, <2>3, <3>3, <3>4, <3>5, MainStops, ErrorIsResult
  <2>6. CASE ~(Length[v] > MaxValueBytes) /\ ~(Length[v] >= 64)
    <3>1. b.size >= Length[v] /\ ~(b.size < Length[v]) /\ Copies(v, b)
      BY <1>5, <2>6, SDKBufferFits
    <3>2. buffer' = [size |-> b.size, written |-> Slice(v), value |-> v] /\ phase' = phase
      BY <1>9, <3>1 DEF Get, v
    <3>3. call' = call /\ pc' = pc + 1 /\ taken' = taken
      BY <1>1, <3>2 DEF SDKRead, Continues
    <3>4. Now' = After(Statement, Now)
      BY <1>1, <1>5, <2>3, <3>2, <3>3 DEF Now, After
    <3>5. StoppedAt(pc) = NoResult
      BY <1>8, <2>1, <2>6
    <3>6. store'.curr_n_read = store.curr_n_read + 1 /\ store.curr_n_write + 0 = store.curr_n_write
      BY <1>7, <2>2, <2>3, WordType DEF KontractStore
    <3>7. Statement.op \notin {"write", "delete"} /\ Statement.op # "loop"
      BY <1>1
    <3>. QED  BY <1>1, <1>2, <2>3, <3>2, <3>3, <3>4, <3>5, <3>6, <3>7, MainContinues
  <2>. QED  BY <2>4, <2>5, <2>6
<1>10. ASSUME ExceedsReads
       PROVE  OInv'
  <2>1. phase' = "done" /\ result' = Error("OutOfReads") /\ store' = store
    BY <1>1, <1>10, TrapInMain, TrapErrors DEF ExceedsReads
  <2>2. call' = call
    BY <1>1, <2>1 DEF SDKRead, Stays
  <2>3. StoppedAt(pc) = Error("OutOfReads")
    BY <1>7, <1>8, <1>10 DEF ExceedsReads, Allowed
  <2>. QED  BY <1>1, <2>1, <2>2, <2>3, MainStops, ErrorIsResult
<1>. QED  BY <1>9, <1>10 DEF SDKRead

\* A trap of the binary itself.
LEMMA WasmTrapInMain ==
  ASSUME phase = "main", WasmTrap
  PROVE  phase' = "done" /\ result' = Error("WasmPanic") /\ store' = store /\ Burns
BY TrapInMain, TrapErrors DEF WasmTrap, OtherTraps

\* What was read can be decoded, or the kontract panics.
LEMMA TakeStep ==
  ASSUME GInv, Take
  PROVE  OInv'
<1>1. /\ phase = "main" /\ pc <= Len(Statements) /\ Statement.op = "take"
      /\ Statement = Program[call.code][pc]
  BY DEF Take, At, Statement, Statements
<1>2. Burns
  BY WasmTrapInMain, <1>1 DEF Take, Compute
<1>3. ~At("loop")
  BY <1>1 DEF At, Statement
<1>4. /\ call.code \in Kontract /\ call.budget \in GuestBudget /\ InMain
      /\ pc \in 1 .. Len(Program[call.code]) /\ pc <= call.budget.fuel
  BY <1>1, <1>2, <1>3, MainFacts, FuelLeft
<1>5. buffer.value = Before(call.code, call.storage)[pc].read
  BY <1>4 DEF InMain, Now
<1>6. StoppedAt(pc) = IF Statement.taken[buffer.value] \in Value THEN NoResult
                      ELSE Error("WasmPanic")
  BY <1>1, <1>4, <1>5, StoppedTaking DEF StoppedAt
<1>7. CASE Statement.taken[buffer.value] \in Value
  <2>1. /\ phase' = phase /\ store' = store /\ buffer' = buffer
        /\ pc' = pc + 1 /\ call' = call /\ taken' = Statement.taken[buffer.value]
    BY <1>7 DEF Take, Compute
  <2>2. Now' = After(Statement, Now)
    BY <1>1, <1>7, <2>1 DEF Now, After
  <2>3. /\ store'.curr_n_read = store.curr_n_read + 0
        /\ store'.curr_n_write = store.curr_n_write + 0
    BY <2>1, WordType DEF GInv, IInv, TypeOK, KontractStore
  <2>4. Statement.op \notin {"write", "delete"} /\ Statement.op # "read" /\ Statement.op # "loop"
    BY <1>1
  <2>. QED  BY <1>1, <1>2, <1>6, <1>7, <2>1, <2>2, <2>3, <2>4, MainContinues
<1>8. CASE Statement.taken[buffer.value] \notin Value
  <2>1. phase' = "done" /\ result' = Error("WasmPanic") /\ store' = store /\ call' = call
    BY <1>1, <1>8, WasmTrapInMain DEF Take, Stays
  <2>. QED  BY <1>1, <1>6, <1>8, <2>1, MainStops, ErrorIsResult
<1>. QED  BY <1>7, <1>8

LEMMA PanicStep ==
  ASSUME GInv, PanicHandler
  PROVE  OInv'
<1>1. /\ phase = "main" /\ pc <= Len(Statements) /\ Statement.op = "panic"
      /\ Statement = Program[call.code][pc]
  BY DEF PanicHandler, At, Statement, Statements
<1>2. /\ Burns /\ phase' = "done" /\ result' = Error("WasmPanic")
      /\ store' = store /\ call' = call
  BY <1>1, WasmTrapInMain DEF PanicHandler, Stays
<1>3. ~At("loop")
  BY <1>1 DEF At, Statement
<1>4. /\ call.code \in Kontract /\ call.budget \in GuestBudget
      /\ pc \in 1 .. Len(Program[call.code]) /\ pc <= call.budget.fuel
  BY <1>1, <1>2, <1>3, MainFacts, FuelLeft
<1>5. StoppedAt(pc) = Error("WasmPanic")
  BY <1>1, <1>4, StoppedOtherwise DEF StoppedAt
<1>. QED  BY <1>1, <1>2, <1>5, MainStops, ErrorIsResult

LEMMA LoopStep ==
  ASSUME GInv, LoopForever
  PROVE  OInv'
<1>1. /\ phase = "main" /\ At("loop")
      /\ UNCHANGED <<phase, store, buffer, result, call, pc, taken>>
  BY DEF LoopForever, At, Compute, Stays
<1>2. InMain /\ CallOK
  BY <1>1, MainFacts
<1>3. At("loop")' /\ Now' = Now
  BY <1>1 DEF At, Now, Statements
<1>4. InMain'
  BY <1>1, <1>2, <1>3 DEF InMain, Statements, StoppedAt
<1>5. CallOK' /\ OutcomeIsFunction'
  BY <1>1, <1>2 DEF CallOK, OutcomeIsFunction
<1>. QED  BY <1>1, <1>4, <1>5 DEF OInv

\* Every statement keeps the execution on its way.
LEMMA NextGInv ==
  ASSUME GInv, [GuestNext]_guestVars
  PROVE  GInv'
<1>1. IInv' /\ GuestOK'
  BY NextGuest, NextIInv DEF GInv
<1>2. ASSUME UNCHANGED guestVars
      PROVE  OInv'
  <2>1. /\ call' = call /\ phase' = phase /\ store' = store /\ result' = result
        /\ pc' = pc /\ fuel' = fuel /\ taken' = taken /\ buffer' = buffer
    BY <1>2 DEF guestVars, vars
  <2>2. Now' = Now
    BY <2>1 DEF Now
  <2>3. InMain => InMain'
    BY <2>1, <2>2 DEF InMain, At, Statements, StoppedAt
  <2>4. BeforeMain => BeforeMain'
    BY <2>1, <2>2 DEF BeforeMain
  <2>. QED  BY <2>1, <2>3, <2>4 DEF GInv, OInv, CallOK, OutcomeIsFunction
<1>3. ASSUME GuestNext
      PROVE  OInv'
  <2>. USE <1>3
  <2>1. CASE Loads        BY <2>1, LoadsStep
  <2>2. CASE MainReturns  BY <2>2, ReturnsStep
  <2>3. CASE FuelRunsOut  BY <2>3, FuelStep
  <2>4. CASE SDKWrite     BY <2>4, WriteStep
  <2>5. CASE SDKDelete    BY <2>5, DeleteStep
  <2>6. CASE SDKRead      BY <2>6, ReadStep
  <2>7. CASE Take         BY <2>7, TakeStep
  <2>8. CASE PanicHandler BY <2>8, PanicStep
  <2>9. CASE LoopForever  BY <2>9, LoopStep
  <2>. QED  BY <2>1, <2>2, <2>3, <2>4, <2>5, <2>6, <2>7, <2>8, <2>9 DEF GuestNext
<1>. QED  BY <1>1, <1>2, <1>3 DEF GInv

\* A call starts the execution on its way.
LEMMA CalledGInv ==
  \A b \in Kontract, s \in Storage, g \in GuestBudget : Called(b, s, g) => GInv
<1>. SUFFICES ASSUME NEW b \in Kontract, NEW s \in Storage, NEW g \in GuestBudget,
                     Called(b, s, g)
              PROVE  GInv
  OBVIOUS
<1>1. g.fuel \in Fuel /\ g.read \in Limit /\ g.write \in Limit
  BY DEF GuestBudget
<1>2. NewStore(s, g) \in [max_n_read : Limit, max_n_write : Limit,
                          curr_n_read : {0}, curr_n_write : {0}, storage : Storage]
  BY <1>1 DEF NewStore
<1>3. IInv
  BY <1>1, <1>2, StartIInv DEF Called, NoBuffer, NothingServed
<1>4. GuestOK
  BY ExecutorAssumption DEF Called, GuestOK
<1>5. CallOK
  BY DEF Called, CallOK, NewStore
<1>6. BeforeMain
  BY DEF Called, BeforeMain, NewStore, Now, Started, NoBuffer
<1>7. OInv
  BY <1>5, <1>6 DEF Called, OInv, OutcomeIsFunction
<1>. QED  BY <1>3, <1>4, <1>7 DEF GInv

\* An execution stays on its way to its outcome.
THEOREM GuestOnItsWay == GuestSpec => []GInv
<1>1. GuestInit => GInv
  BY CalledGInv, ExecutorAssumption DEF GuestInit
<1>2. GInv /\ [GuestNext]_guestVars => GInv'
  BY NextGInv
<1>. QED  BY <1>1, <1>2, PTL DEF GuestSpec

\* What execute_code returns is a function of the binary, the storage and the
\* limits: for every program of SDK calls, whatever it computes, and whichever of
\* the fuel, the two limits, a value too long, a panic and the end comes first.
THEOREM OutcomeIsDetermined == GuestSpec => []OutcomeIsFunction
<1>1. GInv => OutcomeIsFunction
  BY DEF GInv, OInv
<1>. QED  BY <1>1, GuestOnItsWay, PTL
----------------------------------------------------------------------------
(***************************************************************************)
(* Empty values                                                            *)
(***************************************************************************)

\* The entries that are not empty make a storage, all of whose entries are not.
LEMMA NonemptyType ==
  ASSUME NEW s \in Storage
  PROVE  /\ Nonempty(s) \in Storage
         /\ DOMAIN Nonempty(s) = {k \in DOMAIN s : Length[s[k]] > 0}
         /\ \A k \in DOMAIN Nonempty(s) : Nonempty(s)[k] = s[k]
         /\ Nonempty(Nonempty(s)) = Nonempty(s)
<1>. DEFINE D == {k \in DOMAIN s : Length[s[k]] > 0}
<1>1. DOMAIN s \subseteq Key /\ \A k \in DOMAIN s : s[k] \in Value
  BY DEF Storage
<1>2. Nonempty(s) = [k \in D |-> s[k]]
  BY DEF Nonempty
<1>3. Nonempty(s) \in [D -> Value] /\ D \subseteq Key
  BY <1>1, <1>2
<1>4. {k \in D : Length[Nonempty(s)[k]] > 0} = D
  BY <1>2
<1>5. Nonempty(Nonempty(s)) = [k \in D |-> Nonempty(s)[k]]
  BY <1>2, <1>4 DEF Nonempty
<1>. QED  BY <1>2, <1>3, <1>5 DEF Storage

\* A value is empty, or has a positive length.
LEMMA EmptyOrNot ==
  ASSUME NEW v \in Value
  PROVE  (Length[v] > 0) = (v # EmptyValue)
<1>1. Length[v] \in Nat
  BY StorageAssumption
<1>. QED  BY <1>1, ExecutorAssumption

\* A read tells no difference.
LEMMA FoundNonempty ==
  ASSUME NEW s \in Storage, NEW k
  PROVE  Found(Nonempty(s), k) = Found(s, k)
<1>1. \A x \in DOMAIN s : s[x] \in Value
  BY DEF Storage
<1>2. CASE Blake2[k] \in DOMAIN s /\ Length[s[Blake2[k]]] > 0
  BY <1>2, NonemptyType DEF Found
<1>3. CASE Blake2[k] \in DOMAIN s /\ ~(Length[s[Blake2[k]]] > 0)
  <2>1. s[Blake2[k]] = EmptyValue
    BY <1>1, <1>3, EmptyOrNot
  <2>. QED  BY <1>3, <2>1, NonemptyType DEF Found
<1>4. CASE Blake2[k] \notin DOMAIN s
  BY <1>4, NonemptyType DEF Found
<1>. QED  BY <1>2, <1>3, <1>4

\* What is left of a storage after a write or a deletion.
LEMMA RemovedNonempty ==
  ASSUME NEW s \in Storage, NEW k
  PROVE  Nonempty(Removed(s, k)) = Removed(Nonempty(s), k)
<1>. DEFINE D == {x \in DOMAIN s : Length[s[x]] > 0} \ {k}
<1>1. {x \in DOMAIN Removed(s, k) : Length[Removed(s, k)[x]] > 0} = D
  BY DEF Removed
<1>2. Nonempty(Removed(s, k)) = [x \in D |-> s[x]]
  BY <1>1 DEF Nonempty, Removed
<1>3. Removed(Nonempty(s), k) = [x \in D |-> s[x]]
  BY DEF Nonempty, Removed
<1>. QED  BY <1>2, <1>3

LEMMA InsertedNonempty ==
  ASSUME NEW s \in Storage, NEW k \in Key, NEW v \in Value
  PROVE  Nonempty(Inserted(s, k, v)) =
           IF Length[v] > 0 THEN Inserted(Nonempty(s), k, v) ELSE Removed(Nonempty(s), k)
<1>. DEFINE N == {x \in DOMAIN s : Length[s[x]] > 0}
            f == Inserted(s, k, v)
<1>1. /\ DOMAIN f = DOMAIN s \cup {k} /\ f[k] = v
      /\ \A x \in DOMAIN s \ {k} : f[x] = s[x]
  BY DEF Inserted
<1>2. CASE Length[v] > 0
  <2>1. {x \in DOMAIN f : Length[f[x]] > 0} = N \cup {k}
    BY <1>1, <1>2
  <2>2. Nonempty(f) = [x \in N \cup {k} |-> f[x]]
    BY <2>1 DEF Nonempty
  <2>3. Inserted(Nonempty(s), k, v) = [x \in N \cup {k} |-> IF x = k THEN v ELSE s[x]]
    BY DEF Inserted, Nonempty
  <2>4. \A x \in N \cup {k} : f[x] = IF x = k THEN v ELSE s[x]
    BY <1>1
  <2>. HIDE DEF f, N
  <2>. QED  BY <1>2, <2>2, <2>3, <2>4 DEF f
<1>3. CASE ~(Length[v] > 0)
  <2>1. {x \in DOMAIN f : Length[f[x]] > 0} = N \ {k}
    BY <1>1, <1>3
  <2>2. Nonempty(f) = [x \in N \ {k} |-> f[x]]
    BY <2>1 DEF Nonempty
  <2>3. Removed(Nonempty(s), k) = [x \in N \ {k} |-> s[x]]
    BY DEF Removed, Nonempty
  <2>4. \A x \in N \ {k} : f[x] = s[x]
    BY <1>1
  <2>. HIDE DEF f, N
  <2>. QED  BY <1>3, <2>2, <2>3, <2>4 DEF f
<1>. QED  BY <1>2, <1>3

\* Storages that differ in empty entries only, under the same values of main.
Alike(m1, m2) ==
  /\ Nonempty(m1.storage) = Nonempty(m2.storage)
  /\ m1.read = m2.read /\ m1.taken = m2.taken

\* A statement makes no difference out of none.
LEMMA AfterAlike ==
  ASSUME NEW st, StatementOK(st), NEW m1 \in Memory, NEW m2 \in Memory, Alike(m1, m2)
  PROVE  Alike(After(st, m1), After(st, m2))
<1>1. /\ m1.storage \in Storage /\ m1.read \in Value /\ m1.taken \in Value
      /\ m2.storage \in Storage /\ m2.read \in Value /\ m2.taken \in Value
      /\ Nonempty(m1.storage) = Nonempty(m2.storage) /\ m1.read = m2.read /\ m1.taken = m2.taken
  BY DEF Memory, Alike
<1>2. CASE st.op = "write"
  <2>. DEFINE k == Blake2[st.key]
              v == st.value[m1.taken]
  <2>1. k \in Key /\ v \in Value
    BY <1>1, <1>2, ExecutorAssumption DEF StatementOK
  <2>2. /\ After(st, m1) = [m1 EXCEPT !.storage = Inserted(m1.storage, k, v)]
        /\ After(st, m2) = [m2 EXCEPT !.storage = Inserted(m2.storage, k, v)]
    BY <1>1, <1>2 DEF After
  <2>. HIDE DEF k, v
  <2>3. Nonempty(Inserted(m1.storage, k, v)) = Nonempty(Inserted(m2.storage, k, v))
    BY <1>1, <2>1, InsertedNonempty
  <2>. QED  BY <1>1, <2>2, <2>3 DEF Alike, Memory
<1>3. CASE st.op = "delete"
  <2>. DEFINE k == Blake2[st.key]
  <2>1. /\ After(st, m1) = [m1 EXCEPT !.storage = Removed(m1.storage, k)]
        /\ After(st, m2) = [m2 EXCEPT !.storage = Removed(m2.storage, k)]
    BY <1>3 DEF After
  <2>. HIDE DEF k
  <2>2. Nonempty(Removed(m1.storage, k)) = Nonempty(Removed(m2.storage, k))
    BY <1>1, RemovedNonempty
  <2>. QED  BY <1>1, <2>1, <2>2 DEF Alike, Memory
<1>4. CASE st.op = "read"
  <2>1. Found(m1.storage, st.key) = Found(m2.storage, st.key)
    BY <1>1, FoundNonempty
  <2>2. /\ After(st, m1) = [m1 EXCEPT !.read = Found(m1.storage, st.key)]
        /\ After(st, m2) = [m2 EXCEPT !.read = Found(m2.storage, st.key)]
    BY <1>4 DEF After
  <2>. QED  BY <1>1, <2>1, <2>2 DEF Alike, Memory
<1>5. CASE st.op \notin {"write", "delete", "read"}
  BY <1>1, <1>5 DEF After, Alike, Memory
<1>. QED  BY <1>2, <1>3, <1>4, <1>5

\* So none arises in the whole execution.
LEMMA BeforeAlike ==
  ASSUME NEW b \in Kontract, NEW s \in Storage, NEW i \in 1 .. Len(Program[b]) + 1
  PROVE  Alike(Before(b, s)[i], Before(b, Nonempty(s))[i])
<1>. DEFINE End == Len(Program[b]) + 1
            t == Nonempty(s)
            Same == {n \in Nat : n + 1 \in 1 .. End =>
                                   Alike(Before(b, s)[n + 1], Before(b, t)[n + 1])}
<1>1. Len(Program[b]) \in Nat
  BY ProgramLength
<1>2. 0 \in Same
  <2>1. Alike(Started(s), Started(t))
    BY NonemptyType DEF Started, Alike
  <2>. HIDE DEF t
  <2>2. Alike(Before(b, s)[0 + 1], Before(b, t)[0 + 1])
    BY <2>1, BeforeSteps
  <2>. QED  BY <2>2
<1>3. ASSUME NEW n \in Nat, n \in Same
      PROVE  n + 1 \in Same
  <2>. SUFFICES ASSUME n + 2 \in 1 .. End
                PROVE  Alike(Before(b, s)[n + 2], Before(b, t)[n + 2])
    OBVIOUS
  <2>1. n + 1 \in 1 .. Len(Program[b]) /\ n + 1 \in 1 .. End /\ n + 1 + 1 = n + 2
    BY <1>1
  <2>2. t \in Storage
    BY NonemptyType
  <2>3. Alike(Before(b, s)[n + 1], Before(b, t)[n + 1])
    BY <1>3, <2>1
  <2>. HIDE DEF t
  <2>4. /\ Before(b, s)[n + 1 + 1] = After(Program[b][n + 1], Before(b, s)[n + 1])
        /\ Before(b, t)[n + 1 + 1] = After(Program[b][n + 1], Before(b, t)[n + 1])
    BY <2>1, BeforeSteps
  <2>5. /\ StatementOK(Program[b][n + 1])
        /\ Before(b, s)[n + 1] \in Memory /\ Before(b, t)[n + 1] \in Memory
    BY <2>1, <2>2, ProgramLength, BeforeType
  <2>. QED  BY <2>1, <2>3, <2>4, <2>5, AfterAlike
<1>4. Nat \subseteq Same
  <2>. HIDE DEF Same
  <2>. QED  BY <1>2, <1>3, InductionOnSets
<1>5. i - 1 \in Nat /\ i - 1 + 1 = i
  BY <1>1
<1>. QED  BY <1>4, <1>5

\* The same stops the same statement.
LEMMA StoppedAlike ==
  ASSUME NEW b \in Kontract, NEW s \in Storage, NEW g, NEW i \in 1 .. Len(Program[b]) + 1
  PROVE  Stopped(b, Nonempty(s), g, i) = Stopped(b, s, g, i)
<1>. DEFINE m1 == Before(b, s)[i]
            m2 == Before(b, Nonempty(s))[i]
<1>1. Alike(m1, m2) /\ m1 \in Memory /\ m2 \in Memory
  BY BeforeAlike, BeforeType, NonemptyType
<1>. HIDE DEF m1, m2
<1>2. m1.read = m2.read /\ \A k : Found(m1.storage, k) = Found(m2.storage, k)
  BY <1>1, FoundNonempty DEF Alike, Memory
<1>. QED  BY <1>2 DEF Stopped, m1, m2

\* A kontract computes the same without its empty entries.
LEMMA OutcomeAlike ==
  ASSUME NEW b \in Kontract, NEW s \in Storage, NEW g
  PROVE  SameButEmpty(Outcome(b, s, g), Outcome(b, Nonempty(s), g))
<1>. DEFINE End == Len(Program[b]) + 1
            stops == {i \in 1 .. End : Stopped(b, s, g, i) # NoResult}
            first == CHOOSE i \in stops : \A j \in stops : i <= j
<1>1. CASE b \in DOMAIN LoadError
  BY <1>1 DEF Outcome, SameButEmpty, Error
<1>2. CASE b \notin DOMAIN LoadError /\ stops # {}
  <2>1. Len(Program[b]) \in Nat /\ stops \in SUBSET Nat
    BY ProgramLength
  <2>2. first \in stops /\ \A j \in stops : first <= j
    <3>. HIDE DEF stops
    <3>. QED  BY <1>2, <2>1, LeastElement
  <2>. HIDE DEF first
  <2>3. first \in 1 .. End /\ \A j \in 1 .. first - 1 : Stopped(b, s, g, j) = NoResult
    BY <2>1, <2>2
  <2>4. \A j \in 1 .. first - 1 : j \in 1 .. End
    BY <2>1, <2>3
  <2>5. Outcome(b, s, g) = Stopped(b, s, g, first)
    BY <1>2, <2>2, <2>3, FirstStop
  <2>6. Outcome(b, Nonempty(s), g) = Stopped(b, s, g, first)
    BY <1>2, <2>2, <2>3, <2>4, StoppedAlike, FirstStop
  <2>7. Stopped(b, s, g, first).state # "Ok"
    BY <2>2 DEF Stopped, Error, NoResult
  <2>. QED  BY <2>5, <2>6, <2>7 DEF SameButEmpty
<1>3. CASE b \notin DOMAIN LoadError /\ stops = {}
  <2>1. \A i \in 1 .. End : Stopped(b, s, g, i) = NoResult /\ Stopped(b, Nonempty(s), g, i) = NoResult
    BY <1>3, StoppedAlike
  <2>2. /\ Outcome(b, s, g) = [state |-> "Ok", storage |-> Before(b, s)[End].storage]
        /\ Outcome(b, Nonempty(s), g) = [state |-> "Ok", storage |-> Before(b, Nonempty(s))[End].storage]
    BY <1>3, <2>1, NoStop
  <2>3. Alike(Before(b, s)[End], Before(b, Nonempty(s))[End])
    BY ProgramLength, BeforeAlike
  <2>. QED  BY <2>2, <2>3 DEF SameButEmpty, Alike
<1>. QED  BY <1>1, <1>2, <1>3

\* A kontract cannot tell an absent key from an empty value, in any number of
\* statements, and the storage it leaves is the same up to empty entries.
THEOREM EmptyIsAbsent == GuestSpec => []AbsentIsEmpty
<1>1. GInv => AbsentIsEmpty
  BY OutcomeAlike DEF GInv, GuestOK, OInv, CallOK, OutcomeIsFunction, AbsentIsEmpty
<1>. QED  BY <1>1, GuestOnItsWay, PTL
=============================================================================
