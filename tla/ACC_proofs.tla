------------------------------ MODULE ACC_proofs ------------------------------
(***************************************************************************)
(* For every latency of the adder, group size and buffer size: the         *)
(* accumulator's registers stay in range, at most one partial sum is in    *)
(* the adder, the asynchronous clear cancels nothing, and every finished   *)
(* sum finds room although OutData_Buffer is pushed without a check.  It   *)
(* implements AccumulatorCell clock by clock, and Accumulator: every group *)
(* is added up in order and its sum handed out once.                       *)
(***************************************************************************)
EXTENDS ACC, Ring_proofs, FiniteSetTheorems, FunctionTheorems, SequenceTheorems

-----------------------------------------------------------------------------
(***************************************************************************)
(* The adder holds at most one partial sum.                                *)
(***************************************************************************)
BusyInv == TypeOK /\ OneAdditionAtATime

\* Everything the wires compute is in range.
LEMMA Wires ==
    ASSUME TypeOK
    PROVE  /\ FifoOut(ReadyData_Buffer) \in Data
           /\ ReadyDataFromAccumulatedData \in Data
           /\ AccumulatedResult \in Data
           /\ LastStage \in Stages
           /\ NOPIn \in BOOLEAN /\ Valid \in BOOLEAN
           /\ DataInRdy \in BOOLEAN /\ DataOutValid \in BOOLEAN
<1>1. LastStage \in Stages
  BY StagesAssumption DEF LastStage, Stages
<1>2. FifoOut(ReadyData_Buffer) \in Data
  BY DEF TypeOK, Fifo, FifoOut
<1>3. ReadyDataFromAccumulatedData \in Data /\ AccumulatedResult \in Data
  BY <1>1, ZeroAssumption
     DEF TypeOK, ReadyDataFromAccumulatedData, AccumulatedResult
<1> QED BY <1>1, <1>2, <1>3 DEF NOPIn, Valid, DataInRdy, DataOutValid

LEMMA ZeroInCounter == 0 \in 0 .. NOPCount - 1
BY CountAssumption

LEMMA InitBusy == Init => BusyInv
<1> SUFFICES ASSUME Init PROVE BusyInv
  OBVIOUS
<1>1. TypeOK
  BY FifoResetOK, ZeroAssumption, ZeroInCounter DEF Init, TypeOK
<1>2. \A k \in Stages : NOPreg[k] = TRUE
  BY DEF Init
<1>3. OneAdditionAtATime
  BY <1>2 DEF Init, OneAdditionAtATime
<1> QED BY <1>1, <1>3 DEF BusyInv

LEMMA ResetBusy == Reset => BusyInv'
<1> SUFFICES ASSUME Reset PROVE BusyInv'
  OBVIOUS
<1>1. TypeOK'
  BY FifoResetOK, ZeroAssumption, ZeroInCounter DEF Reset, TypeOK
<1>2. \A k \in Stages : NOPreg'[k] = TRUE
  BY DEF Reset
<1>3. OneAdditionAtATime'
  BY <1>2 DEF Reset, OneAdditionAtATime
<1> QED BY <1>1, <1>3 DEF BusyInv

\* One clock keeps every register in range.
LEMMA ClockType ==
    ASSUME TypeOK, NEW v \in BOOLEAN, NEW r \in BOOLEAN, NEW d \in Data,
           Clock(v, d, r)
    PROVE  TypeOK'
<1>1. ReadyData_Buffer' \in Fifo
  BY Wires, FifoType DEF Clock, TypeOK
<1>2. OutData_Buffer' \in Fifo
  <2>1. Validreg[LastStage] \in BOOLEAN
    BY Wires DEF TypeOK
  <2> QED BY <2>1, Wires, FifoType DEF Clock, TypeOK
<1>3. \A k \in Stages : k # 0 => k - 1 \in Stages
  BY StagesAssumption DEF Stages
<1>4. NOPreg' \in [Stages -> BOOLEAN]
  BY <1>3, Wires DEF Clock, TypeOK, Shift
<1>5. Validreg' \in [Stages -> BOOLEAN]
  BY <1>3, Wires DEF Clock, TypeOK, Shift
<1>6. Adder' \in [Stages -> Data]
  <2>1. FPADD(FifoOut(ReadyData_Buffer), ReadyDataFromAccumulatedData) \in Data
    BY Wires, AddAssumption
  <2> QED BY <1>3, <2>1 DEF Clock, TypeOK, Shift
<1>7. NOP_Counter' \in 0 .. NOPCount - 1
  BY CountAssumption DEF Clock, TypeOK, Counter, LastOfGroup
<1>8. AccumulatedData' \in Data
  BY Wires DEF Clock, TypeOK
<1>9. Add_Busy' \in BOOLEAN
  BY DEF Clock, TypeOK, Busy
<1> QED BY <1>1, <1>2, <1>4, <1>5, <1>6, <1>7, <1>8, <1>9 DEF TypeOK

\* One clock keeps at most one partial sum in the adder.
LEMMA ClockOneAddition ==
    ASSUME BusyInv, NEW v \in BOOLEAN, NEW r \in BOOLEAN, NEW d \in Data,
           Clock(v, d, r)
    PROVE  OneAdditionAtATime'
<1>1. /\ LastStage \in Stages /\ 0 \in Stages
      /\ \A k \in Stages : k # 0 => k - 1 \in Stages
      /\ \A k \in Stages : k # LastStage => k + 1 \in Stages
      /\ \A k \in Stages : k \in Int
  BY StagesAssumption DEF Stages, LastStage
<1>2. /\ Add_Busy <=> \E k \in Stages : ~NOPreg[k]
      /\ \A j, k \in Stages : ~NOPreg[j] /\ ~NOPreg[k] => j = k
      /\ NOPreg \in [Stages -> BOOLEAN]
      /\ Add_Busy \in BOOLEAN
  BY DEF BusyInv, OneAdditionAtATime, TypeOK
<1>3. CASE Valid
  <2>1. \A k \in Stages : NOPreg'[k]
    BY <1>3 DEF Clock
  <2>2. Add_Busy' = FALSE
    BY <1>3 DEF Clock, Busy
  <2> QED BY <2>1, <2>2 DEF OneAdditionAtATime
<1>4. CASE ~Valid /\ ~NOPIn
  <2>1. \A k \in Stages : NOPreg[k]
    BY <1>2, <1>4 DEF NOPIn
  <2>2. \A k \in Stages : NOPreg'[k] = IF k = 0 THEN NOPIn ELSE NOPreg[k - 1]
    BY <1>4 DEF Clock, Shift
  <2>3. ASSUME NEW k \in Stages
        PROVE  NOPreg'[k] <=> k # 0
    <3>1. CASE k = 0
      BY <1>4, <2>2, <3>1
    <3>2. CASE k # 0
      BY <1>1, <2>1, <2>2, <3>2
    <3> QED BY <3>1, <3>2
  <2>4. Add_Busy' = TRUE
    BY <1>1, <1>4, <2>1 DEF Clock, Busy, Accumulate, NOPOut
  <2> QED BY <1>1, <2>3, <2>4 DEF OneAdditionAtATime
<1>5. CASE ~Valid /\ NOPIn
  <2>1. \A k \in Stages : NOPreg'[k] = IF k = 0 THEN TRUE ELSE NOPreg[k - 1]
    BY <1>5 DEF Clock, Shift
  <2>2. \A k \in Stages : ~NOPreg'[k] <=> k # 0 /\ ~NOPreg[k - 1]
    <3> SUFFICES ASSUME NEW k \in Stages
                 PROVE  ~NOPreg'[k] <=> k # 0 /\ ~NOPreg[k - 1]
      OBVIOUS
    <3>1. CASE k = 0
      BY <2>1, <3>1
    <3>2. CASE k # 0
      BY <2>1, <3>2
    <3> QED BY <3>1, <3>2
  <2>3. \A j, k \in Stages : ~NOPreg'[j] /\ ~NOPreg'[k] => j = k
    <3> SUFFICES ASSUME NEW j \in Stages, NEW k \in Stages,
                        ~NOPreg'[j], ~NOPreg'[k]
                 PROVE  j = k
      OBVIOUS
    <3>1. j - 1 = k - 1
      BY <1>1, <1>2, <2>2
    <3> QED BY <3>1, <1>1
  <2>4. CASE NOPreg[LastStage]
    <3>1. Add_Busy' = Add_Busy
      BY <1>5, <2>4 DEF Clock, Busy, Accumulate, NOPOut
    <3>2. ASSUME NEW k \in Stages, ~NOPreg[k]
          PROVE  \E j \in Stages : ~NOPreg'[j]
      <4>1. k + 1 \in Stages /\ k \in Int
        BY <1>1, <2>4, <3>2
      <4>2. k + 1 # 0 /\ (k + 1) - 1 = k
        BY <4>1 DEF Stages
      <4>3. ~NOPreg'[k + 1]
        BY <2>2, <3>2, <4>1, <4>2
      <4> QED BY <4>1, <4>3
    <3>3. ASSUME NEW j \in Stages, ~NOPreg'[j]
          PROVE  \E k \in Stages : ~NOPreg[k]
      BY <1>1, <2>2, <3>3
    <3> QED BY <1>2, <2>3, <3>1, <3>2, <3>3 DEF OneAdditionAtATime
  <2>5. CASE ~NOPreg[LastStage]
    <3>1. Add_Busy' = FALSE
      BY <1>5, <2>5 DEF Clock, Busy, Accumulate, NOPOut
    <3>2. ASSUME NEW j \in Stages, ~NOPreg'[j]
          PROVE  FALSE
      <4>1. j # 0 /\ ~NOPreg[j - 1] /\ j - 1 \in Stages
        BY <1>1, <2>2, <3>2
      <4>2. j - 1 = LastStage
        BY <1>1, <1>2, <2>5, <4>1
      <4> QED BY <4>2, StagesAssumption DEF Stages, LastStage
    <3> QED BY <2>3, <3>1, <3>2 DEF OneAdditionAtATime
  <2> QED BY <2>4, <2>5
<1> QED BY <1>3, <1>4, <1>5

LEMMA StepBusy == BusyInv /\ [Next]_vars => BusyInv'
<1> SUFFICES ASSUME BusyInv, [Next]_vars PROVE BusyInv'
  OBVIOUS
<1>1. ASSUME NEW v \in BOOLEAN, NEW r \in BOOLEAN, NEW d \in Input,
             Clock(v, d, r)
      PROVE  BusyInv'
  <2>1. d \in Data
    BY InputAssumption
  <2>2. TypeOK' /\ OneAdditionAtATime'
    BY <1>1, <2>1, ClockType, ClockOneAddition DEF BusyInv
  <2> QED BY <2>2 DEF BusyInv
<1>2. CASE Reset
  BY <1>2, ResetBusy
<1>3. CASE UNCHANGED vars
  BY <1>3 DEF vars, BusyInv, TypeOK, OneAdditionAtATime
<1> QED BY <1>1, <1>2, <1>3 DEF Next, ClockNext

\* Type correctness of the accumulator (ACC.v).
THEOREM ACC_TypeCorrect == Spec => []TypeOK
<1>1. BusyInv => TypeOK
  BY DEF BusyInv
<1> QED BY <1>1, InitBusy, StepBusy, PTL DEF Spec

\* Add_Busy is raised exactly while a partial sum is in the adder, and there is
\* never a second one (ACC.v:105-118 against NOPPipeline.v).
THEOREM ACC_OneAddition == Spec => []OneAdditionAtATime
<1>1. BusyInv => OneAdditionAtATime
  BY DEF BusyInv
<1> QED BY <1>1, InitBusy, StepBusy, PTL DEF Spec

\* The asynchronous clear by Valid (ACC.v:71) never cancels a write-back.
THEOREM ACC_ClearLosesNothing == Spec => []ClearLosesNothing
<1>1. BusyInv => ClearLosesNothing
  BY DEF BusyInv, OneAdditionAtATime, ClearLosesNothing, Valid, NOPIn
<1> QED BY <1>1, InitBusy, StepBusy, PTL DEF Spec

-----------------------------------------------------------------------------
(***************************************************************************)
(* Every finished sum finds room.                                          *)
(***************************************************************************)
RoomInv ==
    /\ TypeOK
    /\ FifoOK(ReadyData_Buffer)
    /\ FifoOK(OutData_Buffer)
    /\ Owed <= NOPCount * BufferSize

\* The stages of the adder are finitely many, so the sums in flight can be
\* counted.
LEMMA InFlightCount ==
    /\ IsFiniteSet(InFlight)
    /\ Cardinality(InFlight) \in Nat
<1>1. IsFiniteSet(Stages)
  BY StagesAssumption, FS_Interval DEF Stages
<1>2. InFlight \in SUBSET Stages
  BY DEF InFlight
<1>3. IsFiniteSet(InFlight)
  BY <1>1, <1>2, FS_Subset
<1> QED BY <1>3, FS_CardinalityType

\* A clock lets one sum leave the last stage and one enter the first.
LEMMA InFlightStep ==
    ASSUME TypeOK, Validreg' = Shift(Validreg, Valid)
    PROVE  Cardinality(InFlight') = Cardinality(InFlight)
              - (IF Validreg[LastStage] THEN 1 ELSE 0) + (IF Valid THEN 1 ELSE 0)
<1> DEFINE S == InFlight \ {LastStage}
           T == {k + 1 : k \in S}
           f == [k \in S |-> k + 1]
<1>1. /\ LastStage \in Stages /\ 0 \in Stages
      /\ \A k \in Stages : k \in Int /\ k >= 0
      /\ \A k \in Stages : k # 0 => k - 1 \in Stages
      /\ \A k \in Stages : k # LastStage => k + 1 \in Stages
  BY StagesAssumption DEF Stages, LastStage
<1>2. /\ IsFiniteSet(InFlight)
      /\ Cardinality(InFlight) \in Nat
      /\ InFlight \subseteq Stages
  BY InFlightCount DEF InFlight
<1>3. /\ IsFiniteSet(S)
      /\ Cardinality(S) = Cardinality(InFlight)
                            - (IF Validreg[LastStage] THEN 1 ELSE 0)
  <2>1. LastStage \in InFlight <=> Validreg[LastStage]
    BY <1>1 DEF InFlight
  <2>2. /\ IsFiniteSet(S)
        /\ Cardinality(S) = IF LastStage \in InFlight
                            THEN Cardinality(InFlight) - 1
                            ELSE Cardinality(InFlight)
    BY <1>2, FS_RemoveElement
  <2> QED BY <1>2, <2>1, <2>2
<1>4. IsFiniteSet(T) /\ Cardinality(T) = Cardinality(S)
  <2>1. f \in [S -> T]
    OBVIOUS
  <2>2. \A a, b \in S : f[a] = f[b] => a = b
    BY <1>1, <1>2
  <2>3. \A t \in T : \E k \in S : f[k] = t
    OBVIOUS
  <2>4. f \in Bijection(S, T)
    BY <2>1, <2>2, <2>3, Fun_IsBij
  <2>5. ExistsBijection(S, T)
    BY <2>4 DEF ExistsBijection
  <2> QED BY <1>3, <2>5, FS_Bijection
<1>5. InFlight' = IF Valid THEN T \cup {0} ELSE T
  <2>1. \A k \in Stages : Validreg'[k] = IF k = 0 THEN Valid ELSE Validreg[k - 1]
    BY DEF Shift
  <2>2. \A k \in Stages : k \in InFlight' <=> Validreg'[k]
    BY DEF InFlight
  <2>3. ASSUME NEW k \in Stages
        PROVE  k \in InFlight' <=> (k = 0 /\ Valid) \/ k \in T
    <3>1. CASE k = 0
      <4>1. k \notin T
        BY <1>1, <1>2, <3>1
      <4> QED BY <2>1, <2>2, <3>1, <4>1
    <3>2. CASE k # 0
      <4>1. k \in InFlight' <=> Validreg[k - 1]
        BY <2>1, <2>2, <3>2
      <4>2. k - 1 \in Stages /\ k - 1 # LastStage /\ (k - 1) + 1 = k
        BY <1>1, <3>2, StagesAssumption DEF Stages, LastStage
      <4>3. Validreg[k - 1] <=> k - 1 \in S
        BY <4>2 DEF InFlight
      <4>4. k - 1 \in S <=> k \in T
        <5>1. ASSUME k \in T PROVE k - 1 \in S
          <6>1. PICK j \in S : k = j + 1
            BY <5>1
          <6>2. k - 1 = j
            BY <6>1, <1>1, <1>2
          <6> QED BY <6>1, <6>2
        <5>2. ASSUME k - 1 \in S PROVE k \in T
          BY <4>2, <5>2
        <5> QED BY <5>1, <5>2
      <4> QED BY <3>2, <4>1, <4>3, <4>4
    <3> QED BY <3>1, <3>2
  <2>4. InFlight' \subseteq Stages
    BY DEF InFlight
  <2>5. T \subseteq Stages
    BY <1>1, <1>2
  <2> HIDE DEF T
  <2> QED BY <1>1, <2>3, <2>4, <2>5
<1>6. 0 \notin T
  BY <1>1, <1>2
<1>7. Cardinality(T) \in Nat
  BY <1>4, FS_CardinalityType
<1>8. Cardinality(InFlight') = Cardinality(T) + (IF Valid THEN 1 ELSE 0)
  <2> HIDE DEF T
  <2>1. CASE Valid
    <3>1. Cardinality(T \cup {0}) = Cardinality(T) + 1
      BY <1>4, <1>6, FS_AddElement
    <3> QED BY <1>5, <2>1, <3>1
  <2>2. CASE ~Valid
    BY <1>5, <1>7, <2>2
  <2> QED BY <2>1, <2>2
<1> HIDE DEF S, T
<1> QED BY <1>2, <1>3, <1>4, <1>7, <1>8

\* Under the credit of the program, the sums in flight and in the buffer never
\* exceed its slots.
LEMMA RoomFromOwed ==
    ASSUME RoomInv
    PROVE  Cardinality(InFlight) + FifoCount(OutData_Buffer) <= BufferSize
<1> DEFINE G == Cardinality(InFlight) + FifoCount(OutData_Buffer)
           C == FifoCount(ReadyData_Buffer) + NOP_Counter
<1>1. /\ Cardinality(InFlight) \in Nat
      /\ FifoCount(OutData_Buffer) \in Nat
      /\ FifoCount(ReadyData_Buffer) \in Nat
  BY InFlightCount, FifoFlags, BufferSizeAssumption DEF RoomInv
<1>2. G \in Nat /\ C \in Nat /\ NOPCount \in Nat /\ NOPCount >= 1
      /\ BufferSize \in Nat
  BY <1>1, CountAssumption, BufferSizeAssumption DEF RoomInv, TypeOK
<1>3. C + NOPCount * G <= NOPCount * BufferSize
  BY DEF RoomInv, Owed
<1> HIDE DEF G, C
<1>4. G <= BufferSize
  <2> SUFFICES ASSUME G >= BufferSize + 1 PROVE FALSE
    BY <1>2
  <2>1. NOPCount * G >= NOPCount * (BufferSize + 1)
    BY <1>2
  <2>2. NOPCount * (BufferSize + 1) = NOPCount * BufferSize + NOPCount
    BY <1>2
  <2>3. NOPCount * G \in Nat /\ NOPCount * BufferSize \in Nat
    BY <1>2
  <2> QED BY <1>2, <1>3, <2>1, <2>2, <2>3
<1> QED BY <1>4 DEF G

LEMMA Balance ==
    ASSUME NEW a \in Int, NEW c \in Int, NEW x \in Int,
           NEW a2 \in Int, NEW c2 \in Int, NEW x2 \in Int,
           NEW begun \in Int, NEW word \in Int,
           x2 <= x + begun, a2 + c2 + begun = a + c + word
    PROVE  a2 + c2 + x2 <= a + c + x + word
OBVIOUS

\* A clock keeps the account: what is owed grows by the word accepted and falls
\* by NOPCount with the sum handed out.
LEMMA ClockRoom ==
    ASSUME RoomInv, NEW v \in BOOLEAN, NEW r \in BOOLEAN, NEW d \in Data,
           v => Credit, Clock(v, d, r)
    PROVE  RoomInv'
<1> DEFINE rec == v /\ DataInRdy
           issue == ~NOPIn
           out == Validreg[LastStage]
           send == DataOutValid /\ r
           a == FifoCount(ReadyData_Buffer)
           c == NOP_Counter
           i == Cardinality(InFlight)
           o == FifoCount(OutData_Buffer)
<1>1. /\ TypeOK /\ FifoOK(ReadyData_Buffer) /\ FifoOK(OutData_Buffer)
      /\ Owed <= NOPCount * BufferSize
  BY DEF RoomInv
<1>2. /\ a \in Nat /\ a <= BufferSize /\ i \in Nat /\ o \in Nat
      /\ c \in Nat /\ c <= NOPCount - 1
      /\ NOPCount \in Nat /\ NOPCount >= 1 /\ BufferSize \in Nat
      /\ rec \in BOOLEAN /\ issue \in BOOLEAN /\ out \in BOOLEAN
      /\ send \in BOOLEAN /\ Valid \in BOOLEAN
  <2>1. out \in BOOLEAN
    BY <1>1, Wires DEF TypeOK
  <2> QED BY <1>1, <2>1, InFlightCount, FifoFlags, CountAssumption,
             BufferSizeAssumption DEF TypeOK, Valid
<1>3. i + o <= BufferSize
  BY RoomFromOwed
<1>4. out => i >= 1
  <2> SUFFICES ASSUME out PROVE i >= 1
    OBVIOUS
  <2>1. LastStage \in InFlight
    BY <1>1, Wires DEF InFlight
  <2>2. i # 0
    BY <2>1, InFlightCount, FS_EmptySet
  <2> QED BY <1>2, <2>2
<1>5. /\ rec => a < BufferSize
      /\ issue => a > 0
      /\ out => o < BufferSize
      /\ send => o > 0
  <2>1. rec => a < BufferSize
    BY <1>1, <1>2, FifoFlags DEF DataInRdy
  <2>2. issue => a > 0
    BY <1>1, <1>2, FifoFlags DEF NOPIn
  <2>3. out => o < BufferSize
    BY <1>2, <1>3, <1>4
  <2>4. send => o > 0
    BY <1>1, <1>2, FifoFlags DEF DataOutValid
  <2> QED BY <2>1, <2>2, <2>3, <2>4
<1>6. TypeOK'
  BY <1>1, ClockType
<1>7. /\ FifoOK(ReadyData_Buffer)'
      /\ a' = a + (IF rec THEN 1 ELSE 0) - (IF issue THEN 1 ELSE 0)
  <2>1. ReadyData_Buffer' = FifoClock(ReadyData_Buffer, rec, d, issue)
    BY DEF Clock
  <2>2. ReadyData_Buffer \in Fifo
    BY <1>1 DEF TypeOK
  <2> HIDE DEF rec, issue
  <2> QED BY <1>1, <1>2, <1>5, <2>1, <2>2, FifoStep
<1>8. /\ FifoOK(OutData_Buffer)'
      /\ o' = o + (IF out THEN 1 ELSE 0) - (IF send THEN 1 ELSE 0)
  <2>1. OutData_Buffer' =
            FifoClock(OutData_Buffer, out, AccumulatedResult, send)
    BY DEF Clock
  <2>2. OutData_Buffer \in Fifo /\ AccumulatedResult \in Data
    BY <1>1, Wires DEF TypeOK
  <2> HIDE DEF out, send
  <2> QED BY <1>1, <1>2, <1>5, <2>1, <2>2, FifoStep
<1>9. i' = i - (IF out THEN 1 ELSE 0) + (IF Valid THEN 1 ELSE 0)
  BY <1>1, InFlightStep DEF Clock
<1>10. c' = IF Valid THEN 0 ELSE c + (IF issue THEN 1 ELSE 0)
  <2>1. c' = Counter
    BY DEF Clock
  <2>2. CASE issue /\ c = NOPCount - 1
    BY <2>1, <2>2 DEF Counter, Valid, LastOfGroup
  <2>3. CASE issue /\ c # NOPCount - 1
    <3>1. c # CounterRange - 1
      BY <1>2, <2>3, CountAssumption
    <3> QED BY <1>2, <2>1, <2>3, <3>1 DEF Counter, Valid, LastOfGroup
  <2>4. CASE ~issue
    BY <1>2, <2>1, <2>4 DEF Counter, Valid, LastOfGroup
  <2> QED BY <2>2, <2>3, <2>4
<1>11. Valid => issue /\ c = NOPCount - 1
  BY DEF Valid, LastOfGroup
<1>12. Owed = a + c + NOPCount * (i + o)
  BY DEF Owed
<1>13. Owed' = a' + c' + NOPCount * (i' + o')
  BY DEF Owed
<1>14. rec => Owed < NOPCount * BufferSize
  BY DEF Credit
<1>15. Owed' <= Owed + (IF rec THEN 1 ELSE 0)
  <2> DEFINE g == i + o
             g2 == i' + o'
  <2>1. /\ g \in Nat /\ g2 \in Int
        /\ g2 = g + (IF Valid THEN 1 ELSE 0) - (IF send THEN 1 ELSE 0)
    BY <1>2, <1>5, <1>8, <1>9
  <2> HIDE DEF g, g2
  <2>2. NOPCount * g2 <= NOPCount * g + (IF Valid THEN NOPCount ELSE 0)
    <3>1. NOPCount * (g + 1) = NOPCount * g + NOPCount
      BY <1>2, <2>1
    <3>2. NOPCount * (g - 1) = NOPCount * g - NOPCount
      BY <1>2, <2>1
    <3>3. NOPCount * g \in Int
      BY <1>2, <2>1
    <3> QED BY <1>2, <2>1, <3>1, <3>2, <3>3
  <2>3. a' + c' + (IF Valid THEN NOPCount ELSE 0) =
            a + c + (IF rec THEN 1 ELSE 0)
    BY <1>2, <1>7, <1>10, <1>11
  <2>4. Owed = a + c + NOPCount * g /\ Owed' = a' + c' + NOPCount * g2
    BY <1>12, <1>13 DEF g, g2
  <2>5. NOPCount * g \in Int /\ NOPCount * g2 \in Int /\ a' \in Int /\ c' \in Int
    BY <1>2, <1>7, <1>10, <2>1
  <2> DEFINE x == NOPCount * g
             x2 == NOPCount * g2
             begun == IF Valid THEN NOPCount ELSE 0
             word == IF rec THEN 1 ELSE 0
  <2>6. /\ x2 <= x + begun
        /\ a' + c' + begun = a + c + word
        /\ Owed = a + c + x /\ Owed' = a' + c' + x2
        /\ x \in Int /\ x2 \in Int /\ a' \in Int /\ c' \in Int
        /\ begun \in Int /\ word \in Int /\ a \in Int /\ c \in Int
    BY <1>2, <2>2, <2>3, <2>4, <2>5
  <2> HIDE DEF rec, a, c, i, o, x, x2, begun
  <2>7. a' + c' + x2 <= a + c + x + word
    <3> HIDE DEF word
    <3> QED BY <2>6, Balance
  <2> QED BY <2>6, <2>7
<1>16. Owed' <= NOPCount * BufferSize
  <2>1. Owed \in Int /\ NOPCount * BufferSize \in Int /\ Owed' \in Int
    <3>1. i' \in Int /\ o' \in Int /\ a' \in Int /\ c' \in Int
      BY <1>2, <1>7, <1>8, <1>9, <1>10
    <3> QED BY <1>2, <1>12, <1>13, <3>1
  <2> HIDE DEF rec
  <2> QED BY <1>1, <1>2, <1>14, <1>15, <2>1
<1> QED BY <1>6, <1>7, <1>8, <1>16 DEF RoomInv

LEMMA StepRoom == RoomInv /\ [Next]_vars => RoomInv'
<1> SUFFICES ASSUME RoomInv, [Next]_vars PROVE RoomInv'
  OBVIOUS
<1>1. ASSUME NEW v \in BOOLEAN, NEW r \in BOOLEAN, NEW d \in Input,
             v => Credit, Clock(v, d, r)
      PROVE  RoomInv'
  BY <1>1, InputAssumption, ClockRoom
<1>2. CASE Reset
  <2>1. TypeOK'
    BY <1>2, ResetBusy DEF BusyInv
  <2>2. InFlight' = {}
    BY <1>2 DEF Reset, InFlight
  <2>3. Cardinality(InFlight') = 0
    BY <2>2, FS_EmptySet
  <2>4. Owed' = 0
    BY <1>2, <2>3, FifoResetOK, CountAssumption DEF Reset, Owed
  <2>5. NOPCount * BufferSize \in Nat
    BY CountAssumption, BufferSizeAssumption
  <2> QED BY <1>2, <2>1, <2>4, <2>5, FifoResetOK DEF RoomInv, Reset
<1>3. CASE UNCHANGED vars
  BY <1>3 DEF vars, RoomInv, TypeOK, FifoOK, FifoCount, Owed, InFlight
<1> QED BY <1>1, <1>2, <1>3 DEF Next, ClockNext

\* Nothing is owed at the start.
LEMMA InitRoom == Init => RoomInv
<1> SUFFICES ASSUME Init PROVE RoomInv
  OBVIOUS
<1>1. TypeOK
  BY InitBusy DEF BusyInv
<1>2. InFlight = {}
  BY DEF Init, InFlight
<1>3. Cardinality(InFlight) = 0
  BY <1>2, FS_EmptySet
<1>4. Owed = 0
  BY <1>3, FifoResetOK, CountAssumption DEF Init, Owed
<1>5. NOPCount * BufferSize \in Nat
  BY CountAssumption, BufferSizeAssumption
<1> QED BY <1>1, <1>4, <1>5, FifoResetOK DEF RoomInv, Init

\* Under the program's credit no sum is ever pushed into a full buffer
\* (ACC.v:90-92 has no check).
THEOREM ACC_RoomForEverySum == Spec => []RoomForEverySum
<1>1. RoomInv => RoomForEverySum
  BY RoomFromOwed DEF RoomInv, RoomForEverySum
<1> QED BY <1>1, InitRoom, StepRoom, PTL DEF Spec

\* A finished sum finds the result buffer with room.
LEMMA RoomForPush ==
    ASSUME RoomInv, Validreg[LastStage]
    PROVE  FifoCount(OutData_Buffer) < BufferSize
<1>1. LastStage \in InFlight
  BY Wires DEF InFlight, RoomInv
<1>2. Cardinality(InFlight) # 0
  BY <1>1, InFlightCount, FS_EmptySet
<1>3. FifoCount(OutData_Buffer) \in 0 .. BufferSize
  BY FifoFlags DEF RoomInv
<1> QED BY <1>2, <1>3, InFlightCount, RoomFromOwed, BufferSizeAssumption

-----------------------------------------------------------------------------
(***************************************************************************)
(* The accumulator implements the cell of the array.                       *)
(***************************************************************************)
Ready_Words == FifoWords(ReadyData_Buffer)
Out_Words == FifoWords(OutData_Buffer)

\* A queue steps as in Cells: it loses its head, then takes what is offered.
LEMMA QueueSteps ==
    ASSUME NEW q \in Seq(Data), NEW push \in BOOLEAN, NEW pop \in BOOLEAN,
           NEW d \in Data, pop => q # << >>
    PROVE  QueueStep(q, push, d, pop) =
              Cell!Step(q, IF push THEN <<d>> ELSE Cell!Nothing, pop)
<1> DEFINE rest == IF pop THEN Tail(q) ELSE q
<1>1. rest \in Seq(Data)
  OBVIOUS
<1> HIDE DEF rest
<1>2. rest \o <<d>> = Append(rest, d) /\ rest \o << >> = rest
  BY <1>1
<1> QED BY <1>2 DEF QueueStep, Cell!Step, Cell!Nothing, rest

\* The wires of the accumulator, in terms of the cell.
LEMMA CellWires ==
    ASSUME BusyInv, RoomInv
    PROVE  /\ Ready_Words \in Seq(Data) /\ Out_Words \in Seq(Data)
           /\ DataInRdy <=> Len(Ready_Words) < BufferSize
           /\ DataOutValid <=> Out_Words # << >>
           /\ ~NOPIn <=> Ready_Words # << >> /\ ~Add_Busy
           /\ ~NOPIn => Head(Ready_Words) = FifoOut(ReadyData_Buffer)
           /\ DataInRdy => FifoCount(ReadyData_Buffer) < BufferSize
           /\ ~NOPIn => FifoCount(ReadyData_Buffer) > 0
           /\ DataOutValid => FifoCount(OutData_Buffer) > 0
<1>1. /\ ReadyData_Buffer \in Fifo /\ OutData_Buffer \in Fifo
      /\ FifoOK(ReadyData_Buffer) /\ FifoOK(OutData_Buffer)
  BY DEF RoomInv, TypeOK
<1>2. /\ ReadyData_Buffer.buf \in [Slots -> Data] /\ OutData_Buffer.buf \in [Slots -> Data]
  BY <1>1 DEF Fifo
<1>3. /\ Ready_Words \in Seq(Data) /\ Len(Ready_Words) = FifoCount(ReadyData_Buffer)
      /\ Out_Words \in Seq(Data) /\ Len(Out_Words) = FifoCount(OutData_Buffer)
  BY <1>1, <1>2, ContentsSeq DEF Ready_Words, Out_Words, FifoWords, FifoCount, FifoOK
<1>4. /\ FifoCount(ReadyData_Buffer) \in 0 .. BufferSize
      /\ FifoFull(ReadyData_Buffer) <=> FifoCount(ReadyData_Buffer) = BufferSize
      /\ FifoEmpty(ReadyData_Buffer) <=> FifoCount(ReadyData_Buffer) = 0
      /\ FifoCount(OutData_Buffer) \in 0 .. BufferSize
      /\ FifoEmpty(OutData_Buffer) <=> FifoCount(OutData_Buffer) = 0
  BY <1>1, FifoFlags
<1>5. /\ Ready_Words # << >> <=> Len(Ready_Words) # 0
      /\ Out_Words # << >> <=> Len(Out_Words) # 0
  BY <1>3
<1>6. ~FifoEmpty(ReadyData_Buffer) => Head(Ready_Words) = FifoOut(ReadyData_Buffer)
  BY <1>1, <1>2, <1>4, HeadAtPointer
     DEF Ready_Words, FifoWords, FifoOut, FifoCount, FifoOK
<1> QED BY <1>3, <1>4, <1>5, <1>6, BufferSizeAssumption
        DEF DataInRdy, DataOutValid, NOPIn

\* What leaves the pipelines of the cell is what leaves the adder.
LEMMA CellExits ==
    ASSUME TypeOK
    PROVE  /\ Cell!Exit(Partials) = IF NOPreg[LastStage] THEN << >>
                                    ELSE <<AccumulatedResult>>
           /\ Cell!Exit(Sums) = IF Validreg[LastStage] THEN <<AccumulatedResult>>
                                ELSE << >>
<1>1. Pipeline_Stages \in Nat \ {0} /\ Pipeline_Stages - 1 = LastStage
  BY StagesAssumption DEF LastStage
<1>2. Len(Partials) = Pipeline_Stages /\ Len(Sums) = Pipeline_Stages
  BY <1>1 DEF Partials, Sums
<1>3. Pipeline_Stages \in 1 .. Pipeline_Stages
  BY <1>1
<1> QED BY <1>1, <1>2, <1>3 DEF Cell!Exit, Partials, Sums, AccumulatedResult

\* A clock of the accumulator is a clock of the cell.
LEMMA ClockImplements ==
    ASSUME BusyInv, RoomInv, NEW v \in BOOLEAN, NEW r \in BOOLEAN, NEW d \in Input,
           Clock(v, d, r)
    PROVE  Cell!Clock
<1> DEFINE offer == IF v THEN <<d>> ELSE Cell!Nothing
           add == ~NOPIn
           back == Accumulate
           sum == IF add THEN <<FPADD(FifoOut(ReadyData_Buffer),
                                      ReadyDataFromAccumulatedData)>>
                  ELSE Cell!Nothing
<1>1. /\ TypeOK /\ d \in Data /\ LastStage \in Stages
      /\ Valid \in BOOLEAN /\ add \in BOOLEAN /\ Validreg[LastStage] \in BOOLEAN
      /\ AccumulatedResult \in Data
  BY Wires, InputAssumption DEF RoomInv, TypeOK
<1>2. offer \in {Cell!Nothing} \cup {<<w>> : w \in Input}
  OBVIOUS
<1>3. /\ add <=> CellNow.Ready # << >> /\ ~CellNow.Busy
      /\ Valid <=> add /\ Cell!LastOfGroup(CellNow)
      /\ back <=> ~Valid /\ Cell!Exit(CellNow.Partials) # Cell!Nothing
  <2>1. back <=> ~Valid /\ ~NOPreg[LastStage]
    BY DEF Accumulate, NOPOut
  <2>2. Cell!Exit(Partials) # << >> <=> ~NOPreg[LastStage]
    BY <1>1, CellExits
  <2> QED BY <2>1, <2>2, CellWires
          DEF CellNow, Ready_Words, Out_Words, Valid, LastOfGroup, Cell!LastOfGroup, Cell!Nothing
<1>4. sum = IF add THEN <<FPADD(Head(CellNow.Ready),
                               IF CellNow.Counter = 0 THEN Zero ELSE CellNow.Acc)>>
            ELSE Cell!Nothing
  BY CellWires DEF CellNow, Ready_Words, Out_Words, ReadyDataFromAccumulatedData
<1>5. Ready_Words' = Cell!Step(CellNow.Ready,
         IF Cell!ACC_DataInRdy(CellNow) THEN offer ELSE Cell!Nothing, add)
  <2> DEFINE push == v /\ DataInRdy
  <2>1. push \in BOOLEAN
    BY DEF DataInRdy
  <2>2. Ready_Words' = QueueStep(Ready_Words, push, d, add)
    <3>1. ReadyData_Buffer' = FifoClock(ReadyData_Buffer, push, d, add)
      BY DEF Clock
    <3>2. /\ ReadyData_Buffer \in Fifo /\ FifoOK(ReadyData_Buffer)
          /\ push => FifoCount(ReadyData_Buffer) < BufferSize
          /\ add => FifoCount(ReadyData_Buffer) > 0
      BY CellWires DEF RoomInv, TypeOK
    <3> HIDE DEF push, add
    <3> QED BY <1>1, <2>1, <3>1, <3>2, FifoQueue DEF Ready_Words
  <2>3. QueueStep(Ready_Words, push, d, add) =
           Cell!Step(Ready_Words, IF push THEN <<d>> ELSE Cell!Nothing, add)
    <3>1. Ready_Words \in Seq(Data) /\ (add => Ready_Words # << >>)
      BY CellWires
    <3> HIDE DEF push, add
    <3> QED BY <1>1, <2>1, <3>1, QueueSteps
  <2>4. (IF push THEN <<d>> ELSE Cell!Nothing) =
           IF Cell!ACC_DataInRdy(CellNow) THEN offer ELSE Cell!Nothing
    BY CellWires DEF Cell!ACC_DataInRdy, CellNow, Ready_Words, Out_Words
  <2> HIDE DEF push, offer, add
  <2> QED BY <2>2, <2>3, <2>4 DEF CellNow, Ready_Words, Out_Words
<1>6. Out_Words' = Cell!Step(CellNow.Out, Cell!Exit(CellNow.Sums),
                             Cell!ACC_DataOutValid(CellNow) /\ r)
  <2> DEFINE push == Validreg[LastStage]
             pop == DataOutValid /\ r
  <2>1. pop \in BOOLEAN
    BY DEF DataOutValid
  <2>2. Out_Words' = QueueStep(Out_Words, push, AccumulatedResult, pop)
    <3>1. OutData_Buffer' = FifoClock(OutData_Buffer, push, AccumulatedResult, pop)
      BY DEF Clock
    <3>2. push => FifoCount(OutData_Buffer) < BufferSize
      BY <1>1, RoomForPush
    <3>3. /\ OutData_Buffer \in Fifo /\ FifoOK(OutData_Buffer)
          /\ pop => FifoCount(OutData_Buffer) > 0
      BY CellWires DEF RoomInv, TypeOK
    <3> HIDE DEF push, pop
    <3> QED BY <1>1, <2>1, <3>1, <3>2, <3>3, FifoQueue DEF Out_Words, push
  <2>3. QueueStep(Out_Words, push, AccumulatedResult, pop) =
           Cell!Step(Out_Words, IF push THEN <<AccumulatedResult>> ELSE Cell!Nothing, pop)
    <3>1. Out_Words \in Seq(Data) /\ (pop => Out_Words # << >>)
      BY CellWires
    <3> HIDE DEF pop
    <3> QED BY <1>1, <2>1, <3>1, QueueSteps
  <2>4. (IF push THEN <<AccumulatedResult>> ELSE Cell!Nothing) = Cell!Exit(CellNow.Sums)
    BY <1>1, CellExits DEF CellNow, Cell!Nothing
  <2>5. pop <=> Cell!ACC_DataOutValid(CellNow) /\ r
    BY CellWires DEF Cell!ACC_DataOutValid, CellNow, Ready_Words, Out_Words
  <2> HIDE DEF push, pop
  <2> QED BY <2>1, <2>2, <2>3, <2>4, <2>5 DEF CellNow, Ready_Words, Out_Words
<1>7. /\ \A k \in 1 .. Pipeline_Stages : k - 1 \in Stages /\ (k - 1 = 0 <=> k = 1)
      /\ \A k \in 1 .. Pipeline_Stages : k # 1 => k - 1 \in 1 .. Pipeline_Stages
      /\ DOMAIN Partials = 1 .. Pipeline_Stages /\ DOMAIN Sums = 1 .. Pipeline_Stages
  BY StagesAssumption DEF Stages, Partials, Sums
<1>8. \A k \in 1 .. Pipeline_Stages :
        Adder'[k - 1] = IF k = 1 THEN FPADD(FifoOut(ReadyData_Buffer),
                                            ReadyDataFromAccumulatedData)
                        ELSE Adder[(k - 1) - 1]
  BY <1>7 DEF Clock, Shift
<1>9. Partials' = IF Valid THEN Cell!Pipe(Pipeline_Stages)
                  ELSE Cell!Shifted(CellNow.Partials, sum)
  <2>1. CASE Valid
    <3>1. \A k \in 1 .. Pipeline_Stages : NOPreg'[k - 1] = TRUE
      BY <1>7, <2>1 DEF Clock
    <3>2. Partials' = [k \in 1 .. Pipeline_Stages |-> << >>]
      BY <3>1 DEF Partials
    <3> QED BY <2>1, <3>2 DEF Cell!Pipe, Cell!Nothing
  <2>2. CASE ~Valid
    <3>1. \A k \in 1 .. Pipeline_Stages :
             NOPreg'[k - 1] = IF k = 1 THEN NOPIn ELSE NOPreg[(k - 1) - 1]
      BY <1>7, <2>2 DEF Clock, Shift
    <3>2. ASSUME NEW k \in 1 .. Pipeline_Stages
          PROVE  Partials'[k] = IF k = 1 THEN sum ELSE Partials[k - 1]
      <4>1. Partials'[k] = IF NOPreg'[k - 1] THEN << >> ELSE <<Adder'[k - 1]>>
        BY DEF Partials
      <4>2. CASE k = 1
        BY <1>8, <3>1, <4>1, <4>2 DEF Cell!Nothing
      <4>3. CASE k # 1
        <5>1. Partials[k - 1] = IF NOPreg[(k - 1) - 1] THEN << >>
                                ELSE <<Adder[(k - 1) - 1]>>
          BY <1>7, <4>3 DEF Partials
        <5> QED BY <1>8, <3>1, <4>1, <4>3, <5>1
      <4> QED BY <4>2, <4>3
    <3>3. Partials' = [k \in 1 .. Pipeline_Stages |-> Partials'[k]]
      BY DEF Partials
    <3> HIDE DEF sum
    <3> QED BY <1>7, <2>2, <3>2, <3>3 DEF Cell!Shifted, CellNow
  <2> QED BY <2>1, <2>2
<1>10. Sums' = Cell!Shifted(CellNow.Sums, IF Valid THEN sum ELSE Cell!Nothing)
  <2>1. \A k \in 1 .. Pipeline_Stages :
           Validreg'[k - 1] = IF k = 1 THEN Valid ELSE Validreg[(k - 1) - 1]
    BY <1>7 DEF Clock, Shift
  <2>2. ASSUME NEW k \in 1 .. Pipeline_Stages
        PROVE  Sums'[k] = IF k = 1 THEN (IF Valid THEN sum ELSE Cell!Nothing)
                          ELSE Sums[k - 1]
    <3>1. Sums'[k] = IF Validreg'[k - 1] THEN <<Adder'[k - 1]>> ELSE << >>
      BY DEF Sums
    <3>2. CASE k = 1
      BY <1>8, <2>1, <3>1, <3>2 DEF Cell!Nothing, Valid
    <3>3. CASE k # 1
      <4>1. Sums[k - 1] = IF Validreg[(k - 1) - 1] THEN <<Adder[(k - 1) - 1]>>
                          ELSE << >>
        BY <1>7, <3>3 DEF Sums
      <4> QED BY <1>8, <2>1, <3>1, <3>3, <4>1
    <3> QED BY <3>2, <3>3
  <2>3. Sums' = [k \in 1 .. Pipeline_Stages |-> Sums'[k]]
    BY DEF Sums
  <2> HIDE DEF sum
  <2> QED BY <1>7, <2>2, <2>3 DEF Cell!Shifted, CellNow
<1>11. NOP_Counter' = IF Valid THEN 0 ELSE IF add THEN CellNow.Counter + 1
                                          ELSE CellNow.Counter
  <2>1. NOP_Counter' = Counter /\ NOP_Counter \in 0 .. NOPCount - 1
    BY <1>1 DEF Clock, TypeOK
  <2>2. ~LastOfGroup => NOP_Counter # CounterRange - 1
    BY <2>1, CountAssumption DEF LastOfGroup
  <2> QED BY <2>1, <2>2 DEF Counter, Valid, CellNow
<1>12. AccumulatedData' = IF back THEN Cell!Exit(CellNow.Partials)[1] ELSE CellNow.Acc
  <2>1. back => Cell!Exit(Partials) = <<AccumulatedResult>>
    BY <1>1, CellExits DEF Accumulate, NOPOut
  <2> QED BY <2>1 DEF Clock, CellNow
<1>13. Add_Busy' = Cell!AddBusy(CellNow, add, Valid, back)
  BY DEF Clock, Busy, Cell!AddBusy, CellNow
<1>14. CellNow' = Cell!ACCClock(CellNow, offer, r)
  <2>1. CellNow' = [Ready |-> Ready_Words', Out |-> Out_Words', Partials |-> Partials',
                    Sums |-> Sums', Counter |-> NOP_Counter',
                    Acc |-> AccumulatedData', Busy |-> Add_Busy']
    BY DEF CellNow, Ready_Words, Out_Words
  <2> DEFINE cadd == CellNow.Ready # << >> /\ ~CellNow.Busy
             clast == cadd /\ Cell!LastOfGroup(CellNow)
             cback == ~clast /\ Cell!Exit(CellNow.Partials) # Cell!Nothing
             csum == IF cadd THEN <<FPADD(Head(CellNow.Ready),
                                          IF CellNow.Counter = 0 THEN Zero
                                          ELSE CellNow.Acc)>>
                     ELSE Cell!Nothing
  <2>2. cadd = add /\ clast = Valid /\ cback = back
    BY <1>1, <1>3 DEF Accumulate, Cell!LastOfGroup
  <2>3. csum = sum
    <3> HIDE DEF add, sum
    <3> QED BY <1>4, <2>2
  <2>4. Cell!ACCClock(CellNow, offer, r) =
           [Ready |-> Cell!Step(CellNow.Ready, IF Cell!ACC_DataInRdy(CellNow)
                                               THEN offer ELSE Cell!Nothing, cadd),
            Out |-> Cell!Step(CellNow.Out, Cell!Exit(CellNow.Sums),
                              Cell!ACC_DataOutValid(CellNow) /\ r),
            Partials |-> IF clast THEN Cell!Pipe(Pipeline_Stages)
                         ELSE Cell!Shifted(CellNow.Partials, csum),
            Sums |-> Cell!Shifted(CellNow.Sums, IF clast THEN csum ELSE Cell!Nothing),
            Counter |-> IF clast THEN 0 ELSE IF cadd THEN CellNow.Counter + 1
                                             ELSE CellNow.Counter,
            Acc |-> IF cback THEN Cell!Exit(CellNow.Partials)[1] ELSE CellNow.Acc,
            Busy |-> Cell!AddBusy(CellNow, cadd, clast, cback)]
    <3> HIDE DEF offer
    <3> QED BY Zenon DEF Cell!ACCClock
  <2> HIDE DEF add, back, sum, offer, cadd, clast, cback, csum
  <2> QED BY <1>5, <1>6, <1>9, <1>10, <1>11, <1>12, <1>13, <2>1, <2>2, <2>3, <2>4
<1> HIDE DEF offer
<1> QED BY <1>2, <1>14 DEF Cell!Clock

\* Fresh registers are those of a fresh cell.
LEMMA FreshCell ==
    /\ Init => Cell!Init
    /\ Reset => Cell!Reset
<1>1. FifoWords(FifoReset) = << >>
  BY FreshQueues
<1>2. \A k \in 1 .. Pipeline_Stages : k - 1 \in Stages
  BY StagesAssumption DEF Stages
<1>3. Init => Cell!Init
  BY <1>1, <1>2
     DEF Init, CellNow, Partials, Sums, Cell!Init, Cell!ACCReset, Cell!Pipe, Cell!Nothing
<1>4. Reset => Cell!Reset
  BY <1>1, <1>2
     DEF Reset, CellNow, Partials, Sums, Cell!Reset, Cell!ACCReset, Cell!Pipe, Cell!Nothing
<1> QED BY <1>3, <1>4

\* Every step of the accumulator is a step of the cell or leaves it as it is.
LEMMA NextImplements ==
    BusyInv /\ RoomInv /\ [Next]_vars => [Cell!Next]_CellNow
<1> SUFFICES ASSUME BusyInv, RoomInv, [Next]_vars
             PROVE  [Cell!Next]_CellNow
  OBVIOUS
<1>1. ASSUME NEW v \in BOOLEAN, NEW r \in BOOLEAN, NEW d \in Input, Clock(v, d, r)
      PROVE  Cell!Next
  BY <1>1, ClockImplements DEF Cell!Next
<1>2. CASE Reset
  BY <1>2, FreshCell DEF Cell!Next
<1>3. CASE UNCHANGED vars
  BY <1>3 DEF vars, CellNow, Partials, Sums, FifoWords
<1> QED BY <1>1, <1>2, <1>3 DEF Next, ClockNext

\* Clock by clock the registers of ACC.v implement the cell the array is built
\* from, for every latency, group, buffer and arithmetic.
THEOREM ACC_ImplementsCell == Spec => ImplementsCell
<1>1. Init => BusyInv /\ RoomInv
  BY InitBusy, InitRoom
<1>2. BusyInv /\ RoomInv /\ [Next]_vars => (BusyInv /\ RoomInv)'
  BY StepBusy, StepRoom
<1> QED BY <1>1, <1>2, FreshCell, NextImplements, PTL
        DEF Spec, ImplementsCell, Cell!Spec

-----------------------------------------------------------------------------
(***************************************************************************)
(* The sums in the adder, in the order in which they come out.             *)
(***************************************************************************)
UpFrom(S, k) == {j \in S : j >= k}

\* In a finite set of integers exactly one element has i elements from it up.
LEMMA Ranks ==
    ASSUME NEW S \in SUBSET Int, IsFiniteSet(S)
    PROVE  /\ Cardinality(S) \in Nat
           /\ \A k \in S : Cardinality(UpFrom(S, k)) \in 1 .. Cardinality(S)
           /\ \A k, m \in S :
                 Cardinality(UpFrom(S, k)) = Cardinality(UpFrom(S, m)) => k = m
           /\ \A i \in 1 .. Cardinality(S) :
                 \E k \in S : Cardinality(UpFrom(S, k)) = i
<1> DEFINE n == Cardinality(S)
           f == [k \in S |-> Cardinality(UpFrom(S, k))]
<1>1. n \in Nat
  BY FS_CardinalityType
<1>2. ASSUME NEW k \in S
      PROVE  /\ IsFiniteSet(UpFrom(S, k))
             /\ Cardinality(UpFrom(S, k)) \in 1 .. n
  <2>1. UpFrom(S, k) \in SUBSET S /\ k \in UpFrom(S, k)
    BY DEF UpFrom
  <2>2. /\ IsFiniteSet(UpFrom(S, k))
        /\ Cardinality(UpFrom(S, k)) <= n
    BY <2>1, FS_Subset
  <2>3. Cardinality(UpFrom(S, k)) \in Nat /\ Cardinality(UpFrom(S, k)) # 0
    BY <2>1, <2>2, FS_CardinalityType, FS_EmptySet
  <2> QED BY <1>1, <2>2, <2>3
<1>3. ASSUME NEW k \in S, NEW m \in S, k < m
      PROVE  Cardinality(UpFrom(S, k)) # Cardinality(UpFrom(S, m))
  <2>1. UpFrom(S, m) \in SUBSET UpFrom(S, k) /\ k \in UpFrom(S, k)
    <3>1. \A j \in S : j >= m => j >= k
      BY <1>3
    <3>2. k >= k
      OBVIOUS
    <3> QED BY <3>1, <3>2 DEF UpFrom
  <2>2. k \notin UpFrom(S, m)
    BY <1>3 DEF UpFrom
  <2>3. Cardinality(UpFrom(S, k)) = Cardinality(UpFrom(S, m)) =>
           UpFrom(S, k) = UpFrom(S, m)
    BY <1>2, <2>1, FS_Subset
  <2> QED BY <2>1, <2>2, <2>3
<1>4. \A k, m \in S :
         Cardinality(UpFrom(S, k)) = Cardinality(UpFrom(S, m)) => k = m
  <2> SUFFICES ASSUME NEW k \in S, NEW m \in S, k # m
               PROVE  Cardinality(UpFrom(S, k)) # Cardinality(UpFrom(S, m))
    OBVIOUS
  <2>1. k < m \/ m < k
    OBVIOUS
  <2> QED BY <2>1, <1>3
<1>5. f \in Injection(S, 1 .. n)
  <2>1. f \in [S -> 1 .. n]
    BY <1>2
  <2>2. \A a, b \in S : f[a] = f[b] => a = b
    BY <1>4
  <2> HIDE DEF f
  <2> QED BY <2>1, <2>2, Fun_IsInj
<1>6. IsFiniteSet(1 .. n) /\ Cardinality(1 .. n) = n
  BY <1>1, FS_Interval
<1>7. f \in Surjection(S, 1 .. n)
  <2> HIDE DEF f
  <2> QED BY <1>5, <1>6, FS_Injection
<1>8. \A i \in 1 .. n : \E k \in S : f[k] = i
  <2> HIDE DEF f
  <2> QED BY <1>7 DEF Surjection
<1> QED BY <1>1, <1>2, <1>4, <1>8

\* The words at the stages of S, the one at the latest stage first.
ByRank(S, words) ==
    [i \in 1 .. Cardinality(S) |->
       words[CHOOSE k \in S : Cardinality(UpFrom(S, k)) = i]]

LEMMA RankWords ==
    ASSUME NEW S \in SUBSET Stages, NEW words \in [Stages -> Data]
    PROVE  /\ IsFiniteSet(S) /\ Cardinality(S) \in Nat
           /\ ByRank(S, words) \in Seq(Data)
           /\ Len(ByRank(S, words)) = Cardinality(S)
           /\ \A k \in S :
                 /\ Cardinality(UpFrom(S, k)) \in 1 .. Cardinality(S)
                 /\ ByRank(S, words)[Cardinality(UpFrom(S, k))] = words[k]
           /\ \A i \in 1 .. Cardinality(S) :
                 \E k \in S : Cardinality(UpFrom(S, k)) = i
<1>1. S \in SUBSET Int /\ IsFiniteSet(S)
  <2>1. IsFiniteSet(Stages) /\ Stages \subseteq Int
    BY StagesAssumption, FS_Interval DEF Stages
  <2> QED BY <2>1, FS_Subset
<1>2. /\ Cardinality(S) \in Nat
      /\ \A k \in S : Cardinality(UpFrom(S, k)) \in 1 .. Cardinality(S)
      /\ \A i \in 1 .. Cardinality(S) :
            \E k \in S : Cardinality(UpFrom(S, k)) = i
  BY <1>1, Ranks
<1>3. ASSUME NEW k \in S
      PROVE  k = CHOOSE m \in S :
                    Cardinality(UpFrom(S, m)) = Cardinality(UpFrom(S, k))
  <2>1. \A m \in S :
           Cardinality(UpFrom(S, m)) = Cardinality(UpFrom(S, k)) => m = k
    BY <1>1, Ranks
  <2> QED BY <2>1
<1>4. ASSUME NEW i \in 1 .. Cardinality(S)
      PROVE  words[CHOOSE k \in S : Cardinality(UpFrom(S, k)) = i] \in Data
  <2>1. (CHOOSE k \in S : Cardinality(UpFrom(S, k)) = i) \in S
    BY <1>2
  <2> QED BY <2>1
<1>5. /\ ByRank(S, words) \in Seq(Data)
      /\ Len(ByRank(S, words)) = Cardinality(S)
  BY <1>2, <1>4 DEF ByRank
<1>6. ASSUME NEW k \in S
      PROVE  ByRank(S, words)[Cardinality(UpFrom(S, k))] = words[k]
  BY <1>2, <1>3 DEF ByRank
<1> QED BY <1>1, <1>2, <1>5, <1>6

LEMMA SumsAreRanked == SumsInAdder = ByRank(InFlight, Adder)
BY DEF SumsInAdder, ByRank, FromStage, UpFrom

\* A clock moves every sum one stage on: its rank falls by one if the oldest sum
\* leaves, and a new one comes behind them all.
LEMMA RankShift ==
    ASSUME TypeOK, Validreg' = Shift(Validreg, Valid)
    PROVE  /\ \A k \in InFlight :
                 k # LastStage =>
                    /\ k + 1 \in InFlight' /\ k + 1 # 0
                    /\ Cardinality(UpFrom(InFlight', k + 1)) =
                          Cardinality(UpFrom(InFlight, k))
                             - (IF Validreg[LastStage] THEN 1 ELSE 0)
           /\ Valid => 0 \in InFlight' /\ UpFrom(InFlight', 0) = InFlight'
           /\ LastStage \in InFlight <=> Validreg[LastStage]
           /\ LastStage \in InFlight => Cardinality(UpFrom(InFlight, LastStage)) = 1
<1>1. /\ LastStage \in Stages /\ 0 \in Stages
      /\ \A k \in Stages : k \in Int /\ k >= 0 /\ k <= LastStage
      /\ \A k \in Stages : k # 0 => k - 1 \in Stages
      /\ \A k \in Stages : k # LastStage => k + 1 \in Stages /\ k + 1 # 0
      /\ LastStage \in Int
  BY StagesAssumption DEF Stages, LastStage
<1>2. /\ \A k \in Stages : k \in InFlight <=> Validreg[k]
      /\ \A k \in Stages : k \in InFlight' <=> Validreg'[k]
      /\ InFlight \subseteq Stages /\ InFlight' \subseteq Stages
  BY DEF InFlight
<1>3. \A k \in Stages : Validreg'[k] = IF k = 0 THEN Valid ELSE Validreg[k - 1]
  BY DEF Shift
<1>4. \A k \in Stages : k # LastStage => (k + 1 \in InFlight' <=> k \in InFlight)
  <2> SUFFICES ASSUME NEW k \in Stages, k # LastStage
               PROVE  k + 1 \in InFlight' <=> k \in InFlight
    OBVIOUS
  <2>1. k + 1 \in Stages /\ k + 1 # 0 /\ (k + 1) - 1 = k
    BY <1>1
  <2> QED BY <1>2, <1>3, <2>1
<1>5. ASSUME NEW k \in InFlight, k # LastStage
      PROVE  Cardinality(UpFrom(InFlight', k + 1)) =
                Cardinality(UpFrom(InFlight, k))
                   - (IF Validreg[LastStage] THEN 1 ELSE 0)
  <2> DEFINE A == UpFrom(InFlight, k)
             B == UpFrom(InFlight', k + 1)
             C == A \ {LastStage}
             f == [j \in C |-> j + 1]
  <2>1. IsFiniteSet(A)
    <3>1. A \in SUBSET InFlight
      BY DEF UpFrom
    <3> QED BY <3>1, InFlightCount, FS_Subset
  <2>2. LastStage \in A <=> Validreg[LastStage]
    BY <1>1, <1>2 DEF UpFrom
  <2>3. /\ IsFiniteSet(C)
        /\ Cardinality(C) = Cardinality(A)
                               - (IF Validreg[LastStage] THEN 1 ELSE 0)
    <3>1. Cardinality(A) \in Nat
      BY <2>1, FS_CardinalityType
    <3> HIDE DEF A
    <3> QED BY <2>1, <2>2, <3>1, FS_RemoveElement
  <2>4. \A j \in C : j \in Stages /\ j # LastStage /\ j \in InFlight /\ j >= k
    BY <1>2 DEF UpFrom
  <2>5. k \in Stages /\ k \in Int
    BY <1>1, <1>2
  <2>6. f \in [C -> B]
    <3> SUFFICES ASSUME NEW j \in C PROVE j + 1 \in B
      OBVIOUS
    <3>1. j + 1 \in InFlight' /\ j \in Int /\ j >= k
      BY <1>1, <1>4, <2>4
    <3>2. j + 1 >= k + 1
      BY <2>5, <3>1
    <3> QED BY <3>1, <3>2 DEF UpFrom
  <2>7. \A a, b \in C : f[a] = f[b] => a = b
    <3>1. \A a \in C : a \in Int
      BY <1>1, <2>4
    <3> QED BY <3>1
  <2>8. \A t \in B : \E j \in C : f[j] = t
    <3> SUFFICES ASSUME NEW t \in B PROVE \E j \in C : f[j] = t
      OBVIOUS
    <3>1. t \in InFlight' /\ t >= k + 1 /\ t \in Stages
      BY <1>2 DEF UpFrom
    <3>2. /\ t - 1 \in Stages /\ t - 1 # LastStage /\ (t - 1) + 1 = t
          /\ t - 1 >= k
      BY <1>1, <2>5, <3>1, StagesAssumption DEF Stages, LastStage
    <3>3. t - 1 \in InFlight
      BY <1>4, <3>1, <3>2
    <3>4. t - 1 \in C
      BY <3>2, <3>3 DEF UpFrom
    <3> HIDE DEF C
    <3> QED BY <3>2, <3>4
  <2>9. ExistsBijection(C, B)
    <3> HIDE DEF f, C, B
    <3>1. f \in Bijection(C, B)
      BY <2>6, <2>7, <2>8, Fun_IsBij
    <3> QED BY <3>1 DEF ExistsBijection
  <2>10. Cardinality(B) = Cardinality(C)
    <3> HIDE DEF C, B
    <3> QED BY <2>3, <2>9, FS_Bijection
  <2> QED BY <2>3, <2>10
<1>6. Valid => 0 \in InFlight' /\ UpFrom(InFlight', 0) = InFlight'
  BY <1>1, <1>2, <1>3 DEF UpFrom
<1>7. LastStage \in InFlight => Cardinality(UpFrom(InFlight, LastStage)) = 1
  <2> SUFFICES ASSUME LastStage \in InFlight
               PROVE  Cardinality(UpFrom(InFlight, LastStage)) = 1
    OBVIOUS
  <2>1. \A k \in InFlight : k >= LastStage <=> k = LastStage
    BY <1>1, <1>2
  <2>2. UpFrom(InFlight, LastStage) = {LastStage}
    BY <2>1 DEF UpFrom
  <2> QED BY <2>2, FS_Singleton
<1> QED BY <1>1, <1>2, <1>4, <1>5, <1>6, <1>7

\* So the sums in the adder step as a queue: the one at the last stage leaves, the
\* one that goes in comes last.
LEMMA SumsStep ==
    ASSUME TypeOK, TypeOK', NEW sum \in Data,
           Validreg' = Shift(Validreg, Valid), Adder' = Shift(Adder, sum)
    PROVE  /\ SumsInAdder' = QueueStep(SumsInAdder, Valid, sum, Validreg[LastStage])
           /\ Validreg[LastStage] =>
                 SumsInAdder # << >> /\ Head(SumsInAdder) = AccumulatedResult
<1> DEFINE out == Validreg[LastStage]
           o == IF out THEN 1 ELSE 0
           v == IF Valid THEN 1 ELSE 0
           n == Cardinality(InFlight)
           n2 == Cardinality(InFlight')
           rest == IF out THEN Tail(SumsInAdder) ELSE SumsInAdder
           more == IF Valid THEN <<sum>> ELSE << >>
<1>1. /\ InFlight \subseteq Stages /\ n \in Nat
      /\ SumsInAdder \in Seq(Data) /\ Len(SumsInAdder) = n
      /\ \A k \in InFlight :
            /\ Cardinality(UpFrom(InFlight, k)) \in 1 .. n
            /\ SumsInAdder[Cardinality(UpFrom(InFlight, k))] = Adder[k]
      /\ \A i \in 1 .. n : \E k \in InFlight : Cardinality(UpFrom(InFlight, k)) = i
  <2>1. InFlight \in SUBSET Stages /\ Adder \in [Stages -> Data]
    BY DEF InFlight, TypeOK
  <2> QED BY <2>1, RankWords, SumsAreRanked
<1>2. /\ InFlight' \subseteq Stages /\ n2 \in Nat
      /\ SumsInAdder' \in Seq(Data) /\ Len(SumsInAdder') = n2
      /\ \A k \in InFlight' :
            /\ Cardinality(UpFrom(InFlight', k)) \in 1 .. n2
            /\ SumsInAdder'[Cardinality(UpFrom(InFlight', k))] = Adder'[k]
  <2>1. InFlight' \in SUBSET Stages /\ Adder' \in [Stages -> Data]
    BY DEF InFlight, TypeOK
  <2>2. SumsInAdder' = ByRank(InFlight', Adder')
    BY DEF SumsInAdder, ByRank, FromStage, UpFrom
  <2> QED BY <2>1, <2>2, RankWords
<1>3. n2 = n - o + v
  BY <1>1, InFlightStep
<1>4. out => n >= 1 /\ SumsInAdder[1] = AccumulatedResult
  <2> SUFFICES ASSUME out PROVE n >= 1 /\ SumsInAdder[1] = AccumulatedResult
    OBVIOUS
  <2>1. /\ LastStage \in InFlight
        /\ Cardinality(UpFrom(InFlight, LastStage)) = 1
    BY RankShift
  <2>2. 1 \in 1 .. n /\ SumsInAdder[1] = Adder[LastStage]
    BY <1>1, <2>1
  <2> QED BY <1>1, <2>2 DEF AccumulatedResult
<1>5. /\ rest \in Seq(Data) /\ Len(rest) = n - o
      /\ \A i \in 1 .. n - o : rest[i] = SumsInAdder[i + o]
  <2>1. CASE out
    <3>1. SumsInAdder # << >>
      BY <1>1, <1>4, <2>1
    <3>2. /\ Tail(SumsInAdder) \in Seq(Data) /\ Len(Tail(SumsInAdder)) = n - 1
          /\ \A i \in 1 .. n - 1 : Tail(SumsInAdder)[i] = SumsInAdder[i + 1]
      BY <1>1, <3>1, HeadTailProperties
    <3> QED BY <2>1, <3>2
  <2>2. CASE ~out
    BY <1>1, <2>2
  <2> QED BY <2>1, <2>2
<1>6. more \in Seq(Data) /\ Len(more) = v
  OBVIOUS
<1>7. ASSUME NEW i \in 1 .. n - o
      PROVE  SumsInAdder'[i] = SumsInAdder[i + o]
  <2>1. i + o \in 1 .. n
    BY <1>1
  <2>2. PICK k \in InFlight : Cardinality(UpFrom(InFlight, k)) = i + o
    BY <1>1, <2>1
  <2>3. k # LastStage
    BY <2>2, RankShift
  <2>4. /\ k + 1 \in InFlight' /\ k + 1 # 0
        /\ Cardinality(UpFrom(InFlight', k + 1)) = i
    BY <2>2, <2>3, RankShift
  <2>5. Adder'[k + 1] = Adder[k]
    <3>1. k \in Stages /\ k + 1 \in Stages
      BY <1>1, <1>2, <2>4
    <3>2. (k + 1) - 1 = k
      BY <3>1 DEF Stages
    <3> QED BY <2>4, <3>1, <3>2 DEF Shift
  <2> QED BY <1>1, <1>2, <2>2, <2>4, <2>5
<1>8. Valid => SumsInAdder'[n2] = sum
  <2> SUFFICES ASSUME Valid PROVE SumsInAdder'[n2] = sum
    OBVIOUS
  <2>1. 0 \in InFlight' /\ UpFrom(InFlight', 0) = InFlight'
    BY RankShift
  <2>2. Adder'[0] = sum
    BY <1>2, <2>1 DEF Shift
  <2> QED BY <1>2, <2>1, <2>2
<1>9. SumsInAdder' = rest \o more
  <2>1. /\ rest \o more \in Seq(Data) /\ Len(rest \o more) = n - o + v
        /\ \A i \in 1 .. n - o + v :
              (rest \o more)[i] = IF i <= n - o THEN rest[i] ELSE more[i - (n - o)]
    <3> HIDE DEF rest, more, o, v, n
    <3>1. /\ rest \o more \in Seq(Data)
          /\ Len(rest \o more) = Len(rest) + Len(more)
          /\ \A i \in 1 .. Len(rest) + Len(more) :
                (rest \o more)[i] = IF i <= Len(rest) THEN rest[i]
                                    ELSE more[i - Len(rest)]
      BY <1>5, <1>6, ConcatProperties
    <3> QED BY <1>5, <1>6, <3>1
  <2>2. n \in Nat /\ o \in {0, 1} /\ v \in {0, 1} /\ n2 \in Nat /\ n >= o
        /\ (v = 1 => Valid)
    BY <1>1, <1>2, <1>4
  <2>3. Valid => more[1] = sum
    OBVIOUS
  <2> HIDE DEF rest, more, o, v, n, n2
  <2>4. ASSUME NEW i \in 1 .. n2 PROVE SumsInAdder'[i] = (rest \o more)[i]
    <3>1. CASE i <= n - o
      <4>1. i \in 1 .. n - o /\ i \in 1 .. n - o + v
        BY <1>3, <2>2, <3>1
      <4> QED BY <1>5, <1>7, <2>1, <3>1, <4>1
    <3>2. CASE i > n - o
      <4>1. /\ Valid /\ i = n2 /\ i - (n - o) = 1 /\ ~(i <= n - o)
            /\ i \in 1 .. n - o + v
        BY <1>3, <2>2, <3>2
      <4>2. (rest \o more)[i] = more[1]
        BY <2>1, <4>1
      <4> QED BY <1>8, <2>3, <4>1, <4>2
    <3>3. i <= n - o \/ i > n - o
      BY <2>2
    <3> QED BY <3>1, <3>2, <3>3
  <2> QED BY <1>2, <1>3, <2>1, <2>4, SeqEqual
<1>10. out => SumsInAdder # << >> /\ Head(SumsInAdder) = AccumulatedResult
  BY <1>1, <1>4
<1>11. rest \o more = QueueStep(SumsInAdder, Valid, sum, out)
  <2> HIDE DEF rest
  <2>1. rest \o <<sum>> = Append(rest, sum) /\ rest \o << >> = rest
    BY <1>5
  <2> QED BY <2>1 DEF QueueStep, rest
<1> QED BY <1>9, <1>10, <1>11

-----------------------------------------------------------------------------
(***************************************************************************)
(* The accumulator adds up groups: it implements Accumulator.              *)
(***************************************************************************)
\* A partial sum in the adder belongs to a group that has begun; without this,
\* what comes back would not be what the next word is added to.
GroupBegun == Add_Busy => NOP_Counter # 0

AddsInv == BusyInv /\ RoomInv /\ GroupBegun

LEMMA ClockGroupBegun ==
    ASSUME BusyInv, GroupBegun, NEW v \in BOOLEAN, NEW r \in BOOLEAN,
           NEW d \in Data, Clock(v, d, r)
    PROVE  GroupBegun'
<1>1. NOP_Counter' = Counter /\ NOP_Counter \in 0 .. NOPCount - 1
  BY DEF Clock, BusyInv, TypeOK
<1>2. Valid => ~Add_Busy'
  BY DEF Clock, Busy
<1>3. NOPIn => (Add_Busy' => Add_Busy)
  BY DEF Clock, Busy
<1>4. CASE ~NOPIn /\ ~LastOfGroup
  <2>1. NOP_Counter # CounterRange - 1
    BY <1>1, <1>4, CountAssumption DEF LastOfGroup
  <2>2. NOP_Counter' = NOP_Counter + 1
    BY <1>1, <1>4, <2>1 DEF Counter
  <2> QED BY <1>1, <2>2 DEF GroupBegun
<1>5. CASE ~NOPIn /\ LastOfGroup
  BY <1>2, <1>5 DEF Valid, GroupBegun
<1>6. CASE NOPIn
  <2>1. NOP_Counter' = NOP_Counter
    BY <1>1, <1>6 DEF Counter
  <2> QED BY <1>3, <1>6, <2>1 DEF GroupBegun
<1> QED BY <1>4, <1>5, <1>6

LEMMA InitAdds == Init => AddsInv
BY InitBusy, InitRoom DEF AddsInv, GroupBegun, Init

LEMMA StepAdds == AddsInv /\ [Next]_vars => AddsInv'
<1> SUFFICES ASSUME AddsInv, [Next]_vars PROVE AddsInv'
  OBVIOUS
<1>1. BusyInv' /\ RoomInv'
  BY StepBusy, StepRoom DEF AddsInv
<1>2. GroupBegun'
  <2>1. ASSUME NEW v \in BOOLEAN, NEW r \in BOOLEAN, NEW d \in Input,
               Clock(v, d, r)
        PROVE  GroupBegun'
    BY <2>1, InputAssumption, ClockGroupBegun DEF AddsInv
  <2>2. CASE Reset
    BY <2>2 DEF Reset, GroupBegun
  <2>3. CASE UNCHANGED vars
    BY <2>3 DEF vars, AddsInv, GroupBegun
  <2> QED BY <2>1, <2>2, <2>3 DEF Next, ClockNext
<1> QED BY <1>1, <1>2 DEF AddsInv

\* The sum of the group begun steps with the additions only, wherever it is: it
\* moves up the adder and back into AccumulatedData without a change.
LEMMA PartialStep ==
    ASSUME AddsInv, NEW v \in BOOLEAN, NEW r \in BOOLEAN, NEW d \in Data,
           Clock(v, d, r)
    PROVE  PartialSum' = IF Valid THEN Zero
                         ELSE IF ~NOPIn
                         THEN FPADD(FifoOut(ReadyData_Buffer), PartialSum)
                         ELSE PartialSum
<1>1. /\ LastStage \in Stages /\ 0 \in Stages
      /\ \A k \in Stages : k \in Int
      /\ \A k \in Stages : k # 0 => k - 1 \in Stages
      /\ \A k \in Stages : k # LastStage =>
            k + 1 \in Stages /\ k + 1 # 0 /\ (k + 1) - 1 = k
  BY StagesAssumption DEF Stages, LastStage
<1>2. /\ Add_Busy <=> \E k \in Stages : ~NOPreg[k]
      /\ \A j, k \in Stages : ~NOPreg[j] /\ ~NOPreg[k] => j = k
      /\ Add_Busy \in BOOLEAN /\ GroupBegun
  BY DEF AddsInv, BusyInv, OneAdditionAtATime, TypeOK
<1>3. /\ Add_Busy' <=> \E k \in Stages : ~NOPreg'[k]
      /\ \A j, k \in Stages : ~NOPreg'[j] /\ ~NOPreg'[k] => j = k
      /\ Add_Busy' \in BOOLEAN
  <2>1. TypeOK' /\ OneAdditionAtATime'
    BY ClockType, ClockOneAddition DEF AddsInv, BusyInv
  <2> QED BY <2>1 DEF OneAdditionAtATime, TypeOK
<1>4. /\ \A k \in Stages : Adder'[k] =
            IF k = 0 THEN FPADD(FifoOut(ReadyData_Buffer),
                                ReadyDataFromAccumulatedData)
            ELSE Adder[k - 1]
      /\ Add_Busy' = Busy /\ NOP_Counter' = Counter
      /\ AccumulatedData' = IF Accumulate THEN AccumulatedResult
                                          ELSE AccumulatedData
      /\ ~Valid => \A k \in Stages :
            NOPreg'[k] = IF k = 0 THEN NOPIn ELSE NOPreg[k - 1]
  BY DEF Clock, Shift
\* Where the partial sum is, before and after.
<1>5. \A k \in Stages : ~NOPreg[k] => Add_Busy /\ PartialSum = Adder[k]
  <2> SUFFICES ASSUME NEW k \in Stages, ~NOPreg[k]
               PROVE  Add_Busy /\ PartialSum = Adder[k]
    OBVIOUS
  <2>1. k = CHOOSE j \in Stages : ~NOPreg[j]
    BY <1>2
  <2> QED BY <1>2, <2>1 DEF PartialSum
<1>6. \A k \in Stages : ~NOPreg'[k] => Add_Busy' /\ PartialSum' = Adder'[k]
  <2> SUFFICES ASSUME NEW k \in Stages, ~NOPreg'[k]
               PROVE  Add_Busy' /\ PartialSum' = Adder'[k]
    OBVIOUS
  <2>1. k = CHOOSE j \in Stages : ~NOPreg'[j]
    BY <1>3
  <2> QED BY <1>3, <2>1 DEF PartialSum
<1>7. /\ ~Add_Busy => PartialSum = ReadyDataFromAccumulatedData
      /\ ~Add_Busy' => PartialSum' = IF NOP_Counter' = 0 THEN Zero
                                     ELSE AccumulatedData'
  BY DEF PartialSum, ReadyDataFromAccumulatedData
<1>8. CASE Valid
  <2>1. ~Add_Busy' /\ NOP_Counter' = 0
    BY <1>4, <1>8 DEF Busy, Counter, Valid
  <2> QED BY <1>7, <1>8, <2>1
<1>9. CASE ~Valid /\ ~NOPIn
  <2>1. ~Add_Busy
    BY <1>9 DEF NOPIn
  <2>2. ~NOPreg'[0] /\ Adder'[0] = FPADD(FifoOut(ReadyData_Buffer), PartialSum)
    BY <1>1, <1>4, <1>7, <1>9, <2>1
  <2> QED BY <1>1, <1>6, <1>9, <2>2
<1>10. CASE NOPIn
  <2>1. ~Valid /\ NOP_Counter' = NOP_Counter
    BY <1>4, <1>10 DEF Valid, Counter
  <2>2. CASE ~Add_Busy
    <3>1. ~Accumulate
      BY <1>1, <1>2, <2>2 DEF Accumulate, NOPOut
    <3>2. ~Add_Busy' /\ AccumulatedData' = AccumulatedData
      BY <1>4, <1>10, <2>1, <2>2, <3>1 DEF Busy
    <3> QED BY <1>7, <1>10, <2>1, <2>2, <3>2 DEF ReadyDataFromAccumulatedData
  <2>3. CASE Add_Busy
    <3>1. PICK k \in Stages : ~NOPreg[k]
      BY <1>2, <2>3
    <3>2. PartialSum = Adder[k] /\ NOP_Counter # 0
      BY <1>2, <1>5, <3>1, <2>3 DEF GroupBegun
    <3>3. CASE k = LastStage
      <4>1. Accumulate
        BY <2>1, <3>1, <3>3 DEF Accumulate, NOPOut
      <4>2. ~Add_Busy' /\ AccumulatedData' = Adder[k]
        BY <1>4, <3>3, <4>1 DEF Busy, AccumulatedResult
      <4> QED BY <1>7, <1>10, <2>1, <3>2, <4>2
    <3>4. CASE k # LastStage
      <4>1. ~NOPreg'[k + 1] /\ Adder'[k + 1] = Adder[k]
        BY <1>1, <1>4, <2>1, <3>1, <3>4
      <4> QED BY <1>1, <1>6, <1>10, <2>1, <3>2, <3>4, <4>1
    <3> QED BY <3>3, <3>4
  <2> QED BY <1>2, <2>2, <2>3
<1>11. NOPIn \in BOOLEAN /\ Valid \in BOOLEAN
  BY DEF NOPIn, Valid
<1> QED BY <1>8, <1>9, <1>10, <1>11

LEMMA TailOfConcat ==
    ASSUME NEW s \in Seq(Data), NEW t \in Seq(Data), s # << >>
    PROVE  Tail(s \o t) = Tail(s) \o t
<1> DEFINE a == Tail(s \o t)
           b == Tail(s) \o t
<1>1. /\ Len(s) \in Nat /\ Len(t) \in Nat /\ Len(s) # 0
      /\ Tail(s) \in Seq(Data) /\ Len(Tail(s)) = Len(s) - 1
      /\ \A i \in 1 .. Len(s) - 1 : Tail(s)[i] = s[i + 1]
  BY HeadTailProperties, EmptySeq, LenProperties
<1>2. /\ s \o t \in Seq(Data) /\ Len(s \o t) = Len(s) + Len(t)
      /\ \A i \in 1 .. Len(s) + Len(t) :
            (s \o t)[i] = IF i <= Len(s) THEN s[i] ELSE t[i - Len(s)]
  BY ConcatProperties
<1>3. s \o t # << >>
  BY <1>1, <1>2
<1>4. /\ a \in Seq(Data) /\ Len(a) = Len(s) + Len(t) - 1
      /\ \A i \in 1 .. Len(s) + Len(t) - 1 : a[i] = (s \o t)[i + 1]
  BY <1>2, <1>3, HeadTailProperties
<1>5. /\ b \in Seq(Data) /\ Len(b) = Len(s) - 1 + Len(t)
      /\ \A i \in 1 .. Len(s) - 1 + Len(t) :
            b[i] = IF i <= Len(s) - 1 THEN Tail(s)[i] ELSE t[i - (Len(s) - 1)]
  BY <1>1, ConcatProperties
<1> HIDE DEF a, b
<1>6. \A i \in 1 .. Len(a) : a[i] = b[i]
  <2> SUFFICES ASSUME NEW i \in 1 .. Len(s) + Len(t) - 1 PROVE a[i] = b[i]
    BY <1>4
  <2>1. a[i] = IF i + 1 <= Len(s) THEN s[i + 1] ELSE t[i + 1 - Len(s)]
    BY <1>1, <1>2, <1>4
  <2>2. b[i] = IF i <= Len(s) - 1 THEN Tail(s)[i] ELSE t[i - (Len(s) - 1)]
    BY <1>1, <1>5
  <2>3. CASE i <= Len(s) - 1
    BY <1>1, <2>1, <2>2, <2>3
  <2>4. CASE i > Len(s) - 1
    <3>1. i - (Len(s) - 1) = i + 1 - Len(s)
      BY <1>1
    <3> QED BY <1>1, <2>1, <2>2, <2>4, <3>1
  <2> QED BY <1>1, <2>3, <2>4
<1>7. Len(a) = Len(b)
  BY <1>1, <1>4, <1>5
<1>8. a = b
  BY <1>4, <1>5, <1>6, <1>7, SeqEqual
<1> QED BY <1>8 DEF a, b

Joined(a, b) == a \o b
Queues == Seq(Data)

LEMMA Regroup ==
    ASSUME NEW q \in Queues, NEW x \in Queues, NEW s \in Queues, NEW y \in Queues
    PROVE  Joined(Joined(q, x), Joined(s, y)) = Joined(Joined(q, Joined(x, s)), y)
<1>1. q \o x \in Seq(Data)
  BY ConcatProperties DEF Queues
<1>2. ((q \o x) \o s) \o y = (q \o x) \o (s \o y)
  BY <1>1, ConcatAssociative, SMTT(30) DEF Queues
<1>3. (q \o x) \o s = q \o (x \o s)
  BY ConcatAssociative, SMTT(30) DEF Queues
<1> QED BY <1>2, <1>3, Zenon DEF Joined

\* Two queues in a row, the first fed by the second, step as one.
LEMMA QueueOfTwo ==
    ASSUME NEW a \in Seq(Data), NEW b \in Seq(Data),
           NEW out \in BOOLEAN, NEW take \in BOOLEAN, NEW new \in BOOLEAN,
           NEW w \in Data, NEW d \in Data,
           take => a # << >>, out => b # << >> /\ Head(b) = w
    PROVE  Joined(QueueStep(a, out, w, take), QueueStep(b, new, d, out)) =
              QueueStep(Joined(a, b), new, d, take)
<1>1. PICK q \in Seq(Data) : q = IF take THEN Tail(a) ELSE a
  <2>1. (IF take THEN Tail(a) ELSE a) \in Seq(Data)
    OBVIOUS
  <2> QED BY <2>1, Zenon
<1>2. PICK s \in Seq(Data) : s = IF out THEN Tail(b) ELSE b
  <2>1. (IF out THEN Tail(b) ELSE b) \in Seq(Data)
    OBVIOUS
  <2> QED BY <2>1, Zenon
<1>3. PICK x \in Seq(Data) : x = IF out THEN <<w>> ELSE << >>
  <2>1. (IF out THEN <<w>> ELSE << >>) \in Seq(Data)
    OBVIOUS
  <2> QED BY <2>1, Zenon
<1>4. PICK y \in Seq(Data) : y = IF new THEN <<d>> ELSE << >>
  <2>1. (IF new THEN <<d>> ELSE << >>) \in Seq(Data)
    OBVIOUS
  <2> QED BY <2>1, Zenon
<1>5. QueueStep(a, out, w, take) = Joined(q, x)
  <2>1. q \o <<w>> = Append(q, w) /\ q \o << >> = q
    BY <1>1
  <2> QED BY <1>1, <1>3, <2>1 DEF QueueStep, Joined
<1>6. Joined(x, s) = b
  <2>1. CASE out
    BY <1>2, <1>3, <2>1 DEF Joined
  <2>2. CASE ~out
    BY <1>2, <1>3, <2>2 DEF Joined
  <2> QED BY <2>1, <2>2
<1>7. Joined(q, b) = IF take THEN Tail(Joined(a, b)) ELSE Joined(a, b)
  <2>1. CASE take
    <3>1. Tail(a \o b) = Tail(a) \o b
      BY <2>1, TailOfConcat
    <3> QED BY <1>1, <2>1, <3>1 DEF Joined
  <2>2. CASE ~take
    BY <1>1, <2>2
  <2> QED BY <2>1, <2>2
<1>8. Joined(Joined(q, b), y) = QueueStep(Joined(a, b), new, d, take)
  <2>1. PICK r \in Seq(Data) : r = Joined(q, b)
    <3>1. q \o b \in Seq(Data)
      OBVIOUS
    <3> QED BY <3>1, Zenon DEF Joined
  <2>2. Joined(r, <<d>>) = Append(r, d) /\ Joined(r, << >>) = r
    BY <2>1 DEF Joined
  <2>3. QueueStep(Joined(a, b), new, d, take) = IF new THEN Append(r, d) ELSE r
    BY <1>7, <2>1 DEF QueueStep
  <2> QED BY <1>4, <2>1, <2>2, <2>3
<1>9. Joined(Joined(q, x), Joined(s, y)) = Joined(Joined(q, Joined(x, s)), y)
  <2>1. q \in Queues /\ x \in Queues /\ s \in Queues /\ y \in Queues
    BY <1>1, <1>2, <1>3, <1>4 DEF Queues
  <2> QED BY <2>1, Regroup
<1>10. QueueStep(b, new, d, out) = Joined(s, y)
  <2>1. s \o <<d>> = Append(s, d) /\ s \o << >> = s
    BY <1>2
  <2> QED BY <1>2, <1>4, <2>1 DEF QueueStep, Joined
<1> QED BY <1>5, <1>6, <1>8, <1>9, <1>10

\* A clock of the accumulator is one of Accumulator.
LEMMA ClockAdds ==
    ASSUME AddsInv, NEW v \in BOOLEAN, NEW r \in BOOLEAN, NEW d \in Input,
           Clock(v, d, r)
    PROVE  Abstract!Clock(v /\ DataInRdy, d, ~NOPIn, DataOutValid /\ r)
<1> DEFINE accept == v /\ DataInRdy
           add == ~NOPIn
           take == DataOutValid /\ r
           out == Validreg[LastStage]
           head == FifoOut(ReadyData_Buffer)
           sum == FPADD(head, ReadyDataFromAccumulatedData)
           all == Joined(Out_Words, SumsInAdder)
<1>1. /\ BusyInv /\ RoomInv /\ TypeOK /\ TypeOK'
      /\ d \in Data /\ sum \in Data /\ AccumulatedResult \in Data
      /\ out \in BOOLEAN /\ accept \in BOOLEAN /\ add \in BOOLEAN
      /\ take \in BOOLEAN /\ Valid \in BOOLEAN
  <2>1. BusyInv /\ RoomInv /\ TypeOK /\ d \in Data
    BY InputAssumption DEF AddsInv, BusyInv
  <2>2. TypeOK'
    BY <2>1, ClockType
  <2>3. sum \in Data /\ out \in BOOLEAN
    BY <2>1, Wires, AddAssumption DEF TypeOK
  <2> QED BY <2>1, <2>2, <2>3, Wires
<1>2. /\ Ready_Words \in Seq(Data) /\ Out_Words \in Seq(Data)
      /\ add => Ready_Words # << >> /\ Head(Ready_Words) = head /\ ~Add_Busy
      /\ take => Out_Words # << >>
  BY <1>1, CellWires
<1>3. Ready_Words' = QueueStep(Ready_Words, accept, d, add)
  <2>1. ReadyData_Buffer' = FifoClock(ReadyData_Buffer, accept, d, add)
    BY DEF Clock
  <2>2. /\ ReadyData_Buffer \in Fifo /\ FifoOK(ReadyData_Buffer)
        /\ accept => FifoCount(ReadyData_Buffer) < BufferSize
        /\ add => FifoCount(ReadyData_Buffer) > 0
    BY <1>1, CellWires DEF RoomInv, TypeOK
  <2> HIDE DEF accept, add
  <2> QED BY <1>1, <2>1, <2>2, FifoQueue DEF Ready_Words
<1>4. Out_Words' = QueueStep(Out_Words, out, AccumulatedResult, take)
  <2>1. OutData_Buffer' = FifoClock(OutData_Buffer, out, AccumulatedResult, take)
    BY DEF Clock
  <2>2. /\ OutData_Buffer \in Fifo /\ FifoOK(OutData_Buffer)
        /\ out => FifoCount(OutData_Buffer) < BufferSize
        /\ take => FifoCount(OutData_Buffer) > 0
    BY <1>1, CellWires, RoomForPush DEF RoomInv, TypeOK
  <2> HIDE DEF out, take
  <2> QED BY <1>1, <2>1, <2>2, FifoQueue DEF Out_Words
<1>5. /\ SumsInAdder \in Seq(Data)
      /\ SumsInAdder' = QueueStep(SumsInAdder, Valid, sum, out)
      /\ out => SumsInAdder # << >> /\ Head(SumsInAdder) = AccumulatedResult
  <2>1. Validreg' = Shift(Validreg, Valid) /\ Adder' = Shift(Adder, sum)
    BY DEF Clock
  <2>2. InFlight \in SUBSET Stages /\ Adder \in [Stages -> Data]
    BY <1>1 DEF InFlight, TypeOK
  <2>3. SumsInAdder \in Seq(Data)
    BY <2>2, RankWords, SumsAreRanked
  <2> HIDE DEF sum
  <2> QED BY <1>1, <2>1, <2>3, SumsStep
<1>6. add => PartialSum = ReadyDataFromAccumulatedData
  BY <1>2 DEF PartialSum
\* The sum that leaves the adder is the first of those in it, and goes to the end
\* of the buffer: together they change at the ends only.
<1>7. Joined(Out_Words, SumsInAdder)' = QueueStep(all, Valid, sum, take)
  <2> HIDE DEF out, sum, take
  <2>1. Joined(QueueStep(Out_Words, out, AccumulatedResult, take),
               QueueStep(SumsInAdder, Valid, sum, out)) =
           QueueStep(all, Valid, sum, take)
    BY <1>1, <1>2, <1>5, QueueOfTwo
  <2> QED BY <1>4, <1>5, <2>1 DEF Joined
<1>8. PartialSum' = IF Valid THEN Zero
                    ELSE IF add THEN FPADD(head, PartialSum) ELSE PartialSum
  BY <1>1, PartialStep
<1>9. NOP_Counter' = IF Valid THEN 0
                     ELSE IF add THEN NOP_Counter + 1 ELSE NOP_Counter
  <2>1. NOP_Counter' = Counter /\ NOP_Counter \in 0 .. NOPCount - 1
    BY <1>1 DEF Clock, TypeOK
  <2>2. ~LastOfGroup => NOP_Counter # CounterRange - 1
    BY <2>1, CountAssumption DEF LastOfGroup
  <2> QED BY <2>1, <2>2 DEF Counter, Valid
<1>10. Valid <=> add /\ NOP_Counter = NOPCount - 1
  BY DEF Valid, LastOfGroup
<1>11. take => all # << >>
  BY <1>2, <1>5 DEF Joined
<1> HIDE DEF accept, add, take, all, head, sum, out
<1>12. Abstract!Clock(accept, d, add, take)
  BY <1>2, <1>3, <1>6, <1>7, <1>8, <1>9, <1>10, <1>11
     DEF Abstract!Clock, Abstract!Step, QueueStep, Joined, Ready_Words, Out_Words, sum, head, all
<1> QED BY <1>12 DEF accept, add, take

LEMMA FreshSums ==
    /\ Init => Abstract!Init
    /\ Reset => Abstract!Reset
<1>1. FifoWords(FifoReset) = << >>
  BY FreshQueues
<1>2. Init => SumsInAdder = << >>
  <2> SUFFICES ASSUME Init PROVE SumsInAdder = << >>
    OBVIOUS
  <2>1. InFlight = {}
    BY DEF Init, InFlight
  <2>2. Cardinality(InFlight) = 0
    BY <2>1, FS_EmptySet
  <2> QED BY <2>2 DEF SumsInAdder
<1>3. Reset => SumsInAdder' = << >>
  <2> SUFFICES ASSUME Reset PROVE SumsInAdder' = << >>
    OBVIOUS
  <2>1. InFlight' = {}
    BY DEF Reset, InFlight
  <2>2. Cardinality(InFlight') = 0
    BY <2>1, FS_EmptySet
  <2> QED BY <2>2 DEF SumsInAdder
<1>4. << >> \o << >> = << >>
  OBVIOUS
<1>5. Init => Abstract!Init
  BY <1>1, <1>2, <1>4
     DEF Init, Abstract!Init, PartialSum, ReadyDataFromAccumulatedData
<1>6. Reset => Abstract!Reset
  BY <1>1, <1>3, <1>4
     DEF Reset, Abstract!Reset, PartialSum, ReadyDataFromAccumulatedData
<1> QED BY <1>5, <1>6

\* Every step of the accumulator is a step of Accumulator or none.
LEMMA NextAdds == AddsInv /\ [Next]_vars => [Abstract!Next]_(Abstract!vars)
<1> SUFFICES ASSUME AddsInv, [Next]_vars
             PROVE  [Abstract!Next]_(Abstract!vars)
  OBVIOUS
<1>1. ASSUME NEW v \in BOOLEAN, NEW r \in BOOLEAN, NEW d \in Input, Clock(v, d, r)
      PROVE  Abstract!Next
  <2> DEFINE accept == v /\ DataInRdy
             add == ~NOPIn
             take == DataOutValid /\ r
  <2>1. accept \in BOOLEAN /\ add \in BOOLEAN /\ take \in BOOLEAN /\ d \in Data
    BY InputAssumption DEF DataInRdy, NOPIn, DataOutValid
  <2>2. Abstract!Clock(accept, d, add, take)
    BY <1>1, ClockAdds
  <2> HIDE DEF accept, add, take
  <2> QED BY <2>1, <2>2 DEF Abstract!Next
<1>2. CASE Reset
  BY <1>2, FreshSums DEF Abstract!Next
<1>3. CASE UNCHANGED vars
  BY <1>3 DEF vars, Abstract!vars, FifoWords, PartialSum, SumsInAdder, InFlight,
              FromStage, ReadyDataFromAccumulatedData
<1> QED BY <1>1, <1>2, <1>3 DEF Next, ClockNext

\* ACC.v implements Accumulator, for every latency, group, buffer and arithmetic:
\* with words waiting for the adder, a sum on its way back and a cleared pipeline,
\* every group is added up in order, from Zero, and its sum handed out once.
THEOREM ACC_ImplementsAccumulator == Spec => ImplementsAccumulator
BY InitAdds, StepAdds, FreshSums, NextAdds, PTL
   DEF Spec, ImplementsAccumulator, Abstract!Spec
=============================================================================
