---------------------------- MODULE Engine_proofs ----------------------------
(***************************************************************************)
(* The two ends of the engine.  For every buffer size and every set of     *)
(* words: the registers of the two-reader buffer of a PE stay in range,    *)
(* the wrap bits and flags are exact, and the buffer implements            *)
(* TwoReaderQueue.  For every image, filter and tile whose zones in memory *)
(* lie apart and whose tiles end where image rows end: im2col and both     *)
(* tile loops of main leave every output with the convolution, as often as *)
(* a loop has stored its tile.                                             *)
(***************************************************************************)
EXTENDS FIFO_Buffer, Tiling, Ring_proofs, WellFoundedInduction

-----------------------------------------------------------------------------
(* The two-reader buffer *)

\* The inductive invariant: a word in every slot and two rings in order that
\* share one write pointer.
IInv == TypeOK /\ BothRingsOK

\* The flags of the two-reader buffer follow from the two rings being in order.
LEMMA FlagsFromRings == IInv => FlagsExact
<1> SUFFICES ASSUME IInv PROVE FlagsExact
  OBVIOUS
<1>1. /\ RingOK(W_Addr, R_Addr1, RoundP)
      /\ RingOK(W_Addr, R_Addr2, RoundM)
  BY DEF IInv, BothRingsOK
<1>2. W_Addr \in Slots
  BY <1>1 DEF RingOK
<1>3. /\ Empty <=> Occupancy(W_Addr, R_Addr1, RoundP) = 0
      /\ R_Addr2 \in ReadyM <=> Occupancy(W_Addr, R_Addr2, RoundM) > 0
  BY <1>1, ReadyFlags DEF Empty, ReadyP, ReadyM
<1>4. /\ ReadyP \subseteq Slots /\ ReadyM \subseteq Slots
      /\ W_Addr \in ReadyP <=>
             Occupancy(W_Addr, R_Addr1, RoundP) = BufferSize
      /\ W_Addr \in ReadyM <=>
             Occupancy(W_Addr, R_Addr2, RoundM) = BufferSize
      /\ ReadyP = Slots <=>
             Occupancy(W_Addr, R_Addr1, RoundP) = BufferSize
      /\ ReadyM = Slots <=>
             Occupancy(W_Addr, R_Addr2, RoundM) = BufferSize
  BY <1>1, ReadyFlags DEF ReadyP, ReadyM
<1>5. Full <=> \/ Occupancy(W_Addr, R_Addr1, RoundP) = BufferSize
               \/ Occupancy(W_Addr, R_Addr2, RoundM) = BufferSize
  BY <1>2, <1>4 DEF Full
<1> QED BY <1>3, <1>5 DEF FlagsExact

\* The three grants of a handshake are safe for the rings they act on: the
\* shared Full keeps the writer off both readers, ReadyM and Empty keep each
\* reader off an empty ring.
LEMMA GrantsSafe ==
    ASSUME IInv
    PROVE  /\ ~Full => /\ Occupancy(W_Addr, R_Addr1, RoundP) < BufferSize
                       /\ Occupancy(W_Addr, R_Addr2, RoundM) < BufferSize
           /\ ~Empty => Occupancy(W_Addr, R_Addr1, RoundP) > 0
           /\ R_Addr2 \in ReadyM => Occupancy(W_Addr, R_Addr2, RoundM) > 0
<1>1. /\ Occupancy(W_Addr, R_Addr1, RoundP) \in 0 .. BufferSize
      /\ Occupancy(W_Addr, R_Addr2, RoundM) \in 0 .. BufferSize
  BY DEF IInv, BothRingsOK, RingOK
<1>2. FlagsExact
  BY FlagsFromRings
<1> QED BY <1>1, <1>2, BufferSizeAssumption DEF FlagsExact

\* The registers start in order.
LEMMA InitIInv == Init => IInv
<1> SUFFICES ASSUME Init PROVE IInv
  OBVIOUS
<1>1. 0 \in Slots /\ Cleared \in [Slots -> Data]
  BY BufferSizeAssumption, ZeroAssumption DEF Slots, Cleared
<1>2. TypeOK
  BY <1>1 DEF Init, TypeOK
<1>3. RingOK(0, 0, FALSE)
  BY <1>1, BufferSizeAssumption DEF RingOK, Occupancy
<1> QED BY <1>2, <1>3 DEF IInv, Init, BothRingsOK

\* A clock whose requests are granted by the flags keeps both rings in order
\* and steps both queues.
LEMMA ClockStep ==
    ASSUME IInv,
           NEW push \in BOOLEAN, NEW pop1 \in BOOLEAN, NEW pop2 \in BOOLEAN,
           NEW d \in Data,
           push => ~Full, pop1 => ~Empty, pop2 => R_Addr2 \in ReadyM,
           Clock(push, d, pop1, pop2)
    PROVE  IInv' /\ Queue!Clock(push, d, pop1, pop2)
<1> DEFINE qP == Contents(Buffer, W_Addr, R_Addr1, RoundP)
           qM == Contents(Buffer, W_Addr, R_Addr2, RoundM)
<1>1. /\ RingOK(W_Addr, R_Addr1, RoundP)
      /\ RingOK(W_Addr, R_Addr2, RoundM)
      /\ Buffer \in [Slots -> Data]
  BY DEF IInv, BothRingsOK, TypeOK
<1>2. /\ push => Occupancy(W_Addr, R_Addr1, RoundP) < BufferSize
      /\ push => Occupancy(W_Addr, R_Addr2, RoundM) < BufferSize
      /\ pop1 => Occupancy(W_Addr, R_Addr1, RoundP) > 0
      /\ pop2 => Occupancy(W_Addr, R_Addr2, RoundM) > 0
  BY GrantsSafe
<1>3. /\ Buffer' = Write(Buffer, push, W_Addr, d)
      /\ W_Addr' = Pointer(W_Addr, push)
      /\ R_Addr1' = Pointer(R_Addr1, pop1)
      /\ R_Addr2' = Pointer(R_Addr2, pop2)
      /\ RoundP' = Round(RoundP, push, pop1, W_Addr, R_Addr1)
      /\ RoundM' = Round(RoundM, push, pop2, W_Addr, R_Addr2)
  BY DEF Clock
<1>4. /\ RingOK(W_Addr', R_Addr1', RoundP')
      /\ RingOK(W_Addr', R_Addr2', RoundM')
  <2>1. RingOK(W_Addr', R_Addr1', RoundP')
    BY <1>1, <1>2, <1>3, RingStep
  <2>2. RingOK(W_Addr', R_Addr2', RoundM')
    BY <1>1, <1>2, <1>3, RingStep
  <2> QED BY <2>1, <2>2
<1>5. Buffer' \in [Slots -> Data]
  BY <1>1, <1>3 DEF Write, RingOK
<1>6. IInv'
  BY <1>4, <1>5 DEF IInv, BothRingsOK, TypeOK, RingOK
<1>7. /\ qP' = QueueStep(qP, push, d, pop1)
      /\ qM' = QueueStep(qM, push, d, pop2)
  <2>1. qP' = QueueStep(qP, push, d, pop1)
    BY <1>1, <1>2, <1>3, ContentsStep
  <2>2. qM' = QueueStep(qM, push, d, pop2)
    BY <1>1, <1>2, <1>3, ContentsStep
  <2> QED BY <2>1, <2>2
<1>8. /\ Len(qP) = Occupancy(W_Addr, R_Addr1, RoundP)
      /\ Len(qM) = Occupancy(W_Addr, R_Addr2, RoundM)
  BY <1>1, ContentsSeq
<1>9. /\ pop1 => qP # << >>
      /\ pop2 => qM # << >>
  BY <1>2, <1>8
<1> QED BY <1>2, <1>6, <1>7, <1>8, <1>9 DEF Queue!Clock, Queue!Step, QueueStep

\* Every step of the buffer keeps the invariant and is a step of the queue.
LEMMA NextStep == IInv /\ [Next]_vars => IInv' /\ [Queue!Next]_Queue!vars
<1> SUFFICES ASSUME IInv, [Next]_vars
             PROVE  IInv' /\ [Queue!Next]_Queue!vars
  OBVIOUS
<1>1. ASSUME NEW valid \in BOOLEAN, NEW rdy \in BOOLEAN,
             NEW issue \in BOOLEAN, NEW d \in Data,
             Handshake(valid, d, rdy, issue)
      PROVE  IInv' /\ [Queue!Next]_Queue!vars
  <2> DEFINE push == ~Full /\ valid
             pop1 == ~Empty /\ rdy
             pop2 == R_Addr2 \in ReadyM /\ issue
  <2>1. push \in BOOLEAN /\ pop1 \in BOOLEAN /\ pop2 \in BOOLEAN
    OBVIOUS
  <2>2. Clock(push, d, pop1, pop2)
    BY <1>1 DEF Handshake
  <2>3. /\ push => ~Full
        /\ pop1 => ~Empty
        /\ pop2 => R_Addr2 \in ReadyM
    OBVIOUS
  <2> HIDE DEF push, pop1, pop2
  <2>4. IInv' /\ Queue!Clock(push, d, pop1, pop2)
    BY <2>1, <2>2, <2>3, ClockStep
  <2> QED BY <2>1, <2>4 DEF Queue!Next
<1>2. CASE Reset
  <2>1. IInv'
    <3>1. 0 \in Slots /\ Cleared \in [Slots -> Data]
      BY BufferSizeAssumption, ZeroAssumption DEF Slots, Cleared
    <3>2. TypeOK'
      BY <1>2, <3>1 DEF Reset, TypeOK
    <3>3. RingOK(0, 0, FALSE)
      BY <3>1, BufferSizeAssumption DEF RingOK, Occupancy
    <3> QED BY <1>2, <3>2, <3>3 DEF IInv, Reset, BothRingsOK
  <2>2. Queue!Reset
    <3>1. /\ Occupancy(W_Addr', R_Addr1', RoundP') = 0
          /\ Occupancy(W_Addr', R_Addr2', RoundM') = 0
      BY <1>2 DEF Reset, Occupancy
    <3>2. /\ Contents(Buffer', W_Addr', R_Addr1', RoundP') = << >>
          /\ Contents(Buffer', W_Addr', R_Addr2', RoundM') = << >>
      BY <3>1 DEF Contents
    <3> QED BY <3>2 DEF Queue!Reset
  <2> QED BY <2>1, <2>2 DEF Queue!Next
<1>3. CASE UNCHANGED vars
  BY <1>3 DEF vars, IInv, TypeOK, BothRingsOK, RingOK, Occupancy,
              Contents, After, Queue!vars
<1> QED BY <1>1, <1>2, <1>3 DEF Next

\* Type correctness of the two-reader buffer (FIFO_Buffer.v).
THEOREM TypeCorrect == Spec => []TypeOK
<1>1. IInv => TypeOK
  BY DEF IInv
<1> QED BY <1>1, InitIInv, NextStep, PTL DEF Spec

\* The wrap bits of both readers are always right (Round.v driven by two
\* pointers), for every buffer size.
THEOREM RingsInOrder == Spec => []BothRingsOK
<1>1. IInv => BothRingsOK
  BY DEF IInv
<1> QED BY <1>1, InitIInv, NextStep, PTL DEF Spec

\* Full, Empty and the MAC unit's mask are exact (FIFO_Buffer.v:46-60).
THEOREM FlagsAreExact == Spec => []FlagsExact
BY FlagsFromRings, InitIInv, NextStep, PTL DEF Spec

\* The two-reader buffer is a queue to each of its readers.
THEOREM BufferIsQueue == Spec => ImplementsQueue
<1>1. Init => Queue!Init
  <2>1. ASSUME Init
        PROVE  /\ Contents(Buffer, W_Addr, R_Addr1, RoundP) = << >>
               /\ Contents(Buffer, W_Addr, R_Addr2, RoundM) = << >>
    <3>1. /\ Occupancy(W_Addr, R_Addr1, RoundP) = 0
          /\ Occupancy(W_Addr, R_Addr2, RoundM) = 0
      BY <2>1 DEF Init, Occupancy
    <3> QED BY <3>1 DEF Contents
  <2> QED BY <2>1 DEF Queue!Init
<1> QED BY <1>1, InitIInv, NextStep, PTL DEF Spec, ImplementsQueue, Queue!Spec

-----------------------------------------------------------------------------
(* Numbers *)

LEMMA Multiples ==
    ASSUME NEW d \in Nat \ {0}, NEW x \in Int, NEW y \in Int,
           d * x - d * y \in (1 - d) .. (d - 1)
    PROVE  x = y
<1>1. ASSUME NEW a \in Int, NEW b \in Int, a > b PROVE d * a - d * b >= d
  <2>1. PICK t \in Nat : a = b + 1 + t
    <3>1. a - b - 1 \in Nat /\ a = b + 1 + (a - b - 1)
      BY <1>1
    <3> QED BY <3>1
  <2>2. d * a = d * b + d + d * t
    BY <2>1
  <2>3. d * t \in Nat /\ d * b \in Int
    BY <2>1
  <2> QED BY <2>2, <2>3
<1>2. d * x \in Int /\ d * y \in Int
  OBVIOUS
<1>3. ~(x > y)
  BY <1>1, <1>2
<1>4. ~(y > x)
  BY <1>1, <1>2
<1> QED BY <1>3, <1>4

LEMMA DivMod ==
    ASSUME NEW a \in Nat, NEW d \in Nat \ {0}
    PROVE  /\ a \div d \in Nat /\ a % d \in 0 .. d - 1
           /\ a = (a \div d) * d + (a % d)
OBVIOUS

LEMMA QuotientIs ==
    ASSUME NEW a \in Nat, NEW d \in Nat \ {0}, NEW q \in Int, NEW r \in 0 .. d - 1,
           a = q * d + r
    PROVE  a \div d = q /\ a % d = r
<1> DEFINE p == a \div d
           t == a % d
<1>1. p \in Int /\ t \in 0 .. d - 1 /\ a = p * d + t
  BY ONLY a \in Nat, d \in Nat \ {0}, DivMod
<1> HIDE DEF p, t
<1>2. d * p \in Int /\ d * q \in Int /\ p * d = d * p /\ q * d = d * q
  BY <1>1
<1>3. d * p - d * q = r - t
  BY <1>1, <1>2
<1>4. d * p - d * q \in (1 - d) .. (d - 1)
  BY <1>1, <1>3
<1>5. p = q
  BY <1>1, <1>4, Multiples
<1> QED BY <1>1, <1>2, <1>5 DEF p, t

LEMMA Products ==
    ASSUME NEW a \in Nat \ {0}, NEW b \in Nat \ {0}
    PROVE  a * b \in Nat \ {0}
OBVIOUS

\* Element x of row q, in an array of A rows of B elements.
LEMMA Element ==
    ASSUME NEW A \in Nat, NEW B \in Nat \ {0}, NEW q \in 0 .. A - 1, NEW x \in 0 .. B - 1
    PROVE  /\ q * B + x \in 0 .. A * B - 1
           /\ (q * B + x) \div B = q
           /\ (q * B + x) % B = x
           /\ q * B \in Nat /\ q * B + B <= A * B
<1>1. PICK r \in Nat : A = q + 1 + r
  <2>1. A - q - 1 \in Nat /\ A = q + 1 + (A - q - 1)
    OBVIOUS
  <2> QED BY <2>1
<1>2. A * B = q * B + B + r * B /\ r * B \in Nat /\ q * B \in Nat
  BY <1>1
<1>3. q * B + x \in 0 .. A * B - 1 /\ q * B + B <= A * B
  BY <1>2
<1>4. q * B + x \in Nat
  BY <1>2
<1> QED BY <1>2, <1>3, <1>4, QuotientIs

\* The row and the place in it of an element.
LEMMA Place ==
    ASSUME NEW A \in Nat, NEW B \in Nat \ {0}, NEW e \in Nat, e < A * B
    PROVE  e \div B \in 0 .. A - 1 /\ e % B \in 0 .. B - 1 /\ e = (e \div B) * B + (e % B)
<1> DEFINE q == e \div B
           r == e % B
<1>1. q \in Nat /\ r \in 0 .. B - 1 /\ e = q * B + r
  BY ONLY DivMod, e \in Nat, B \in Nat \ {0}
<1> HIDE DEF q, r
<1>2. ~(q >= A)
  <2> SUFFICES ASSUME q >= A PROVE FALSE
    OBVIOUS
  <2>1. PICK t \in Nat : q = A + t
    <3>1. q - A \in Nat /\ q = A + (q - A)
      BY <1>1
    <3> QED BY <3>1
  <2>2. q * B = A * B + t * B /\ t * B \in Nat /\ A * B \in Nat
    BY <2>1
  <2> QED BY <1>1, <2>2
<1>3. q \in 0 .. A - 1 /\ r \in 0 .. B - 1 /\ e = q * B + r
  BY <1>1, <1>2
<1> QED BY <1>3 DEF q, r

-----------------------------------------------------------------------------
(* Sums *)

\* Induction, over the set of the numbers for which a fact holds.
LEMMA Induction ==
    ASSUME NEW S, 0 \in S, \A q \in S : q \in Nat => q + 1 \in S
    PROVE  Nat \subseteq S
<1> DEFINE Less == {p \in Nat \X Nat : p[1] < p[2]}
           Rest == Nat \ S
<1> SUFFICES ASSUME Rest # {} PROVE FALSE
  OBVIOUS
<1>1. OpToRel(<, Nat) = Less
  BY DEF OpToRel
<1>2. IsWellFoundedOn(Less, Nat)
  BY <1>1, NatLessThanWellFounded
<1>3. PICK x \in Rest : \A y \in Rest : ~(<<y, x>> \in Less)
  <2> HIDE DEF Less
  <2> QED BY <1>2, WFMin
<1>4. x \in Nat /\ x # 0 /\ x - 1 \in Nat /\ x \notin S /\ (x - 1) + 1 = x
  BY <1>3
<1>5. ~(x - 1 \in Rest)
  <2>1. ASSUME x - 1 \in Rest PROVE <<x - 1, x>> \in Less
    BY <1>4
  <2> HIDE DEF Less
  <2> QED BY <1>3, <2>1
<1>6. x - 1 \in S
  BY <1>4, <1>5
<1> HIDE DEF Rest
<1> QED BY <1>4, <1>6

\* The partial sums of the terms, up to the one of all N.
PartialSums(g, terms, N) ==
    g = [q \in 0 .. N |-> IF q = 0 THEN 0 ELSE g[q - 1] + terms[q - 1]]

LEMMA SumsExist ==
    ASSUME NEW terms, NEW N \in Nat
    PROVE  \E g : PartialSums(g, terms, N)
<1> DEFINE S == {q \in Nat : \E g : PartialSums(g, terms, q)}
<1>1. 0 \in S
  <2>1. PartialSums([q \in 0 .. 0 |-> 0], terms, 0)
    BY DEF PartialSums
  <2> QED BY <2>1
<1>2. ASSUME NEW q \in Nat, q \in S PROVE q + 1 \in S
  <2>1. PICK g : PartialSums(g, terms, q)
    BY <1>2
  <2> DEFINE h == [t \in 0 .. q + 1 |-> IF t <= q THEN g[t] ELSE g[q] + terms[q]]
  <2>2. ASSUME NEW t \in 0 .. q + 1
        PROVE  h[t] = IF t = 0 THEN 0 ELSE h[t - 1] + terms[t - 1]
    <3>1. CASE t = 0
      BY <3>1, <2>1 DEF PartialSums
    <3>2. CASE t \in 1 .. q
      <4>1. g[t] = g[t - 1] + terms[t - 1]
        BY <3>2, <2>1 DEF PartialSums
      <4>2. t - 1 \in 0 .. q + 1 /\ t - 1 <= q /\ t <= q
        BY <3>2
      <4> QED BY <4>1, <4>2, <3>2
    <3>3. CASE t = q + 1
      BY <3>3
    <3> QED BY <3>1, <3>2, <3>3
  <2>3. h = [t \in 0 .. q + 1 |-> IF t = 0 THEN 0 ELSE h[t - 1] + terms[t - 1]]
    BY <2>2
  <2>4. PartialSums(h, terms, q + 1)
    BY <2>3 DEF PartialSums
  <2> QED BY <2>4
<1> HIDE DEF S
<1>3. Nat \subseteq S
  BY <1>1, <1>2, Induction
<1> QED BY <1>3 DEF S

LEMMA SumsUnique ==
    ASSUME NEW terms, NEW N \in Nat, NEW M \in Nat, NEW g, NEW h,
           PartialSums(g, terms, N), PartialSums(h, terms, M),
           NEW t \in 0 .. N, t <= M
    PROVE  g[t] = h[t]
<1> DEFINE S == {q \in Nat : q <= N /\ q <= M => g[q] = h[q]}
<1>1. 0 \in S
  BY DEF PartialSums
<1>2. ASSUME NEW q \in Nat, q \in S PROVE q + 1 \in S
  <2>1. SUFFICES ASSUME q + 1 <= N, q + 1 <= M PROVE g[q + 1] = h[q + 1]
    OBVIOUS
  <2>2. q + 1 \in 0 .. N /\ q + 1 \in 0 .. M /\ q + 1 # 0 /\ (q + 1) - 1 = q
    BY <2>1
  <2>3. g[q + 1] = g[q] + terms[q]
    BY <2>2 DEF PartialSums
  <2>4. h[q + 1] = h[q] + terms[q]
    BY <2>2 DEF PartialSums
  <2> QED BY <1>2, <2>1, <2>3, <2>4
<1> HIDE DEF S
<1>3. Nat \subseteq S
  BY <1>1, <1>2, Induction
<1> QED BY <1>3 DEF S

LEMMA TotalIsSum ==
    ASSUME NEW terms, NEW N \in Nat, NEW g, NEW M \in Nat,
           PartialSums(g, terms, M), N <= M
    PROVE  Total(terms, N) = g[N]
<1> DEFINE h == CHOOSE h : PartialSums(h, terms, N)
<1>1. PartialSums(h, terms, N)
  BY SumsExist
<1>2. Total(terms, N) = h[N]
  BY DEF Total, PartialSums
<1> HIDE DEF h
<1> QED BY <1>1, <1>2, SumsUnique

\* What Total computes.
LEMMA TotalIs ==
    ASSUME NEW terms, NEW N \in Nat
    PROVE  /\ Total(terms, 0) = 0
           /\ Total(terms, N + 1) = Total(terms, N) + terms[N]
<1>1. PICK g : PartialSums(g, terms, N + 1)
  BY SumsExist
<1>2. Total(terms, N + 1) = g[N + 1] /\ Total(terms, N) = g[N] /\ Total(terms, 0) = g[0]
  BY <1>1, TotalIsSum
<1>3. N + 1 \in 0 .. N + 1 /\ N + 1 # 0 /\ (N + 1) - 1 = N /\ 0 \in 0 .. N + 1
  OBVIOUS
<1>4. g[N + 1] = g[N] + terms[N] /\ g[0] = 0
  BY <1>1, <1>3 DEF PartialSums
<1> QED BY <1>2, <1>4

LEMMA TotalInt ==
    ASSUME NEW terms, NEW N \in Nat, \A q \in 0 .. N - 1 : terms[q] \in Int
    PROVE  Total(terms, N) \in Int
<1> DEFINE S == {q \in Nat : q <= N => Total(terms, q) \in Int}
<1>1. 0 \in S
  BY TotalIs
<1>2. ASSUME NEW q \in Nat, q \in S PROVE q + 1 \in S
  <2>1. Total(terms, q + 1) = Total(terms, q) + terms[q]
    BY TotalIs
  <2> QED BY <1>2, <2>1
<1> HIDE DEF S
<1>3. Nat \subseteq S
  BY <1>1, <1>2, Induction
<1> QED BY <1>3 DEF S

\* Equal terms have equal sums.
LEMMA TotalSame ==
    ASSUME NEW terms, NEW others, NEW N \in Nat,
           \A q \in 0 .. N - 1 : terms[q] = others[q]
    PROVE  Total(terms, N) = Total(others, N)
<1> DEFINE S == {q \in Nat : q <= N => Total(terms, q) = Total(others, q)}
<1>1. 0 \in S
  BY TotalIs
<1>2. ASSUME NEW q \in Nat, q \in S PROVE q + 1 \in S
  <2>1. /\ Total(terms, q + 1) = Total(terms, q) + terms[q]
        /\ Total(others, q + 1) = Total(others, q) + others[q]
    BY TotalIs
  <2> QED BY <1>2, <2>1
<1> HIDE DEF S
<1>3. Nat \subseteq S
  BY <1>1, <1>2, Induction
<1> QED BY <1>3 DEF S

\* A sum in two parts.
LEMMA TotalSplit ==
    ASSUME NEW terms, NEW N \in Nat, NEW B \in Nat,
           \A q \in 0 .. N + B - 1 : terms[q] \in Int
    PROVE  Total(terms, N + B) =
             Total(terms, N) + Total([t \in 0 .. B - 1 |-> terms[N + t]], B)
<1> DEFINE Shift == [t \in Nat |-> terms[N + t]]
           S == {q \in Nat : q <= B => Total(terms, N + q)
                                         = Total(terms, N) + Total(Shift, q)}
<1>0. Total(terms, N) \in Int
  BY TotalInt
<1>1. 0 \in S
  BY <1>0, TotalIs
<1>2. ASSUME NEW q \in Nat, q \in S PROVE q + 1 \in S
  <2> SUFFICES ASSUME q + 1 <= B
               PROVE  Total(terms, N + (q + 1)) = Total(terms, N) + Total(Shift, q + 1)
    OBVIOUS
  <2>1. Total(terms, N + (q + 1)) = Total(terms, N + q) + terms[N + q]
    <3>1. N + q \in Nat /\ N + (q + 1) = (N + q) + 1
      OBVIOUS
    <3> QED BY <3>1, TotalIs
  <2>2. Total(Shift, q + 1) = Total(Shift, q) + Shift[q]
    BY TotalIs
  <2>3. \A t \in 0 .. q - 1 : Shift[t] \in Int
    OBVIOUS
  <2>4. Total(Shift, q) \in Int
    <3> HIDE DEF Shift
    <3> QED BY <2>3, TotalInt
  <2>5. Shift[q] = terms[N + q] /\ terms[N + q] \in Int
    OBVIOUS
  <2>6. Total(terms, N + q) = Total(terms, N) + Total(Shift, q)
    BY <1>2
  <2> HIDE DEF Shift
  <2> QED BY <1>0, <2>1, <2>2, <2>4, <2>5, <2>6
<1> HIDE DEF S
<1>3. Nat \subseteq S
  BY <1>1, <1>2, Induction
<1>4. Total(terms, N + B) = Total(terms, N) + Total(Shift, B)
  BY <1>3 DEF S
<1>5. Total(Shift, B) = Total([t \in 0 .. B - 1 |-> terms[N + t]], B)
  <2>1. \A q \in 0 .. B - 1 : Shift[q] = [t \in 0 .. B - 1 |-> terms[N + t]][q]
    OBVIOUS
  <2> HIDE DEF Shift
  <2> QED BY <2>1, TotalSame
<1> QED BY <1>4, <1>5

\* A sum of A blocks of B terms.
LEMMA TotalOfBlocks ==
    ASSUME NEW terms, NEW A \in Nat, NEW B \in Nat,
           \A q \in 0 .. A * B - 1 : terms[q] \in Int
    PROVE  Total([a \in 0 .. A - 1 |->
                    Total([b \in 0 .. B - 1 |-> terms[a * B + b]], B)], A)
             = Total(terms, A * B)
<1> DEFINE Blocks == [a \in Nat |-> Total([b \in 0 .. B - 1 |-> terms[a * B + b]], B)]
           S == {q \in Nat : q <= A => Total(Blocks, q) = Total(terms, q * B)}
<1>1. 0 \in S
  <2>1. 0 * B = 0
    OBVIOUS
  <2> HIDE DEF Blocks
  <2> QED BY <2>1, TotalIs
<1>2. ASSUME NEW q \in Nat, q \in S PROVE q + 1 \in S
  <2> SUFFICES ASSUME q + 1 <= A
               PROVE  Total(Blocks, q + 1) = Total(terms, (q + 1) * B)
    OBVIOUS
  <2>1. Total(Blocks, q + 1) = Total(Blocks, q) + Blocks[q]
    <3> HIDE DEF Blocks
    <3> QED BY TotalIs
  <2>2. q * B \in Nat /\ (q + 1) * B = q * B + B /\ (q + 1) * B <= A * B /\ A * B \in Nat
    <3>1. PICK r \in Nat : A = (q + 1) + r
      <4>1. A - (q + 1) \in Nat
        OBVIOUS
      <4> QED BY <4>1
    <3>2. A * B = (q + 1) * B + r * B /\ r * B \in Nat /\ q * B \in Nat
      BY <3>1
    <3> QED BY <3>2
  <2>3. \A t \in 0 .. q * B + B - 1 : terms[t] \in Int
    BY <2>2
  <2>4. Total(terms, q * B + B) =
           Total(terms, q * B) + Total([b \in 0 .. B - 1 |-> terms[q * B + b]], B)
    BY <2>2, <2>3, TotalSplit
  <2>5. Blocks[q] = Total([b \in 0 .. B - 1 |-> terms[q * B + b]], B)
    OBVIOUS
  <2>6. Total(Blocks, q) = Total(terms, q * B)
    BY <1>2
  <2> HIDE DEF Blocks
  <2> QED BY <2>1, <2>2, <2>4, <2>5, <2>6
<1> HIDE DEF S
<1>3. Nat \subseteq S
  BY <1>1, <1>2, Induction
<1>4. Total(Blocks, A) = Total(terms, A * B)
  BY <1>3 DEF S
<1>5. Total([a \in 0 .. A - 1 |->
                Total([b \in 0 .. B - 1 |-> terms[a * B + b]], B)], A) = Total(Blocks, A)
  <2> DEFINE F == [a \in 0 .. A - 1 |-> Total([b \in 0 .. B - 1 |-> terms[a * B + b]], B)]
  <2>1. \A q \in 0 .. A - 1 : F[q] = Blocks[q]
    OBVIOUS
  <2> HIDE DEF Blocks, F
  <2>2. Total(F, A) = Total(Blocks, A)
    BY <2>1, TotalSame
  <2> QED BY <2>2 DEF F
<1> QED BY <1>4, <1>5
-----------------------------------------------------------------------------
(* The layout *)

Tiles == n \div size.Tile_n_size        \* of outputs
Across == size.w \div size.Tile_n_size  \* of them in a row of the image
Parts == k \div size.Tile_k_size        \* tiles of the weights of a filter

Layout == SameSize /\ \A s \in Sizes : ZonesApart(s) /\ WholeTiles(s)

LEMMA Literals ==
    ASSUME size \in Sizes
    PROVE  /\ size.c \in Nat \ {0} /\ size.h \in Nat \ {0} /\ size.w \in Nat \ {0}
           /\ size.num_filters \in Nat \ {0}
           /\ size.Tile_n_size \in Nat \ {0} /\ size.Tile_k_size \in Nat \ {0}
           /\ size.IMAGE \in Nat /\ size.IMG2COL \in Nat /\ size.OUTPUT \in Nat
           /\ Ksize \in Nat \ {0} /\ Pad \in Nat
           /\ PE_SIZE_X \in Nat \ {0} /\ PE_SIZE_Y \in Nat \ {0}
BY SizesAssumption

LEMMA Counts ==
    ASSUME size \in Sizes
    PROVE  /\ m \in Nat \ {0} /\ n \in Nat \ {0} /\ k \in Nat \ {0}
           /\ k = (size.c * Ksize) * Ksize
<1>1. m \in Nat \ {0}
  BY Literals DEF m
<1>2. n \in Nat \ {0}
  BY Literals, Products DEF n
<1>3. Ksize * Ksize \in Nat \ {0}
  BY Literals, Products
<1>4. k \in Nat \ {0}
  BY <1>3, Literals, Products DEF k
<1>5. k = (size.c * Ksize) * Ksize
  BY Literals DEF k
<1> QED BY <1>1, <1>2, <1>4, <1>5

LEMMA Words ==
    ASSUME size \in Sizes
    PROVE  /\ \A a \in 0 .. m * k - 1 : Weights(a) \in Int
           /\ \A a \in 0 .. n * size.c - 1 : Image(a) \in Int
<1>1. m * k = size.num_filters * Ksize * Ksize * size.c
  BY Literals DEF m, k
<1>2. n * size.c = size.h * size.w * size.c
  BY Literals DEF n
<1> QED BY <1>1, <1>2, SizesAssumption

\* A matrix has a column for every pixel.
LEMMA Columns ==
    ASSUME size \in Sizes, SameSize
    PROVE  height_col = size.h /\ width_col = size.w
<1>1. ASSUME NEW a \in Nat PROVE (a + 2 * Pad - Ksize) \div Stride + 1 = a
  BY Literals, <1>1 DEF SameSize
<1> QED BY <1>1, Literals DEF height_col, width_col

\* Tiles divide a row of outputs, and tiles of weights the rows of the matrix.
LEMMA Whole ==
    ASSUME size \in Sizes, WholeTiles(size)
    PROVE  /\ Across \in Nat \ {0} /\ size.w = Across * size.Tile_n_size
           /\ Tiles \in Nat \ {0} /\ Tiles = size.h * Across
           /\ n = Tiles * size.Tile_n_size
           /\ Parts \in Nat \ {0} /\ k = Parts * size.Tile_k_size
           /\ size.Tile_k_size = (size.Tile_k_size \div PE_SIZE_Y) * PE_SIZE_Y
           /\ size.Tile_k_size \div PE_SIZE_Y \in Nat \ {0}
<1>0. ASSUME NEW a \in Nat \ {0}, NEW d \in Nat \ {0}, a % d = 0
      PROVE  a \div d \in Nat \ {0} /\ a = (a \div d) * d
  BY <1>0, DivMod
<1>1. Across \in Nat \ {0} /\ size.w = Across * size.Tile_n_size
  BY <1>0, Literals DEF Across, WholeTiles
<1>2. Parts \in Nat \ {0} /\ k = Parts * size.Tile_k_size
  <2>1. k % size.Tile_k_size = 0
    BY DEF WholeTiles, k
  <2>2. k \in Nat \ {0} /\ size.Tile_k_size \in Nat \ {0}
    BY Literals, Counts
  <2> QED BY <1>0, <2>1, <2>2 DEF Parts
<1>3. /\ size.Tile_k_size = (size.Tile_k_size \div PE_SIZE_Y) * PE_SIZE_Y
      /\ size.Tile_k_size \div PE_SIZE_Y \in Nat \ {0}
  BY <1>0, Literals DEF WholeTiles
<1> DEFINE T == size.h * Across
<1>4. T \in Nat \ {0}
  BY <1>1, Literals, Products
<1>5. n = T * size.Tile_n_size
  BY <1>1, Literals DEF n
<1> HIDE DEF T
<1>6. n \div size.Tile_n_size = T
  <2>1. n = T * size.Tile_n_size + 0 /\ 0 \in 0 .. size.Tile_n_size - 1
    BY <1>4, <1>5, Literals
  <2> QED BY <1>4, <2>1, QuotientIs, Literals, Counts
<1> QED BY <1>1, <1>2, <1>3, <1>4, <1>5, <1>6 DEF Tiles, T

\* Where the four zones lie.
LEMMA Zones ==
    ASSUME size \in Sizes, ZonesApart(size)
    PROVE  /\ m * k \in Nat /\ n * size.c \in Nat /\ k * n \in Nat /\ m * n \in Nat
           /\ m * k <= size.IMAGE
           /\ size.IMAGE + n * size.c <= size.IMG2COL
           /\ size.IMG2COL + k * n <= size.OUTPUT
<1>1. /\ m * k = size.num_filters * (Ksize * Ksize * size.c)
      /\ n * size.c = size.h * size.w * size.c
      /\ k * n = Ksize * Ksize * size.c * (size.h * size.w)
  BY DEF m, n, k
<1>2. m * k \in Nat /\ n * size.c \in Nat /\ k * n \in Nat /\ m * n \in Nat
  BY Literals, Counts, Products
<1> QED BY <1>1, <1>2 DEF ZonesApart

-----------------------------------------------------------------------------
(* The matrix *)

\* The word of the image that belongs in row q of the matrix for output y.
Word(q, y) ==
    Pixel((y \div size.w) + ((q \div Ksize) % Ksize) - Pad,
          (y % size.w) + (q % Ksize) - Pad, (q \div Ksize) \div Ksize)

\* Row q of the matrix is a weight in row down, column right of a channel.
LEMMA Taps ==
    ASSUME size \in Sizes, NEW q \in 0 .. k - 1
    PROVE  /\ (q \div Ksize) \div Ksize \in 0 .. size.c - 1
           /\ (q \div Ksize) % Ksize \in 0 .. Ksize - 1
           /\ q % Ksize \in 0 .. Ksize - 1
           /\ q \div Ksize \in 0 .. size.c * Ksize - 1
           /\ q = (q \div Ksize) * Ksize + (q % Ksize)
<1> DEFINE CK == size.c * Ksize
<1>1. CK \in Nat /\ Ksize \in Nat \ {0} /\ size.c \in Nat /\ k = CK * Ksize /\ k \in Nat
  BY Literals, Counts, Products
<1> HIDE DEF CK
<1>2. /\ q \div Ksize \in 0 .. CK - 1 /\ q % Ksize \in 0 .. Ksize - 1
      /\ q = (q \div Ksize) * Ksize + (q % Ksize)
  <2>1. q \in Nat /\ q < CK * Ksize
    BY <1>1
  <2> QED BY <1>1, <2>1, Place
<1> DEFINE p == q \div Ksize
<1>3. p \in Nat /\ p < size.c * Ksize
  BY <1>1, <1>2 DEF CK
<1> HIDE DEF p
<1>4. p \div Ksize \in 0 .. size.c - 1 /\ p % Ksize \in 0 .. Ksize - 1
  BY <1>1, <1>3, Place
<1> QED BY <1>2, <1>4 DEF p, CK

LEMMA PixelInt ==
    ASSUME size \in Sizes, NEW row \in Int, NEW col \in Int,
           NEW channel \in 0 .. size.c - 1
    PROVE  /\ Pixel(row, col, channel) \in Int
           /\ row \in 0 .. size.h - 1 /\ col \in 0 .. size.w - 1 =>
                 col + size.w * (row + size.h * channel) \in 0 .. n * size.c - 1
<1> SUFFICES ASSUME row \in 0 .. size.h - 1, col \in 0 .. size.w - 1
             PROVE  col + size.w * (row + size.h * channel) \in 0 .. n * size.c - 1
  BY Words DEF Pixel
<1>0. size.h \in Nat \ {0} /\ size.w \in Nat \ {0} /\ size.c \in Nat \ {0}
  BY Literals
<1> DEFINE line == channel * size.h + row
           HC == size.c * size.h
<1>1. line \in 0 .. HC - 1 /\ HC \in Nat
  BY <1>0, Element
<1>2. line = row + size.h * channel
  BY <1>0
<1> HIDE DEF line, HC
<1>3. line * size.w + col \in 0 .. HC * size.w - 1
  BY <1>0, <1>1, Element
<1>4. line * size.w = size.w * line
  BY <1>0, <1>1
<1>5. HC * size.w = n * size.c
  BY <1>0 DEF HC, n
<1>6. col \in Int /\ size.w * line \in Int
  BY <1>0, <1>1
<1> QED BY <1>2, <1>3, <1>4, <1>5, <1>6

LEMMA WordInt ==
    ASSUME size \in Sizes, NEW q \in 0 .. k - 1, NEW y \in 0 .. n - 1
    PROVE  Word(q, y) \in Int
<1>1. y \div size.w \in Int /\ y % size.w \in Int
  <2>1. y \in Nat /\ size.w \in Nat \ {0}
    BY Counts, Literals
  <2> DEFINE w == size.w
  <2> HIDE DEF w
  <2>2. w \in Nat \ {0}
    BY <2>1 DEF w
  <2>3. y \div w \in Int /\ y % w \in Int
    BY <2>1, <2>2, DivMod
  <2> QED BY <2>3 DEF w
<1> DEFINE row == (y \div size.w) + ((q \div Ksize) % Ksize) - Pad
           col == (y % size.w) + (q % Ksize) - Pad
<1>2. row \in Int /\ col \in Int
  <2> DEFINE down == (q \div Ksize) % Ksize
             right == q % Ksize
             yr == y \div size.w
             yc == y % size.w
  <2>1. down \in Int /\ right \in Int /\ Pad \in Int /\ yr \in Int /\ yc \in Int
    BY <1>1, Taps, Literals
  <2> HIDE DEF down, right, yr, yc
  <2>2. yr + down - Pad \in Int /\ yc + right - Pad \in Int
    BY <2>1
  <2> QED BY <2>2 DEF down, right, yr, yc
<1> HIDE DEF row, col
<1>3. Pixel(row, col, (q \div Ksize) \div Ksize) \in Int
  BY <1>2, Taps, PixelInt
<1> QED BY <1>3 DEF Word, row, col

-----------------------------------------------------------------------------
(* The sums *)

\* The products of the weights of a filter with the words of an output.
Terms(filter, y) == [q \in 0 .. k - 1 |-> Weights(filter * k + q) * Word(q, y)]

LEMMA ProductsInt ==
    ASSUME size \in Sizes, NEW filter \in 0 .. m - 1, NEW y \in 0 .. n - 1
    PROVE  \A q \in 0 .. k - 1 : Terms(filter, y)[q] \in Int
<1> SUFFICES ASSUME NEW q \in 0 .. k - 1
             PROVE  Weights(filter * k + q) * Word(q, y) \in Int
  BY DEF Terms
<1>1. filter * k + q \in 0 .. m * k - 1
  BY Counts, Element
<1>2. Weights(filter * k + q) \in Int
  BY <1>1, Words
<1>3. Word(q, y) \in Int
  BY WordInt
<1> QED BY <1>2, <1>3

\* The convolution, over channels, rows and columns of the filter, is the sum
\* over the rows of the matrix.
LEMMA ConvolutionIs ==
    ASSUME size \in Sizes, NEW filter \in 0 .. m - 1, NEW y \in 0 .. n - 1
    PROVE  Convolution(filter, y \div size.w, y % size.w)
             = Total(Terms(filter, y), k)
<1> DEFINE F == Terms(filter, y)
           C == size.c
           K == Ksize
           G == [a \in 0 .. C * K - 1 |-> Total([b \in 0 .. K - 1 |-> F[a * K + b]], K)]
           W(channel, down) ==
               [right \in 0 .. K - 1 |->
                   Weights(filter * k + (channel * K + down) * K + right)
                     * Pixel((y \div size.w) + down - Pad, (y % size.w) + right - Pad, channel)]
           V(channel) == [down \in 0 .. K - 1 |-> Total(W(channel, down), K)]
           U == [channel \in 0 .. C - 1 |-> Total(V(channel), K)]
           VG(a) == [b \in 0 .. K - 1 |-> G[a * K + b]]
           UG == [a \in 0 .. C - 1 |-> Total(VG(a), K)]
<1>1. Convolution(filter, y \div size.w, y % size.w) = Total(U, C)
  BY DEF Convolution
<1>2. C \in Nat \ {0} /\ K \in Nat \ {0} /\ C * K \in Nat /\ k = (C * K) * K
  BY Literals, Counts, Products
<1>3. \A q \in 0 .. k - 1 : F[q] \in Int
  BY ProductsInt
<1>4. ASSUME NEW channel \in 0 .. C - 1, NEW down \in 0 .. K - 1, NEW right \in 0 .. K - 1
      PROVE  F[(channel * K + down) * K + right] = W(channel, down)[right]
  <2> DEFINE a == channel * K + down
             q == a * K + right
  <2>0. C \in Nat /\ K \in Nat \ {0}
    BY <1>2
  <2> HIDE DEF C, K
  <2>1. a \in 0 .. C * K - 1 /\ a \div K = channel /\ a % K = down
    BY ONLY <2>0, Element, channel \in 0 .. C - 1, down \in 0 .. K - 1
  <2> DEFINE CK == C * K
  <2> HIDE DEF a, CK
  <2>2. q \in 0 .. k - 1 /\ q \div K = a /\ q % K = right
    <3>1. CK \in Nat /\ a \in 0 .. CK - 1 /\ k = CK * K
      BY <1>2, <2>1 DEF CK
    <3> QED BY <2>0, <3>1, Element
  <2>3. filter * k + a * K + right = filter * k + q
    <3>1. filter * k \in Int /\ a * K \in Int
      BY <2>0, <2>1, Counts
    <3> QED BY <3>1
  <2> HIDE DEF q
  <2>4. F[q] = Weights(filter * k + q) * Word(q, y)
    BY <2>2 DEF Terms
  <2>5. Word(q, y) = Pixel((y \div size.w) + down - Pad, (y % size.w) + right - Pad, channel)
    BY <2>1, <2>2 DEF Word, K
  <2> QED BY <2>3, <2>4, <2>5 DEF a, q, K
<1>5. ASSUME NEW channel \in 0 .. C - 1, NEW down \in 0 .. K - 1
      PROVE  Total(W(channel, down), K) = G[channel * K + down]
  <2> DEFINE a == channel * K + down
             R == [b \in 0 .. K - 1 |-> F[a * K + b]]
             L == W(channel, down)
  <2>1. a \in 0 .. C * K - 1
    BY <1>2, Element
  <2>2. \A b \in 0 .. K - 1 : L[b] = R[b]
    BY <1>4
  <2>3. G[a] = Total(R, K)
    BY <2>1
  <2> HIDE DEF R, L
  <2>4. Total(L, K) = Total(R, K)
    BY <1>2, <2>2, TotalSame
  <2> QED BY <2>3, <2>4 DEF L
<1>6. \A a \in 0 .. C * K - 1 : G[a] \in Int
  <2> SUFFICES ASSUME NEW a \in 0 .. C * K - 1 PROVE G[a] \in Int
    OBVIOUS
  <2> DEFINE R == [b \in 0 .. K - 1 |-> F[a * K + b]]
  <2>1. \A b \in 0 .. K - 1 : R[b] \in Int
    <3> SUFFICES ASSUME NEW b \in 0 .. K - 1 PROVE F[a * K + b] \in Int
      OBVIOUS
    <3>1. a * K + b \in 0 .. k - 1
      BY <1>2, Element
    <3> QED BY <1>3, <3>1
  <2>2. G[a] = Total(R, K)
    OBVIOUS
  <2> HIDE DEF R
  <2> QED BY <1>2, <2>1, <2>2, TotalInt
<1>7. Total(G, C * K) = Total(F, k)
  <2> HIDE DEF F
  <2> QED BY <1>2, <1>3, TotalOfBlocks
<1>8. Total(UG, C) = Total(G, C * K)
  <2> HIDE DEF G
  <2> QED BY <1>2, <1>6, TotalOfBlocks
<1> HIDE DEF F, G, W
<1>9. ASSUME NEW channel \in 0 .. C - 1 PROVE Total(V(channel), K) = Total(VG(channel), K)
  <2> DEFINE L == V(channel)
             R == VG(channel)
  <2>1. \A b \in 0 .. K - 1 : L[b] = R[b]
    BY <1>5
  <2> HIDE DEF L, R
  <2>2. Total(L, K) = Total(R, K)
    BY <1>2, <2>1, TotalSame
  <2> QED BY <2>2 DEF L, R
<1> HIDE DEF V, VG
<1>10. Total(U, C) = Total(UG, C)
  <2>1. \A a \in 0 .. C - 1 : U[a] = UG[a]
    BY <1>9
  <2> HIDE DEF U, UG
  <2> QED BY <1>2, <2>1, TotalSame
<1> QED BY <1>1, <1>7, <1>8, <1>10 DEF F

-----------------------------------------------------------------------------
(* The inductive invariant *)

LoopOK ==
    /\ size \in Sizes
    /\ c \in 0 .. k /\ i \in 0 .. m - 1 /\ j \in 0 .. Tiles - 1
    /\ \/ loop = "im2col" /\ c < k /\ i = 0 /\ j = 0
       \/ loop \in {"gemm", "pe", "done"} /\ c = k

\* Weights and image stay what main has read from the files.
FilesOK ==
    /\ \A a \in 0 .. m * k - 1 : DDR[a] = Weights(a)
    /\ \A a \in 0 .. n * size.c - 1 : DDR[size.IMAGE + a] = Image(a)

\* im2col has filled the rows before c.
MatrixOK ==
    \A q \in 0 .. c - 1, y \in 0 .. n - 1 : DDR[size.IMG2COL + q * n + y] = Word(q, y)

MemoryOK == DDR \in [0 .. size.OUTPUT + m * n - 1 -> Int]

TilingInv == LoopOK /\ MemoryOK /\ FilesOK /\ MatrixOK /\ OutputCorrect

-----------------------------------------------------------------------------
(* A tile *)

\* Column x of tile j is an output; a tile lies in one row of the image.
LEMMA Column ==
    ASSUME size \in Sizes, WholeTiles(size), j \in 0 .. Tiles - 1,
           NEW x \in 0 .. size.Tile_n_size - 1
    PROVE  LET y == j * size.Tile_n_size + x
           IN  /\ y \in 0 .. n - 1
               /\ y \div size.Tile_n_size = j
               /\ y \div size.w = j \div Across
               /\ y % size.w = (j % Across) * size.Tile_n_size + x
<1> DEFINE T == size.Tile_n_size
           y == j * T + x
           A == Across
           J == j \div A
           r == j % A
           w == size.w
<1>1. /\ T \in Nat \ {0} /\ A \in Nat \ {0} /\ w \in Nat \ {0} /\ w = A * T
      /\ Tiles \in Nat /\ n = Tiles * T /\ j \in Nat /\ x \in Nat /\ x \in 0 .. T - 1
  BY Literals, Whole
<1> HIDE DEF T, A, w
<1>2. y \in 0 .. n - 1 /\ y \div T = j
  BY <1>1, Element
<1>3. J \in Nat /\ r \in 0 .. A - 1 /\ j = J * A + r
  BY <1>1, DivMod
<1> HIDE DEF J, r
<1>4. r * T + x \in 0 .. A * T - 1
  BY <1>1, <1>3, Element
<1>5. y = J * w + (r * T + x)
  BY <1>1, <1>3
<1>6. y \in Nat
  BY <1>1
<1> HIDE DEF y
<1>7. y \div w = J /\ y % w = r * T + x
  <2> DEFINE s == r * T + x
  <2>1. s \in 0 .. w - 1 /\ y = J * w + s
    BY <1>1, <1>4, <1>5
  <2> HIDE DEF s
  <2>2. y \div w = J /\ y % w = s
    BY <1>1, <1>3, <1>6, <2>1, QuotientIs
  <2> QED BY <2>2 DEF s
<1> QED BY <1>2, <1>7 DEF y, T, A, J, r, w

\* The products a tile of weights contributes to a column, as the sums see them.
PartTerms(p, x) ==
    [row \in 0 .. size.Tile_k_size - 1 |->
        Terms(i, j * size.Tile_n_size + x)[p * size.Tile_k_size + row]]

LEMMA PartsAddUp ==
    ASSUME size \in Sizes, WholeTiles(size), i \in 0 .. m - 1, j \in 0 .. Tiles - 1,
           NEW x \in 0 .. size.Tile_n_size - 1
    PROVE  Total([p \in 0 .. Parts - 1 |-> Total(PartTerms(p, x), size.Tile_k_size)], Parts)
             = Convolution(i, (j * size.Tile_n_size + x) \div size.w,
                              (j * size.Tile_n_size + x) % size.w)
<1> DEFINE y == j * size.Tile_n_size + x
           F == Terms(i, y)
           K == size.Tile_k_size
<1>1. y \in 0 .. n - 1
  BY Column
<1>2. \A q \in 0 .. k - 1 : F[q] \in Int
  BY <1>1, ProductsInt
<1>3. Parts \in Nat /\ K \in Nat /\ k = Parts * K
  BY Whole, Literals
<1>4. Convolution(i, y \div size.w, y % size.w) = Total(F, k)
  BY <1>1, ConvolutionIs
<1>5. Total([p \in 0 .. Parts - 1 |-> Total([row \in 0 .. K - 1 |-> F[p * K + row]], K)], Parts)
        = Total(F, k)
  <2> HIDE DEF F, K
  <2> QED BY <1>2, <1>3, TotalOfBlocks
<1> QED BY <1>4, <1>5 DEF PartTerms

\* The operands of the products lie where tile p of the weights, tile (p, j) of
\* the matrix begin.
LEMMA Operands ==
    ASSUME TilingInv, Layout, loop \in {"gemm", "pe"},
           NEW p \in 0 .. Parts - 1, NEW row \in 0 .. size.Tile_k_size - 1
    PROVE  LET q == p * size.Tile_k_size + row
           IN  /\ q \in 0 .. k - 1
               /\ Tile_Weight(p, row) = Weights(i * k + q)
               /\ \A y \in 0 .. n - 1 : DDR[size.IMG2COL + q * n + y] = Word(q, y)
<1> DEFINE K == size.Tile_k_size
           q == p * K + row
<1>1. /\ size \in Sizes /\ WholeTiles(size) /\ c = k /\ i \in 0 .. m - 1
  BY DEF TilingInv, LoopOK, Layout
<1>2. Parts \in Nat \ {0} /\ K \in Nat \ {0} /\ k = Parts * K /\ k \in Nat \ {0} /\ m \in Nat
  BY <1>1, Whole, Literals, Counts
<1> HIDE DEF K
<1>3. q \in 0 .. k - 1
  BY <1>2, Element DEF K
<1>4. i * k + q \in 0 .. m * k - 1
  <2> HIDE DEF q
  <2> QED BY <1>1, <1>2, <1>3, Element
<1>5. DDR[i * k + q] = Weights(i * k + q)
  <2> HIDE DEF q
  <2> QED BY <1>4 DEF TilingInv, FilesOK
<1>6. i * k + p * K + row = i * k + q
  <2>1. i * k \in Int /\ p * K \in Int
    BY <1>1, <1>2
  <2> QED BY <2>1 DEF K
<1>7. Tile_Weight(p, row) = Weights(i * k + q)
  BY <1>5, <1>6 DEF Tile_Weight, K
<1>8. \A y \in 0 .. n - 1 : DDR[size.IMG2COL + q * n + y] = Word(q, y)
  <2> HIDE DEF q
  <2> QED BY <1>1, <1>3 DEF TilingInv, MatrixOK
<1> QED BY <1>3, <1>7, <1>8 DEF K

\* The software adds the rows of the matrix.
LEMMA SoftwareTile ==
    ASSUME TilingInv, Layout, loop = "gemm",
           NEW p \in 0 .. Parts - 1, NEW x \in 0 .. size.Tile_n_size - 1
    PROVE  TileProduct(p, x) = Total(PartTerms(p, x), size.Tile_k_size)
<1> DEFINE K == size.Tile_k_size
           y == j * size.Tile_n_size + x
           L == [row \in 0 .. K - 1 |-> Tile_Weight(p, row) * DDR[TileBase(p) + row * n + x]]
           R == PartTerms(p, x)
<1>1. size \in Sizes /\ WholeTiles(size) /\ j \in 0 .. Tiles - 1
  BY DEF TilingInv, LoopOK, Layout
<1>2. y \in 0 .. n - 1
  BY <1>1, Column
<1>3. ASSUME NEW row \in 0 .. K - 1 PROVE L[row] = R[row]
  <2> DEFINE q == p * K + row
  <2>1. /\ q \in 0 .. k - 1 /\ Tile_Weight(p, row) = Weights(i * k + q)
        /\ DDR[size.IMG2COL + q * n + y] = Word(q, y)
    BY <1>2, Operands
  <2>2. TileBase(p) + row * n + x = size.IMG2COL + q * n + y
    <3>1. /\ p \in Int /\ K \in Int /\ n \in Int /\ row \in Int /\ size.IMG2COL \in Int
          /\ j * size.Tile_n_size \in Int
      BY <1>1, Literals, Counts, Whole
    <3> DEFINE JT == j * size.Tile_n_size
    <3> HIDE DEF JT, K
    <3>2. /\ p * K * n \in Int /\ row * n \in Int /\ JT \in Int
          /\ (p * K + row) * n = p * K * n + row * n
      BY <3>1 DEF JT
    <3>3. TileBase(p) = size.IMG2COL + p * K * n + JT
      BY DEF TileBase, K, JT
    <3>4. y = JT + x
      BY DEF JT
    <3> HIDE DEF y
    <3> QED BY <3>1, <3>2, <3>3, <3>4
  <2>3. R[row] = Weights(i * k + q) * Word(q, y)
    BY <2>1 DEF PartTerms, Terms
  <2>4. L[row] = Tile_Weight(p, row) * DDR[TileBase(p) + row * n + x]
    OBVIOUS
  <2> QED BY <2>1, <2>2, <2>3, <2>4
<1>4. K \in Nat
  BY <1>1, Literals
<1>5. TileProduct(p, x) = Total(L, K)
  BY DEF TileProduct, gemm_cpu
<1> HIDE DEF L, R, K
<1>6. Total(L, K) = Total(R, K)
  BY <1>3, <1>4, TotalSame
<1> QED BY <1>5, <1>6 DEF R, K

\* The word that row r of a block meets in column x, s steps up its diagonal: the
\* word of another row and column of the block, down the same diagonal, or the
\* last column's own.
Width(x) ==
    IF x \div PE_SIZE_X < size.Tile_n_size \div PE_SIZE_X
    THEN PE_SIZE_X ELSE size.Tile_n_size % PE_SIZE_X

Address(row, x) ==
    b_Address(x \div PE_SIZE_X, row \div PE_SIZE_Y,
              (row % PE_SIZE_Y) + (x % PE_SIZE_X), Width(x))

LEMMA Diagonal ==
    ASSUME size \in Sizes, NEW row \in Nat, NEW x \in 0 .. size.Tile_n_size - 1
    PROVE  \E s \in 0 .. (row % PE_SIZE_Y) :
              /\ Address(row, x) = (row - s) * n + (x + s)
              /\ x + s \in 0 .. size.Tile_n_size - 1
<1> DEFINE X == PE_SIZE_X
           Y == PE_SIZE_Y
           T == size.Tile_n_size
           group == x \div X
           xx == x % X
           block == row \div Y
           rr == row % Y
           width == Width(x)
           groups == T \div X
           edge == T % X
<1>1. X \in Nat \ {0} /\ Y \in Nat \ {0} /\ T \in Nat \ {0} /\ n \in Nat /\ x \in Nat
  BY Literals, Counts
<1>2. /\ group \in Nat /\ xx \in 0 .. X - 1 /\ x = group * X + xx
      /\ groups \in Nat /\ edge \in 0 .. X - 1 /\ T = groups * X + edge
      /\ block \in Nat /\ rr \in 0 .. Y - 1 /\ row = block * Y + rr
  <2> HIDE DEF X, Y, T
  <2> QED BY <1>1, DivMod
<1>3. width = IF group < groups THEN X ELSE edge
  BY DEF Width
<1>4. x < T
  BY <1>1
<1>5. Address(row, x) = b_Address(group, block, rr + xx, width)
  BY DEF Address
<1> HIDE DEF X, Y, T, group, xx, block, rr, groups, edge, width
<1>6. xx < width /\ group * X + width <= T /\ width \in Nat
  <2>0. group * X \in Nat /\ groups * X \in Nat
    BY <1>1, <1>2
  <2>1. CASE group < groups
    <3>1. group * X + X <= groups * X
      <4>1. groups \in Nat /\ group \in 0 .. groups - 1
        BY <1>2, <2>1
      <4> QED BY <1>1, <4>1, Element
    <3> QED BY <1>1, <1>2, <1>3, <2>0, <2>1, <3>1
  <2>2. CASE group >= groups
    <3>1. PICK t \in Nat : group = groups + t
      <4>1. group - groups \in Nat /\ group = groups + (group - groups)
        BY <1>2, <2>2
      <4> QED BY <4>1
    <3>2. group * X = groups * X + t * X /\ t * X \in Nat
      BY <1>1, <1>2, <3>1
    <3>3. t = 0
      <4> SUFFICES ASSUME t >= 1 PROVE FALSE
        BY <3>1
      <4>1. t * X >= X
        <5>1. PICK u \in Nat : t = 1 + u
          <6>1. t - 1 \in Nat /\ t = 1 + (t - 1)
            BY <3>1
          <6> QED BY <6>1
        <5>2. t * X = X + u * X /\ u * X \in Nat
          BY <1>1, <5>1
        <5> QED BY <1>1, <5>2
      <4> QED BY <1>1, <1>2, <1>4, <2>0, <3>2, <4>1
    <3>4. group * X = groups * X
      BY <3>1, <3>3, <1>2
    <3> QED BY <1>1, <1>2, <1>3, <1>4, <2>0, <2>2, <3>4
  <2> QED BY <1>2, <2>1, <2>2
<1>7. group * X \in Nat /\ block * Y \in Nat /\ block * Y * n \in Nat /\ rr \in Nat /\ xx \in Nat
  BY <1>1, <1>2
<1>8. CASE rr + xx < width
  <2>1. row - rr = block * Y
    BY <1>2, <1>7
  <2>2. Address(row, x) = (row - rr) * n + (x + rr)
    <3>1. Address(row, x) = group * X + block * Y * n + (rr + xx)
      BY <1>5, <1>8 DEF b_Address, X, Y
    <3> DEFINE b == block * Y * n
    <3> HIDE DEF b
    <3>2. (row - rr) * n = b
      BY <2>1 DEF b
    <3>3. Address(row, x) = group * X + b + (rr + xx) /\ b \in Nat
      BY <1>7, <3>1 DEF b
    <3> QED BY <1>2, <1>7, <3>2, <3>3
  <2>3. x + rr \in 0 .. T - 1
    BY <1>1, <1>2, <1>6, <1>7, <1>8
  <2> QED BY <2>2, <2>3, <1>7 DEF T, rr, Y
<1>9. CASE rr + xx >= width
  <2> DEFINE s == width - 1 - xx
             up == (rr + xx) - width + 1
  <2>1. s \in 0 .. rr /\ up \in Nat /\ row - s = block * Y + up
    BY <1>2, <1>6, <1>7, <1>9
  <2>2. Address(row, x) = (row - s) * n + (x + s)
    <3>1. Address(row, x) = group * X + block * Y * n + (width - 1 + up * n)
      <4>1. ~(rr + xx < width)
        BY <1>6, <1>7, <1>9
      <4> QED BY <1>5, <4>1 DEF b_Address, X, Y
    <3>2. x + s = group * X + width - 1
      BY <1>2, <1>6, <1>7
    <3> HIDE DEF s, up
    <3>3. (row - s) * n = block * Y * n + up * n /\ up * n \in Nat
      BY <1>1, <1>7, <2>1
    <3> DEFINE b == block * Y * n
               a == up * n
               d == group * X
    <3>4. a \in Nat /\ b \in Nat /\ d \in Nat
      BY <1>7, <3>3
    <3> HIDE DEF a, b, d
    <3>5. Address(row, x) = d + b + (width - 1 + a) /\ (row - s) * n = b + a
          /\ x + s = d + width - 1
      BY <3>1, <3>2, <3>3 DEF a, b, d
    <3> QED BY <1>6, <3>4, <3>5
  <2>3. x + s \in 0 .. T - 1
    BY <1>1, <1>2, <1>6, <1>7
  <2> QED BY <2>1, <2>2, <2>3 DEF T, rr, Y
<1> QED BY <1>6, <1>7, <1>8, <1>9

\* Down a diagonal of a block the matrix holds the same pixel, within a row of
\* the image.
LEMMA SameWord ==
    ASSUME size \in Sizes, Layout, j \in 0 .. Tiles - 1,
           NEW p \in 0 .. Parts - 1, NEW row \in 0 .. size.Tile_k_size - 1,
           NEW s \in 0 .. (row % PE_SIZE_Y),
           NEW x \in 0 .. size.Tile_n_size - 1, x + s \in 0 .. size.Tile_n_size - 1
    PROVE  LET q == p * size.Tile_k_size + row
               y == j * size.Tile_n_size + x
           IN  /\ q - s \in 0 .. k - 1 /\ y \in 0 .. n - 1 /\ y + s \in 0 .. n - 1
               /\ Word(q - s, y + s) = Word(q, y)
<1> DEFINE K == Ksize
           TK == size.Tile_k_size
           B == TK \div K
           block == row \div K
           rr == row % K
           q == p * TK + row
           y == j * size.Tile_n_size + x
           Z == p * B + block
<1>0. WholeTiles(size) /\ PE_SIZE_Y = K
  BY DEF Layout, SameSize
<1>1. /\ K \in Nat \ {0} /\ TK \in Nat \ {0} /\ B \in Nat \ {0} /\ TK = B * K
      /\ Parts \in Nat /\ k = Parts * TK /\ p \in Nat /\ row \in Nat /\ row \in 0 .. TK - 1
  BY <1>0, Whole, Literals
<1>2. s \in 0 .. rr
  BY <1>0
<1>3. /\ y \in 0 .. n - 1 /\ y + s \in 0 .. n - 1
      /\ y \div size.w = (y + s) \div size.w
      /\ (y + s) % size.w = (y % size.w) + s
      /\ y % size.w \in Int
  <2>1. /\ y \in 0 .. n - 1 /\ y \div size.w = j \div Across
        /\ y % size.w = (j % Across) * size.Tile_n_size + x
    BY <1>0, Column
  <2> DEFINE xs == x + s
             ys == j * size.Tile_n_size + xs
  <2> HIDE DEF xs
  <2>2. xs \in 0 .. size.Tile_n_size - 1
    BY DEF xs
  <2>3. /\ ys \in 0 .. n - 1 /\ ys \div size.w = j \div Across
        /\ ys % size.w = (j % Across) * size.Tile_n_size + xs
    BY <1>0, <2>2, Column
  <2>4. /\ j * size.Tile_n_size \in Int /\ (j % Across) * size.Tile_n_size \in Int
    <3>1. size.Tile_n_size \in Nat \ {0} /\ Across \in Nat \ {0} /\ j \in Nat
      BY <1>0, Whole, Literals
    <3>2. j % Across \in Int
      BY <3>1, DivMod
    <3> QED BY <3>1, <3>2
  <2> DEFINE a == j * size.Tile_n_size
             b == (j % Across) * size.Tile_n_size
  <2>5. y = a + x /\ ys = a + xs /\ xs = x + s /\ a \in Int /\ b \in Int
    BY <2>4 DEF xs
  <2>6. y % size.w = b + x /\ ys % size.w = b + xs
    BY <2>1, <2>3
  <2> HIDE DEF a, b, y, ys
  <2>7. ys = y + s /\ (b + xs) = (b + x) + s /\ b + x \in Int
    BY <1>2, <2>5
  <2> QED BY <2>1, <2>3, <2>6, <2>7
<1>4. block \in Nat /\ rr \in 0 .. K - 1 /\ row = block * K + rr
  <2> HIDE DEF K
  <2> QED BY <1>1, DivMod
<1> HIDE DEF K, TK, B, block, rr, y
<1>5. q = Z * K + rr /\ Z \in Nat
  <2>1. p * TK = (p * B) * K /\ p * B \in Nat /\ Z * K = (p * B) * K + block * K
    BY <1>1, <1>4
  <2>2. block * K \in Nat /\ (p * B) * K \in Nat
    BY <1>1, <1>4, <2>1
  <2> QED BY <1>1, <1>4, <2>1, <2>2
<1>6. q \in 0 .. k - 1
  BY <1>1, Element
<1> HIDE DEF q, Z
<1>7. q \div K = Z /\ q % K = rr
  <2>1. q \in Nat /\ K \in Nat \ {0} /\ Z \in Int /\ rr \in 0 .. K - 1 /\ q = Z * K + rr
    BY <1>1, <1>4, <1>5, <1>6
  <2> QED BY ONLY <2>1, QuotientIs
<1>8. (q - s) \div K = Z /\ (q - s) % K = rr - s /\ q - s \in 0 .. k - 1
  <2>0. Z * K \in Nat
    BY <1>1, <1>5
  <2>1. q - s = Z * K + (rr - s) /\ rr - s \in 0 .. K - 1 /\ q - s \in Nat
    BY <1>1, <1>2, <1>4, <1>5, <2>0
  <2> DEFINE r == rr - s
             u == q - s
  <2>2. u = Z * K + r /\ r \in 0 .. K - 1 /\ u \in Nat
    BY <2>1
  <2> HIDE DEF r, u
  <2>3. K \in Nat \ {0} /\ Z \in Int
    BY <1>1, <1>5
  <2>4. u \div K = Z /\ u % K = r
    BY ONLY <2>2, <2>3, QuotientIs
  <2>5. q - s \in 0 .. k - 1
    <3>1. k \in Nat /\ rr \in Nat /\ s \in Nat
      BY <1>1, <1>2, <1>4, Counts
    <3> QED BY <1>6, <2>1, <3>1
  <2> QED BY <2>4, <2>5 DEF r, u
<1>9. (y % size.w) + rr - Pad = ((y + s) % size.w) + (rr - s) - Pad
  <2>1. rr \in Int /\ s \in Int /\ Pad \in Int
    BY <1>1, <1>2, <1>4, Literals
  <2> QED BY <1>3, <2>1
<1>10. Word(q, y) = Pixel((y \div size.w) + (Z % K) - Pad, (y % size.w) + rr - Pad, Z \div K)
  BY <1>7 DEF Word, K
<1>11. Word(q - s, y + s)
         = Pixel(((y + s) \div size.w) + (Z % K) - Pad,
                 ((y + s) % size.w) + (rr - s) - Pad, Z \div K)
  BY <1>8 DEF Word, K
<1>12. Word(q - s, y + s) = Word(q, y)
  BY <1>3, <1>9, <1>10, <1>11
<1> QED BY <1>3, <1>8, <1>12 DEF q, y, TK

\* So the accelerator, from the diagonals, adds what the software adds.
LEMMA ArrayTile ==
    ASSUME TilingInv, Layout, loop = "pe",
           NEW p \in 0 .. Parts - 1, NEW x \in 0 .. size.Tile_n_size - 1
    PROVE  TileProduct(p, x) = Total(PartTerms(p, x), size.Tile_k_size)
<1> DEFINE K == size.Tile_k_size
           y == j * size.Tile_n_size + x
           L == [row \in 0 .. K - 1 |->
                   Tile_Weight(p, row) * DDR[TileBase(p) + Address(row, x)]]
           R == PartTerms(p, x)
<1>1. size \in Sizes /\ WholeTiles(size) /\ j \in 0 .. Tiles - 1
  BY DEF TilingInv, LoopOK, Layout
<1>2. K \in Nat
  BY <1>1, Literals
<1>3. ASSUME NEW row \in 0 .. K - 1 PROVE L[row] = R[row]
  <2> DEFINE q == p * K + row
  <2>1. PICK s \in 0 .. (row % PE_SIZE_Y) :
              /\ Address(row, x) = (row - s) * n + (x + s)
              /\ x + s \in 0 .. size.Tile_n_size - 1
    BY <1>1, <1>2, Diagonal
  <2>2. /\ q - s \in 0 .. k - 1 /\ y + s \in 0 .. n - 1
        /\ Word(q - s, y + s) = Word(q, y)
    BY <1>1, <2>1, SameWord
  <2>3. DDR[size.IMG2COL + (q - s) * n + (y + s)] = Word(q, y)
    <3> HIDE DEF q, y
    <3>1. c = k
      BY DEF TilingInv, LoopOK
    <3> QED BY <2>2, <3>1 DEF TilingInv, MatrixOK
  <2>4. TileBase(p) + Address(row, x) = size.IMG2COL + (q - s) * n + (y + s)
    <3>1. /\ p \in Int /\ K \in Int /\ n \in Int /\ row \in Int /\ size.IMG2COL \in Int
          /\ j * size.Tile_n_size \in Int /\ s \in Int /\ x \in Int
      BY <1>1, <2>1, Literals, Counts, Whole, DivMod
    <3> DEFINE JT == j * size.Tile_n_size
    <3> HIDE DEF JT, K
    <3>2. (q - s) * n = p * K * n + (row - s) * n /\ p * K * n \in Int /\ (row - s) * n \in Int
      BY <3>1
    <3>3. TileBase(p) = size.IMG2COL + p * K * n + JT
      BY DEF TileBase, K, JT
    <3>4. y = JT + x /\ JT \in Int
      BY <3>1 DEF JT
    <3> DEFINE a == p * K * n
               b == (row - s) * n
               d == (q - s) * n
    <3>5. d = a + b /\ a \in Int /\ b \in Int /\ TileBase(p) = size.IMG2COL + a + JT
          /\ Address(row, x) = b + (x + s)
      BY <2>1, <3>2, <3>3
    <3> HIDE DEF a, b, d, y
    <3>6. TileBase(p) + Address(row, x) = size.IMG2COL + d + (y + s)
      BY <3>1, <3>4, <3>5
    <3> QED BY <3>6 DEF d
  <2>5. Tile_Weight(p, row) = Weights(i * k + q) /\ q \in 0 .. k - 1
    BY Operands
  <2>6. R[row] = Weights(i * k + q) * Word(q, y)
    BY <2>5 DEF PartTerms, Terms
  <2>7. L[row] = Tile_Weight(p, row) * DDR[TileBase(p) + Address(row, x)]
    OBVIOUS
  <2> QED BY <2>3, <2>4, <2>5, <2>6, <2>7
<1>5. TileProduct(p, x) = Total(L, K)
  BY DEF TileProduct, PE_Instruction, Address, Width
<1> HIDE DEF L, R, K
<1>6. Total(L, K) = Total(R, K)
  BY <1>2, <1>3, TotalSame
<1> QED BY <1>5, <1>6 DEF R, K

-----------------------------------------------------------------------------
(* What does not change *)

\* The convolution of a layout, for the variable size does not change.
ConvolutionOf(s, filter, row, col) ==
    LET weights == Ksize * Ksize * s.c
        PixelOf(across, up, channel) ==
            IF across \in 0 .. s.h - 1 /\ up \in 0 .. s.w - 1
            THEN Image(up + s.w * (across + s.h * channel)) ELSE 0
    IN  Total([channel \in 0 .. s.c - 1 |->
          Total([down \in 0 .. Ksize - 1 |->
            Total([right \in 0 .. Ksize - 1 |->
                Weights(filter * weights + (channel * Ksize + down) * Ksize + right)
                  * PixelOf(row + down - Pad, col + right - Pad, channel)],
              Ksize)], Ksize)], s.c)

LEMMA SizeStays ==
    ASSUME size' = size
    PROVE  /\ m' = m /\ n' = n /\ k' = k /\ Tiles' = Tiles
           /\ \A q, y : Word(q, y)' = Word(q, y)
           /\ \A filter, row, col :
                 Convolution(filter, row, col)' = Convolution(filter, row, col)
<1>1. m' = m /\ n' = n /\ k' = k /\ Tiles' = Tiles
  BY DEF m, n, k, Tiles
<1>2. \A q, y : Word(q, y)' = Word(q, y)
  BY DEF Word, Pixel
<1>3. ASSUME NEW filter, NEW row, NEW col
      PROVE  Convolution(filter, row, col)' = Convolution(filter, row, col)
  <2>1. Convolution(filter, row, col) = ConvolutionOf(size, filter, row, col)
    BY DEF Convolution, ConvolutionOf, Pixel, k
  <2>2. Convolution(filter, row, col)' = ConvolutionOf(size', filter, row, col)
    BY DEF Convolution, ConvolutionOf, Pixel, k
  <2> QED BY <2>1, <2>2
<1> QED BY <1>1, <1>2, <1>3

LEMMA ConvolutionInt ==
    ASSUME size \in Sizes, NEW filter \in 0 .. m - 1, NEW y \in 0 .. n - 1
    PROVE  Convolution(filter, y \div size.w, y % size.w) \in Int
<1> DEFINE F == Terms(filter, y)
<1>1. \A q \in 0 .. k - 1 : F[q] \in Int
  BY ProductsInt
<1> HIDE DEF F
<1>2. Total(F, k) \in Int
  BY <1>1, TotalInt, Counts
<1> QED BY <1>2, ConvolutionIs DEF F

\* The output of a filter has an address of its own, behind the matrix.
LEMMA OutputAddress ==
    ASSUME size \in Sizes, NEW filter \in 0 .. m - 1, NEW y \in 0 .. n - 1
    PROVE  /\ size.OUTPUT + filter * n + y \in size.OUTPUT .. size.OUTPUT + m * n - 1
           /\ y \div size.Tile_n_size \in Int
<1>1. m \in Nat /\ n \in Nat \ {0} /\ size.OUTPUT \in Nat
  BY Literals, Counts
<1>2. filter * n + y \in 0 .. m * n - 1 /\ filter * n \in Nat /\ m * n \in Nat
  BY <1>1, Element
<1>3. y \in Nat /\ size.Tile_n_size \in Nat \ {0}
  BY <1>1, Literals
<1> DEFINE T == size.Tile_n_size
<1> HIDE DEF T
<1>4. y \div T \in Int
  <2>1. T \in Nat \ {0}
    BY <1>3 DEF T
  <2> QED BY <1>3, <2>1, DivMod
<1> DEFINE mn == m * n
           fn == filter * n
<1>5. fn + y \in 0 .. mn - 1 /\ fn \in Nat /\ mn \in Nat
  BY <1>2
<1> HIDE DEF mn, fn
<1>6. size.OUTPUT + fn + y \in size.OUTPUT .. size.OUTPUT + mn - 1
  BY <1>1, <1>3, <1>5
<1> QED BY <1>4, <1>6 DEF T, mn, fn

\* Rounds, where every output lies in a tile.
LEMMA RoundsIs ==
    ASSUME LoopOK, WholeTiles(size), NEW filter \in 0 .. m - 1, NEW y \in 0 .. n - 1
    PROVE  LET tile == y \div size.Tile_n_size
               this == IF filter < i \/ (filter = i /\ tile < j) THEN 1 ELSE 0
           IN  /\ tile \in 0 .. Tiles - 1
               /\ loop = "im2col" => Rounds(filter, y) = 0
               /\ loop = "gemm" => Rounds(filter, y) = this
               /\ loop = "pe" => Rounds(filter, y) = 1 + this
               /\ loop = "done" => Rounds(filter, y) = 2
<1> DEFINE T == size.Tile_n_size
           tile == y \div T
<1>1. size \in Sizes
  BY DEF LoopOK
<1>2. T \in Nat \ {0} /\ Tiles \in Nat \ {0} /\ n = Tiles * T /\ n \in Nat
  BY <1>1, Whole, Literals, Counts
<1> HIDE DEF T
<1>3. y \in Nat /\ y < Tiles * T
  BY <1>2
<1>4. tile \in 0 .. Tiles - 1
  BY <1>2, <1>3, Place
<1>5. ~(tile >= n \div size.Tile_n_size)
  BY <1>2, <1>4 DEF Tiles
<1> QED BY <1>4, <1>5 DEF Rounds, T

-----------------------------------------------------------------------------
(* The steps *)

LEMMA InitTiling == TilingInit /\ Layout => TilingInv
<1> SUFFICES ASSUME TilingInit, Layout PROVE TilingInv
  OBVIOUS
<1>1. size \in Sizes /\ ZonesApart(size) /\ WholeTiles(size)
  BY DEF TilingInit, Layout
<1>2. LoopOK
  BY <1>1, Counts, Whole DEF TilingInit, LoopOK
<1>3. /\ m * k \in Nat /\ n * size.c \in Nat /\ k * n \in Nat /\ m * n \in Nat
      /\ m * k <= size.IMAGE
      /\ size.IMAGE + n * size.c <= size.IMG2COL
      /\ size.IMG2COL + k * n <= size.OUTPUT
      /\ size.IMAGE \in Nat /\ size.IMG2COL \in Nat /\ size.OUTPUT \in Nat
  BY <1>1, Zones, Literals
<1> DEFINE mk == m * k
           nc == n * size.c
           kn == k * n
           mn == m * n
<1>4. /\ mk \in Nat /\ nc \in Nat /\ kn \in Nat /\ mn \in Nat
      /\ mk <= size.IMAGE /\ size.IMAGE + nc <= size.IMG2COL
      /\ size.IMG2COL + kn <= size.OUTPUT
      /\ size.IMAGE \in Nat /\ size.IMG2COL \in Nat /\ size.OUTPUT \in Nat
  BY <1>3
<1>5. /\ \A a \in 0 .. mk - 1 : Weights(a) \in Int
      /\ \A a \in 0 .. nc - 1 : Image(a) \in Int
  BY <1>1, Words
<1>6. DDR = [a \in 0 .. size.OUTPUT + mn - 1 |->
                IF a \in size.OUTPUT .. size.OUTPUT + mn - 1 THEN 0
                ELSE IF a \in 0 .. 0 + mk - 1 THEN Weights(a)
                ELSE IF a \in size.IMAGE .. size.IMAGE + nc - 1
                     THEN Image(a - size.IMAGE) ELSE 0]
  BY DEF TilingInit, Output, Zone
<1>7. MemoryOK
  <2> HIDE DEF mk, nc, kn
  <2>1. ASSUME NEW a \in 0 .. size.OUTPUT + mn - 1 PROVE DDR[a] \in Int
    BY <1>4, <1>5, <1>6
  <2> QED BY <1>6, <2>1 DEF MemoryOK
<1>8. FilesOK
  <2> SUFFICES /\ \A a \in 0 .. mk - 1 : DDR[a] = Weights(a)
               /\ \A a \in 0 .. nc - 1 : DDR[size.IMAGE + a] = Image(a)
    BY DEF FilesOK
  <2> HIDE DEF mk, nc, kn, mn
  <2>1. ASSUME NEW a \in 0 .. mk - 1 PROVE DDR[a] = Weights(a)
    BY <1>4, <1>6
  <2>2. ASSUME NEW a \in 0 .. nc - 1 PROVE DDR[size.IMAGE + a] = Image(a)
    <3>1. /\ size.IMAGE + a \in 0 .. size.OUTPUT + mn - 1
          /\ size.IMAGE + a \notin size.OUTPUT .. size.OUTPUT + mn - 1
          /\ size.IMAGE + a \notin 0 .. 0 + mk - 1
          /\ size.IMAGE + a \in size.IMAGE .. size.IMAGE + nc - 1
          /\ (size.IMAGE + a) - size.IMAGE = a
      BY <1>4
    <3> QED BY <1>6, <3>1
  <2> QED BY <2>1, <2>2
<1>9. MatrixOK
  BY DEF TilingInit, MatrixOK
<1>10. OutputCorrect
  <2> SUFFICES ASSUME NEW filter \in 0 .. m - 1, NEW y \in 0 .. n - 1
               PROVE  DDR[size.OUTPUT + filter * n + y] =
                        Rounds(filter, y) * Convolution(filter, y \div size.w, y % size.w)
    BY DEF OutputCorrect
  <2>1. Rounds(filter, y) = 0
    BY <1>1, <1>2, RoundsIs DEF TilingInit
  <2>2. Convolution(filter, y \div size.w, y % size.w) \in Int
    BY <1>1, ConvolutionInt
  <2>3. DDR[size.OUTPUT + filter * n + y] = 0
    <3> DEFINE a == size.OUTPUT + filter * n + y
    <3>1. a \in size.OUTPUT .. size.OUTPUT + mn - 1
      BY <1>1, OutputAddress
    <3> HIDE DEF a, mn, mk, nc
    <3>2. DDR[a] = 0
      BY <1>4, <1>6, <3>1
    <3> QED BY <3>2 DEF a
  <2> DEFINE C == Convolution(filter, y \div size.w, y % size.w)
  <2> HIDE DEF C
  <2>4. 0 * C = 0
    BY <2>2 DEF C
  <2> QED BY <2>1, <2>3, <2>4 DEF C
<1> QED BY <1>2, <1>7, <1>8, <1>9, <1>10 DEF TilingInv

\* get_pixel reads what the file has.
LEMMA PixelIs ==
    ASSUME TilingInv, NEW row \in Int, NEW col \in Int, NEW channel \in 0 .. size.c - 1
    PROVE  get_pixel(row, col, channel) = Pixel(row - Pad, col - Pad, channel)
<1>1. size \in Sizes
  BY DEF TilingInv, LoopOK
<1> DEFINE a == (col - Pad) + size.w * ((row - Pad) + size.h * channel)
<1>2. row - Pad \in Int /\ col - Pad \in Int
  BY <1>1, Literals
<1>3. ASSUME row - Pad \in 0 .. size.h - 1, col - Pad \in 0 .. size.w - 1
      PROVE  DDR[size.IMAGE + a] = Image(a)
  <2>1. a \in 0 .. n * size.c - 1
    BY <1>1, <1>2, <1>3, PixelInt
  <2> HIDE DEF a
  <2> QED BY <2>1 DEF TilingInv, FilesOK
<1>4. size.IMAGE + col - Pad + size.w * (row - Pad + size.h * channel) = size.IMAGE + a
  <2> DEFINE b == size.w * ((row - Pad) + size.h * channel)
  <2>1. size.h * channel \in Int
    BY <1>1, Literals
  <2>2. (row - Pad) + size.h * channel \in Int
    BY <1>2, <2>1
  <2>3. b \in Int /\ size.IMAGE \in Int /\ Pad \in Int
    BY <1>1, <2>2, Literals
  <2> HIDE DEF b
  <2>4. size.IMAGE + col - Pad + b = size.IMAGE + ((col - Pad) + b)
    BY <2>3
  <2> QED BY <2>4 DEF b
<1> QED BY <1>3, <1>4 DEF get_pixel, Pixel

\* Row c of the matrix is written, and nothing else.
LEMMA RowWritten ==
    ASSUME TilingInv, Layout, Im2col
    PROVE  /\ DOMAIN DDR' = DOMAIN DDR
           /\ \A a \in DOMAIN DDR :
                 a \notin size.IMG2COL + c * n .. size.IMG2COL + c * n + n - 1 =>
                     DDR'[a] = DDR[a]
           /\ \A y \in 0 .. n - 1 :
                 /\ size.IMG2COL + c * n + y \in DOMAIN DDR
                 /\ DDR'[size.IMG2COL + c * n + y] = Word(c, y)
           /\ size.IMG2COL + c * n + n <= size.OUTPUT
           /\ c * n \in Nat /\ c \in 0 .. k - 1
<1>0. size \in Sizes
  BY DEF TilingInv, LoopOK
<1>1. size \in Sizes /\ ZonesApart(size) /\ SameSize /\ c \in 0 .. k - 1
  BY <1>0, Counts DEF TilingInv, LoopOK, Layout, Im2col
<1>2. height_col = size.h /\ width_col = size.w
  BY <1>1, Columns
<1>3. /\ size.h \in Nat \ {0} /\ size.w \in Nat \ {0} /\ size.IMG2COL \in Nat
      /\ size.OUTPUT \in Nat /\ n \in Nat \ {0} /\ k \in Nat /\ c \in Nat
      /\ m * n \in Nat /\ k * n \in Nat
  BY <1>1, Literals, Counts, Zones
<1>4. c * n \in Nat /\ c * n + n <= k * n
  BY <1>1, <1>3, Element
<1> DEFINE base == size.IMG2COL + c * n
           row == size.IMG2COL + col_index(0, 0)
<1>5. row = base /\ height_col * width_col = n
  <2>1. col_index(0, 0) = c * n
    <3>1. (c * size.h + 0) * size.w + 0 = c * (size.h * size.w)
      BY <1>3
    <3> QED BY <1>2, <3>1 DEF col_index, n
  <2> QED BY <1>2, <2>1 DEF n
<1>6. size.IMG2COL + c * n + n <= size.OUTPUT
  <2> DEFINE kn == k * n
             cn == c * n
  <2>1. size.IMG2COL + kn <= size.OUTPUT /\ cn + n <= kn /\ cn \in Nat /\ kn \in Nat
    BY <1>1, <1>3, <1>4, Zones
  <2> HIDE DEF kn, cn
  <2>2. size.IMG2COL + cn + n <= size.OUTPUT
    BY <1>3, <2>1
  <2> QED BY <2>2 DEF cn
<1>7. DOMAIN DDR = 0 .. size.OUTPUT + m * n - 1
  BY DEF TilingInv, MemoryOK
<1>8. DDR' = [a \in DOMAIN DDR |->
             IF a \in base .. base + n - 1
             THEN get_pixel(((c \div Ksize) % Ksize) + ((a - base) \div size.w) * Stride,
                            (c % Ksize) + ((a - base) % size.w) * Stride,
                            (c \div Ksize) \div Ksize)
             ELSE DDR[a]]
  BY <1>2, <1>5, Zenon DEF Im2col, Zone
<1>9. ASSUME NEW y \in 0 .. n - 1
      PROVE  /\ base + y \in DOMAIN DDR
             /\ DDR'[base + y] = Word(c, y)
  <2>1. base \in Nat /\ base + n <= size.OUTPUT
    BY <1>3, <1>4, <1>6
  <2> HIDE DEF base
  <2> DEFINE mn == m * n
             a == base + y
             down == (c \div Ksize) % Ksize
             right == c % Ksize
             channel == (c \div Ksize) \div Ksize
             yr == y \div size.w
             yc == y % size.w
  <2>2. mn \in Nat
    BY <1>3
  <2>3. a \in DOMAIN DDR /\ a \in base .. base + n - 1 /\ a - base = y
    <3> HIDE DEF mn
    <3>1. a \in 0 .. size.OUTPUT + mn - 1 /\ a \in base .. base + n - 1 /\ a - base = y
      BY <1>3, <2>1, <2>2
    <3> QED BY <1>7, <3>1 DEF mn
  <2>4. DDR'[a] = get_pixel(down + yr * Stride, right + yc * Stride, channel)
    <3> HIDE DEF a
    <3> QED BY <1>8, <2>3
  <2>5. /\ down \in 0 .. Ksize - 1 /\ right \in 0 .. Ksize - 1
        /\ channel \in 0 .. size.c - 1
    BY <1>1, Taps
  <2>6. yr \in Int /\ yc \in Int
    <3> DEFINE w == size.w
    <3>1. y \in Nat /\ w \in Nat \ {0}
      BY <1>3
    <3> HIDE DEF w
    <3>2. y \div w \in Int /\ y % w \in Int
      BY <3>1, DivMod
    <3> QED BY <3>2 DEF w
  <2> HIDE DEF a, down, right, channel, yr, yc
  <2>7. down + yr * Stride \in Int /\ right + yc * Stride \in Int /\ Pad \in Int
        /\ (down + yr * Stride) - Pad = yr + down - Pad
        /\ (right + yc * Stride) - Pad = yc + right - Pad
    BY <1>1, <2>5, <2>6, Literals DEF SameSize
  <2>8. get_pixel(down + yr * Stride, right + yc * Stride, channel)
          = Pixel(yr + down - Pad, yc + right - Pad, channel)
    BY <2>5, <2>7, PixelIs
  <2>9. Word(c, y) = Pixel(yr + down - Pad, yc + right - Pad, channel)
    BY DEF Word, yr, yc, down, right, channel
  <2> QED BY <2>3, <2>4, <2>8, <2>9 DEF a
<1>10. DOMAIN DDR' = DOMAIN DDR
  BY <1>8
<1>11. ASSUME NEW a \in DOMAIN DDR, a \notin base .. base + n - 1 PROVE DDR'[a] = DDR[a]
  <2> HIDE DEF base
  <2> QED BY <1>8, <1>11
<1> QED BY <1>1, <1>4, <1>6, <1>9, <1>10, <1>11

LEMMA RowStep ==
    ASSUME TilingInv, Layout, Im2col
    PROVE  TilingInv'
<1>0. size \in Sizes
  BY DEF TilingInv, LoopOK
<1>1. /\ size \in Sizes /\ ZonesApart(size) /\ WholeTiles(size) /\ c \in 0 .. k - 1
      /\ i = 0 /\ j = 0 /\ loop = "im2col"
  BY <1>0, Counts DEF TilingInv, LoopOK, Layout, Im2col
<1>2. /\ size' = size /\ c' = c + 1 /\ i' = 0 /\ j' = 0
      /\ loop' = IF c + 1 = k THEN "gemm" ELSE "im2col"
  BY <1>1 DEF Im2col
<1>3. m \in Nat \ {0} /\ n \in Nat \ {0} /\ k \in Nat \ {0} /\ Tiles \in Nat \ {0}
  BY <1>1, Counts, Whole
<1>4. /\ m' = m /\ n' = n /\ k' = k /\ Tiles' = Tiles
      /\ \A q, y : Word(q, y)' = Word(q, y)
      /\ \A filter, row, col :
            Convolution(filter, row, col)' = Convolution(filter, row, col)
  BY <1>2, SizeStays
<1>5. LoopOK'
  BY <1>1, <1>2, <1>3, <1>4 DEF LoopOK
<1> DEFINE base == size.IMG2COL + c * n
           mk == m * k
           nc == n * size.c
           mn == m * n
<1>6. /\ DOMAIN DDR' = DOMAIN DDR
      /\ \A a \in DOMAIN DDR : a \notin base .. base + n - 1 => DDR'[a] = DDR[a]
      /\ \A y \in 0 .. n - 1 : base + y \in DOMAIN DDR /\ DDR'[base + y] = Word(c, y)
      /\ base + n <= size.OUTPUT /\ base \in Nat /\ base >= size.IMG2COL
  <2>1. c * n \in Nat /\ size.IMG2COL \in Nat
    BY <1>1, RowWritten, Literals
  <2>2. base \in Nat /\ base >= size.IMG2COL
    <3> DEFINE cn == c * n
    <3>1. cn \in Nat
      BY <2>1
    <3> HIDE DEF cn
    <3>2. size.IMG2COL + cn \in Nat /\ size.IMG2COL + cn >= size.IMG2COL
      BY <2>1, <3>1
    <3> QED BY <3>2 DEF cn
  <2> QED BY <2>2, RowWritten
<1>7. /\ mk \in Nat /\ nc \in Nat /\ mn \in Nat /\ mk <= size.IMAGE
      /\ size.IMAGE + nc <= size.IMG2COL
      /\ size.IMAGE \in Nat /\ size.IMG2COL \in Nat /\ size.OUTPUT \in Nat
  BY <1>1, Zones, Literals
<1>8. DOMAIN DDR = 0 .. size.OUTPUT + mn - 1 /\ \A a \in DOMAIN DDR : DDR[a] \in Int
  BY DEF TilingInv, MemoryOK
<1> HIDE DEF base, mk, nc, mn
<1>9. MemoryOK'
  <2>1. ASSUME NEW a \in DOMAIN DDR PROVE DDR'[a] \in Int
    <3>1. CASE a \notin base .. base + n - 1
      BY <1>6, <1>8, <3>1
    <3>2. CASE a \in base .. base + n - 1
      <4>1. a - base \in 0 .. n - 1 /\ a = base + (a - base)
        BY <1>3, <1>6, <3>2
      <4>2. DDR'[a] = Word(c, a - base)
        BY <1>6, <4>1
      <4> QED BY <1>1, <4>1, <4>2, WordInt
    <3> QED BY <3>1, <3>2
  <2>2. DDR' \in [0 .. size.OUTPUT + mn - 1 -> Int]
    <3>1. DDR' = [a \in DOMAIN DDR' |-> DDR'[a]]
      BY DEF Im2col
    <3> QED BY <1>6, <1>8, <2>1, <3>1
  <2> QED BY <1>2, <1>4, <2>2 DEF MemoryOK, mn
<1>10. FilesOK'
  <2>1. ASSUME NEW a \in 0 .. mk - 1 PROVE DDR'[a] = Weights(a)
    <3>1. a \in DOMAIN DDR /\ a \notin base .. base + n - 1
      BY <1>3, <1>6, <1>7, <1>8
    <3> QED BY <1>6, <3>1 DEF TilingInv, FilesOK, mk
  <2>2. ASSUME NEW a \in 0 .. nc - 1 PROVE DDR'[size.IMAGE + a] = Image(a)
    <3> DEFINE b == size.IMAGE + a
    <3>1. b \in DOMAIN DDR /\ b \notin base .. base + n - 1
      <4>1. b \in Nat /\ b < base /\ base + n <= size.OUTPUT
        BY <1>3, <1>6, <1>7
      <4> HIDE DEF b
      <4> QED BY <1>3, <1>6, <1>7, <1>8, <4>1
    <3>2. DDR[b] = Image(a)
      BY DEF TilingInv, FilesOK, nc
    <3> HIDE DEF b
    <3>3. DDR'[b] = Image(a)
      BY <1>6, <3>1, <3>2
    <3> QED BY <3>3 DEF b
  <2> QED BY <1>2, <1>4, <2>1, <2>2 DEF FilesOK, mk, nc
<1>11. MatrixOK'
  <2> SUFFICES ASSUME NEW q \in 0 .. c, NEW y \in 0 .. n - 1
               PROVE  DDR'[size.IMG2COL + q * n + y] = Word(q, y)
    BY <1>1, <1>2, <1>4 DEF MatrixOK
  <2>1. CASE q = c
    BY <1>6, <2>1 DEF base
  <2>2. CASE q # c
    <3>1. c \in Nat /\ q \in 0 .. c - 1
      BY <1>1, <2>2
    <3>2. q * n \in Nat /\ q * n + n <= c * n /\ c * n \in Nat
      BY <1>3, <3>1, Element
    <3> DEFINE qn == q * n
               cn == c * n
               a == size.IMG2COL + qn + y
    <3>3. qn \in Nat /\ qn + n <= cn /\ cn \in Nat /\ base = size.IMG2COL + cn
      BY <3>2 DEF base
    <3>4. DDR[a] = Word(q, y)
      BY <3>1 DEF TilingInv, MatrixOK
    <3> HIDE DEF qn, cn
    <3>5. a \in DOMAIN DDR /\ a \notin base .. base + n - 1
      <4>1. a \in Nat /\ a < base /\ base + n <= size.OUTPUT
        BY <1>3, <1>6, <1>7, <3>3
      <4> HIDE DEF a
      <4> QED BY <1>3, <1>6, <1>7, <1>8, <4>1
    <3> HIDE DEF a
    <3>6. DDR'[a] = Word(q, y)
      BY <1>6, <3>4, <3>5
    <3> QED BY <3>6 DEF a, qn
  <2> QED BY <2>1, <2>2
<1>12. OutputCorrect'
  <2> SUFFICES ASSUME NEW filter \in 0 .. m - 1, NEW y \in 0 .. n - 1
               PROVE  DDR'[size.OUTPUT + filter * n + y] =
                        Rounds(filter, y)' * Convolution(filter, y \div size.w, y % size.w)
    BY <1>2, <1>4 DEF OutputCorrect
  <2> DEFINE a == size.OUTPUT + filter * n + y
             C == Convolution(filter, y \div size.w, y % size.w)
  <2>1. Rounds(filter, y) = 0
    BY <1>1, RoundsIs DEF TilingInv
  <2>2. Rounds(filter, y)' = 0
    <3>1. (y \div size.Tile_n_size) \in 0 .. Tiles - 1
      BY <1>1, RoundsIs DEF TilingInv
    <3>2. /\ (LoopOK /\ WholeTiles(size) /\ filter \in 0 .. m - 1 /\ y \in 0 .. n - 1)'
      BY <1>1, <1>2, <1>4, <1>5
    <3> DEFINE tile == y \div size.Tile_n_size
    <3> HIDE DEF tile
    <3>3. tile \in 0 .. Tiles - 1 /\ Tiles \in Nat
      BY <1>3, <3>1 DEF tile
    <3>4. ~(tile >= Tiles) /\ ~(tile < 0) /\ ~(filter < 0)
      BY <1>3, <3>3
    <3> QED BY <1>1, <1>2, <3>4 DEF Rounds, tile, Tiles, n
  <2>3. DDR[a] = 0 * C
    BY <2>1 DEF TilingInv, OutputCorrect
  <2>4. a \in size.OUTPUT .. size.OUTPUT + mn - 1
    BY <1>1, OutputAddress DEF mn
  <2> HIDE DEF a, C
  <2>5. a \in DOMAIN DDR /\ a \notin base .. base + n - 1
    BY <1>3, <1>6, <1>7, <1>8, <2>4
  <2> QED BY <1>6, <2>2, <2>3, <2>5 DEF a, C
<1> QED BY <1>5, <1>9, <1>10, <1>11, <1>12 DEF TilingInv

\* A tile of outputs gets its convolutions, and nothing else changes.
LEMMA TileStored ==
    ASSUME TilingInv, Layout, loop \in {"gemm", "pe"}, AddToTile
    PROVE  /\ DDR' = [a \in DOMAIN DDR |-> DDR'[a]] /\ DOMAIN DDR' = DOMAIN DDR
           /\ \A a \in DOMAIN DDR : a < size.OUTPUT => DDR'[a] = DDR[a]
           /\ \A filter \in 0 .. m - 1, y \in 0 .. n - 1 :
                 DDR'[size.OUTPUT + filter * n + y] =
                    IF filter = i /\ y \div size.Tile_n_size = j
                    THEN DDR[size.OUTPUT + filter * n + y]
                           + Convolution(i, y \div size.w, y % size.w)
                    ELSE DDR[size.OUTPUT + filter * n + y]
<1> DEFINE T == size.Tile_n_size
           first == size.OUTPUT + i * n + j * T
           sum(x) == Total([p \in 0 .. Parts - 1 |-> TileProduct(p, x)], Parts)
           here == i * n
           jT == j * T
<1>1. size \in Sizes /\ WholeTiles(size) /\ i \in 0 .. m - 1 /\ j \in 0 .. Tiles - 1
  BY DEF TilingInv, LoopOK, Layout
<1>2. /\ T \in Nat \ {0} /\ n \in Nat \ {0} /\ m \in Nat /\ n = Tiles * T /\ Tiles \in Nat
      /\ Parts \in Nat /\ size.OUTPUT \in Nat /\ m * n \in Nat
  BY <1>1, Whole, Literals, Counts
<1>3. here \in Nat /\ jT \in Nat /\ jT + T <= n
  <2>1. here \in Nat
    BY <1>1, <1>2, Element
  <2> HIDE DEF T
  <2>2. jT \in Nat /\ jT + T <= Tiles * T
    BY <1>1, <1>2, Element
  <2> QED BY <1>2, <2>1, <2>2
<1>4. ASSUME NEW x \in 0 .. T - 1
      PROVE  sum(x) = Convolution(i, (jT + x) \div size.w, (jT + x) % size.w)
  <2> DEFINE L == [p \in 0 .. Parts - 1 |-> TileProduct(p, x)]
             R == [p \in 0 .. Parts - 1 |-> Total(PartTerms(p, x), size.Tile_k_size)]
  <2>1. \A p \in 0 .. Parts - 1 : L[p] = R[p]
    BY SoftwareTile, ArrayTile
  <2>2. Total(R, Parts) = Convolution(i, (jT + x) \div size.w, (jT + x) % size.w)
    BY <1>1, PartsAddUp
  <2> HIDE DEF L, R
  <2>3. Total(L, Parts) = Total(R, Parts)
    BY <1>2, <2>1, TotalSame
  <2> QED BY <2>2, <2>3 DEF L
<1>5. DDR' = [a \in DOMAIN DDR |->
                IF a \in first .. first + T - 1 THEN DDR[a] + sum(a - first) ELSE DDR[a]]
  BY Zenon DEF AddToTile, Zone, Parts
<1> HIDE DEF sum
<1>6. ASSUME NEW a \in DOMAIN DDR, a < size.OUTPUT PROVE DDR'[a] = DDR[a]
  <2>1. first >= size.OUTPUT /\ first \in Nat
    <3> HIDE DEF here, jT
    <3>1. first = size.OUTPUT + here + jT
      BY DEF here, jT
    <3> HIDE DEF first
    <3> QED BY <1>2, <1>3, <3>1
  <2>2. a \in Int
    BY <1>2 DEF TilingInv, MemoryOK
  <2> HIDE DEF first
  <2>3. a \notin first .. first + T - 1
    BY <1>6, <2>1, <2>2, <1>2
  <2> QED BY <1>5, <2>3
<1>7. ASSUME NEW filter \in 0 .. m - 1, NEW y \in 0 .. n - 1
      PROVE  DDR'[size.OUTPUT + filter * n + y] =
                IF filter = i /\ y \div T = j
                THEN DDR[size.OUTPUT + filter * n + y]
                       + Convolution(i, y \div size.w, y % size.w)
                ELSE DDR[size.OUTPUT + filter * n + y]
  <2> DEFINE a == size.OUTPUT + filter * n + y
             fn == filter * n
  <2>1. a \in DOMAIN DDR
    <3> DEFINE mn == m * n
    <3>1. a \in size.OUTPUT .. size.OUTPUT + mn - 1 /\ mn \in Nat
      BY <1>1, <1>2, OutputAddress
    <3>2. DOMAIN DDR = 0 .. size.OUTPUT + mn - 1
      BY DEF TilingInv, MemoryOK
    <3> HIDE DEF mn, a
    <3> QED BY <1>2, <3>1, <3>2
  <2>2. fn \in Nat /\ first = size.OUTPUT + here + jT /\ a = size.OUTPUT + fn + y
        /\ y \in Nat
    BY <1>2, Element
  <2>3. CASE filter = i /\ y \div T = j
    <3> DEFINE x == y % T
    <3>1. y = jT + x /\ x \in 0 .. T - 1
      <4> HIDE DEF T
      <4>1. y = (y \div T) * T + (y % T) /\ y % T \in 0 .. T - 1
        BY <1>2, <2>2, DivMod
      <4> QED BY <2>3, <4>1
    <3> HIDE DEF x, T
    <3>2. fn = here
      BY <2>3
    <3> HIDE DEF fn, here, jT
    <3>3. a \in first .. first + T - 1 /\ a - first = x
      <4>1. a = size.OUTPUT + here + y /\ first = size.OUTPUT + here + jT
        BY <2>2, <3>2
      <4> HIDE DEF a, first
      <4> QED BY <1>2, <1>3, <3>1, <4>1
    <3> HIDE DEF a, first
    <3>4. DDR'[a] = DDR[a] + sum(x)
      BY <1>5, <2>1, <3>3
    <3>5. sum(x) = Convolution(i, y \div size.w, y % size.w)
      BY <1>4, <3>1 DEF T
    <3> QED BY <2>3, <3>4, <3>5 DEF a, fn
  <2>4. CASE ~(filter = i /\ y \div T = j)
    <3>1. ASSUME a \in first .. first + T - 1 PROVE FALSE
      <4> DEFINE x == a - first
      <4>1. x \in 0 .. T - 1 /\ fn + y = here + (jT + x) /\ jT + x \in 0 .. n - 1
        <5> HIDE DEF fn, here, jT, T
        <5>1. a \in Int /\ first \in Int
          BY <1>2, <1>3, <2>2
        <5>2. x \in 0 .. T - 1
          <6> HIDE DEF a, first
          <6> QED BY <1>2, <3>1, <5>1
        <5>3. fn + y = here + (jT + x)
          <6>1. x = a - first /\ a = size.OUTPUT + fn + y /\ first = size.OUTPUT + here + jT
            BY <2>2
          <6> HIDE DEF a, first, x
          <6> QED BY <1>2, <1>3, <2>2, <6>1
        <5> HIDE DEF x
        <5> QED BY <1>2, <1>3, <5>2, <5>3
      <4> HIDE DEF x
      <4> DEFINE z == jT + x
      <4>2. fn + y = here + z /\ z \in 0 .. n - 1
        BY <4>1
      <4>3. z \div T = j
        <5> HIDE DEF T
        <5> QED BY <1>1, <1>2, <4>1, Element
      <4> HIDE DEF z
      <4> DEFINE N == n
      <4> HIDE DEF N
      <4>4. /\ m \in Nat /\ N \in Nat \ {0} /\ filter \in 0 .. m - 1 /\ i \in 0 .. m - 1
            /\ y \in 0 .. N - 1 /\ z \in 0 .. N - 1
        BY <1>1, <1>2, <4>2 DEF N
      <4>5. (filter * N + y) \div N = filter /\ (filter * N + y) % N = y
        BY ONLY <4>4, Element
      <4>6. (i * N + z) \div N = i /\ (i * N + z) % N = z
        BY ONLY <4>4, Element
      <4>7. filter = i /\ y = z
        BY <4>2, <4>5, <4>6 DEF N
      <4> QED BY <2>4, <4>3, <4>7
    <3> HIDE DEF a, first
    <3>2. DDR'[a] = DDR[a]
      BY <1>5, <2>1, <3>1
    <3> QED BY <2>4, <3>2 DEF a
  <2> QED BY <2>3, <2>4
<1>8. DDR' = [a \in DOMAIN DDR |-> DDR'[a]] /\ DOMAIN DDR' = DOMAIN DDR
  BY <1>5
<1> QED BY <1>6, <1>7, <1>8 DEF T

\* The loops count the tile as stored.
LEMMA TileCounted ==
    ASSUME TilingInv, Layout, GemmTile \/ PETile
    PROVE  /\ LoopOK'
           /\ \A filter \in 0 .. m - 1, y \in 0 .. n - 1 :
                 Rounds(filter, y)' =
                    Rounds(filter, y)
                      + (IF filter = i /\ y \div size.Tile_n_size = j THEN 1 ELSE 0)
<1>1. /\ size \in Sizes /\ WholeTiles(size) /\ LoopOK /\ loop \in {"gemm", "pe"}
      /\ c = k /\ i \in 0 .. m - 1 /\ j \in 0 .. Tiles - 1
  BY DEF TilingInv, LoopOK, Layout, GemmTile, PETile
<1>2. m \in Nat \ {0} /\ n \in Nat \ {0} /\ k \in Nat \ {0} /\ Tiles \in Nat \ {0}
  BY <1>1, Counts, Whole
<1>3. /\ size' = size /\ c' = c
      /\ j' = IF j + 1 < Tiles THEN j + 1 ELSE 0
      /\ i' = IF j' # 0 THEN i ELSE IF i + 1 < m THEN i + 1 ELSE 0
      /\ loop' = IF i' = 0 /\ j' = 0 THEN (IF loop = "gemm" THEN "pe" ELSE "done") ELSE loop
  BY DEF GemmTile, PETile, NextTile, Tiles
<1>4. m' = m /\ n' = n /\ k' = k /\ Tiles' = Tiles
  BY <1>3, SizeStays
<1>5. LoopOK'
  BY <1>1, <1>2, <1>3, <1>4 DEF LoopOK
<1>6. ASSUME NEW filter \in 0 .. m - 1, NEW y \in 0 .. n - 1
      PROVE  Rounds(filter, y)' =
                Rounds(filter, y)
                  + (IF filter = i /\ y \div size.Tile_n_size = j THEN 1 ELSE 0)
  <2> DEFINE tile == y \div size.Tile_n_size
  <2>1. /\ tile \in 0 .. Tiles - 1
        /\ Rounds(filter, y) =
             (IF loop = "pe" THEN 1 ELSE 0)
               + (IF filter < i \/ (filter = i /\ tile < j) THEN 1 ELSE 0)
    BY <1>1, RoundsIs
  <2> HIDE DEF tile
  <2>2. /\ Rounds(filter, y)' = IF loop' = "done" THEN 2 ELSE
             (IF loop' = "pe" THEN 1 ELSE 0)
               + (IF filter < i' \/ (filter = i' /\ tile < j') THEN 1 ELSE 0)
    <3>1. ~(tile >= Tiles)
      BY <1>2, <2>1
    <3>2. loop' \in {"gemm", "pe", "done"}
      BY <1>1, <1>3
    <3> QED BY <1>3, <1>4, <3>1, <3>2 DEF Rounds, tile, Tiles, n
  <2>3. CASE j + 1 < Tiles
    <3>1. j' = j + 1 /\ i' = i /\ loop' = loop
      BY <1>1, <1>2, <1>3, <2>3
    <3> QED BY <1>1, <1>2, <2>1, <2>2, <3>1 DEF tile
  <2>4. CASE ~(j + 1 < Tiles) /\ i + 1 < m
    <3>1. j' = 0 /\ i' = i + 1 /\ loop' = loop /\ j = Tiles - 1
      BY <1>1, <1>2, <1>3, <2>4
    <3> QED BY <1>1, <1>2, <2>1, <2>2, <3>1 DEF tile
  <2>5. CASE ~(j + 1 < Tiles) /\ ~(i + 1 < m)
    <3>1. /\ j' = 0 /\ i' = 0 /\ j = Tiles - 1 /\ i = m - 1
          /\ loop' = IF loop = "gemm" THEN "pe" ELSE "done"
      BY <1>1, <1>2, <1>3, <2>5
    <3> QED BY <1>1, <1>2, <2>1, <2>2, <3>1 DEF tile
  <2> QED BY <2>3, <2>4, <2>5
<1> QED BY <1>5, <1>6

LEMMA TileStep ==
    ASSUME TilingInv, Layout, GemmTile \/ PETile
    PROVE  TilingInv'
<1>1. /\ size \in Sizes /\ ZonesApart(size) /\ WholeTiles(size)
      /\ loop \in {"gemm", "pe"} /\ AddToTile /\ i \in 0 .. m - 1
      /\ size' = size /\ c' = c
  BY DEF TilingInv, LoopOK, Layout, GemmTile, PETile, NextTile
<1>2. /\ m' = m /\ n' = n /\ k' = k
      /\ \A q, y : Word(q, y)' = Word(q, y)
      /\ \A filter, row, col :
            Convolution(filter, row, col)' = Convolution(filter, row, col)
  BY <1>1, SizeStays
<1> DEFINE mk == m * k
           nc == n * size.c
           mn == m * n
           kn == k * n
<1>3. /\ mk \in Nat /\ nc \in Nat /\ mn \in Nat /\ kn \in Nat /\ mk <= size.IMAGE
      /\ size.IMAGE + nc <= size.IMG2COL /\ size.IMG2COL + kn <= size.OUTPUT
      /\ size.IMAGE \in Nat /\ size.IMG2COL \in Nat /\ size.OUTPUT \in Nat
      /\ m \in Nat \ {0} /\ n \in Nat \ {0} /\ k \in Nat \ {0}
  BY <1>1, Zones, Literals, Counts
<1>4. DOMAIN DDR = 0 .. size.OUTPUT + mn - 1 /\ \A a \in DOMAIN DDR : DDR[a] \in Int
  BY DEF TilingInv, MemoryOK
<1>5. /\ DDR' = [a \in DOMAIN DDR |-> DDR'[a]] /\ DOMAIN DDR' = DOMAIN DDR
      /\ \A a \in DOMAIN DDR : a < size.OUTPUT => DDR'[a] = DDR[a]
  BY <1>1, TileStored
<1>6. ASSUME NEW filter \in 0 .. m - 1, NEW y \in 0 .. n - 1
      PROVE  DDR'[size.OUTPUT + filter * n + y] =
                IF filter = i /\ y \div size.Tile_n_size = j
                THEN DDR[size.OUTPUT + filter * n + y]
                       + Convolution(i, y \div size.w, y % size.w)
                ELSE DDR[size.OUTPUT + filter * n + y]
  BY <1>1, TileStored
<1>7. LoopOK'
  BY TileCounted
<1> HIDE DEF mk, nc, mn, kn
<1>8. MemoryOK'
  <2>1. ASSUME NEW a \in DOMAIN DDR PROVE DDR'[a] \in Int
    <3>1. CASE a < size.OUTPUT
      BY <1>4, <1>5, <3>1
    <3>2. CASE a >= size.OUTPUT
      <4> DEFINE e == a - size.OUTPUT
                 filter == e \div n
                 y == e % n
      <4>1. e \in Nat /\ e < m * n /\ a = size.OUTPUT + e
        <5>1. size.OUTPUT \in Nat /\ mn \in Nat /\ a \in 0 .. size.OUTPUT + mn - 1
          BY ONLY <1>3, <1>4, a \in DOMAIN DDR
        <5>2. e \in Nat /\ e < mn /\ a = size.OUTPUT + e
          BY ONLY <3>2, <5>1
        <5> QED BY ONLY <5>2 DEF mn
      <4> HIDE DEF e
      <4>2. filter \in 0 .. m - 1 /\ y \in 0 .. n - 1 /\ e = filter * n + y
        BY <1>3, <4>1, Place
      <4> HIDE DEF filter, y
      <4>3. a = size.OUTPUT + filter * n + y
        <5> DEFINE fn == filter * n
        <5>1. fn \in Nat
          BY <1>3, <4>2, Element
        <5>2. a = size.OUTPUT + (fn + y)
          BY <4>1, <4>2
        <5> HIDE DEF fn
        <5>3. a = size.OUTPUT + fn + y
          BY <1>3, <4>2, <5>1, <5>2
        <5> QED BY <5>3 DEF fn
      <4>4. Convolution(filter, y \div size.w, y % size.w) \in Int
        BY <1>1, <4>2, ConvolutionInt
      <4>5. DDR[a] \in Int
        BY <1>4
      <4>6. CASE filter = i /\ y \div size.Tile_n_size = j
        <5>1. DDR'[a] = DDR[a] + Convolution(filter, y \div size.w, y % size.w)
          BY <1>6, <4>2, <4>3, <4>6
        <5> QED BY <4>4, <4>5, <5>1
      <4>7. CASE ~(filter = i /\ y \div size.Tile_n_size = j)
        <5>1. DDR'[a] = DDR[a]
          BY <1>6, <4>2, <4>3, <4>7
        <5> QED BY <4>5, <5>1
      <4> QED BY <4>6, <4>7
    <3> QED BY <1>3, <1>4, <3>1, <3>2
  <2>2. DDR' \in [0 .. size.OUTPUT + mn - 1 -> Int]
    BY <1>4, <1>5, <2>1
  <2> QED BY <1>1, <1>2, <2>2 DEF MemoryOK, mn
<1>9. FilesOK'
  <2>1. ASSUME NEW a \in 0 .. mk - 1 PROVE DDR'[a] = Weights(a)
    <3>1. a \in DOMAIN DDR /\ a < size.OUTPUT
      BY <1>3, <1>4
    <3> QED BY <1>5, <3>1 DEF TilingInv, FilesOK, mk
  <2>2. ASSUME NEW a \in 0 .. nc - 1 PROVE DDR'[size.IMAGE + a] = Image(a)
    <3> DEFINE b == size.IMAGE + a
    <3>1. b \in DOMAIN DDR /\ b < size.OUTPUT
      <4>1. b \in Nat /\ b < size.OUTPUT
        BY <1>3
      <4> HIDE DEF b
      <4> QED BY <1>3, <1>4, <4>1
    <3>2. DDR[b] = Image(a)
      BY DEF TilingInv, FilesOK, nc
    <3> HIDE DEF b
    <3>3. DDR'[b] = Image(a)
      BY <1>5, <3>1, <3>2
    <3> QED BY <3>3 DEF b
  <2> QED BY <1>1, <1>2, <2>1, <2>2 DEF FilesOK, mk, nc
<1>10. MatrixOK'
  <2> SUFFICES ASSUME NEW q \in 0 .. c - 1, NEW y \in 0 .. n - 1
               PROVE  DDR'[size.IMG2COL + q * n + y] = Word(q, y)
    BY <1>1, <1>2 DEF MatrixOK
  <2>1. c = k
    BY <1>1 DEF TilingInv, LoopOK
  <2>2. q * n \in Nat /\ q * n + n <= kn
    BY <1>3, <2>1, Element DEF kn
  <2> DEFINE qn == q * n
             a == size.IMG2COL + qn + y
  <2>3. DDR[a] = Word(q, y)
    BY DEF TilingInv, MatrixOK
  <2>4. qn \in Nat /\ qn + n <= kn
    BY <2>2
  <2> HIDE DEF qn
  <2>5. a \in DOMAIN DDR /\ a < size.OUTPUT
    <3>1. a \in Nat /\ a < size.OUTPUT
      BY <1>3, <2>4
    <3> HIDE DEF a
    <3> QED BY <1>3, <1>4, <3>1
  <2> HIDE DEF a
  <2>6. DDR'[a] = Word(q, y)
    BY <1>5, <2>3, <2>5
  <2> QED BY <2>6 DEF a, qn
<1>11. OutputCorrect'
  <2> SUFFICES ASSUME NEW filter \in 0 .. m - 1, NEW y \in 0 .. n - 1
               PROVE  DDR'[size.OUTPUT + filter * n + y] =
                        Rounds(filter, y)' * Convolution(filter, y \div size.w, y % size.w)
    BY <1>1, <1>2 DEF OutputCorrect
  <2> DEFINE a == size.OUTPUT + filter * n + y
             C == Convolution(filter, y \div size.w, y % size.w)
             R == Rounds(filter, y)
             now == filter = i /\ y \div size.Tile_n_size = j
  <2>1. DDR[a] = R * C
    BY DEF TilingInv, OutputCorrect
  <2>2. C \in Int
    BY <1>1, ConvolutionInt
  <2>3. R \in {0, 1, 2}
    BY <1>1, RoundsIs DEF TilingInv
  <2>4. R' = R + (IF now THEN 1 ELSE 0)
    BY TileCounted
  <2>5. CASE now
    <3>1. DDR'[a] = DDR[a] + C
      BY <1>6, <2>5
    <3> HIDE DEF a, C, R, now
    <3>2. R' = R + 1
      BY <2>4, <2>5
    <3>3. (R + 1) * C = R * C + C
      BY <2>2, <2>3
    <3>4. DDR'[a] = R' * C
      BY <2>1, <3>1, <3>2, <3>3
    <3> QED BY <3>4 DEF a, C, R
  <2>6. CASE ~now
    <3>1. DDR'[a] = DDR[a]
      BY <1>6, <2>6
    <3> HIDE DEF a, C, R, now
    <3>2. R' = R
      BY <2>3, <2>4, <2>6
    <3>3. DDR'[a] = R' * C
      BY <2>1, <3>1, <3>2
    <3> QED BY <3>3 DEF a, C, R
  <2> QED BY <2>5, <2>6
<1> QED BY <1>7, <1>8, <1>9, <1>10, <1>11 DEF TilingInv

\* For every image, number of filters and size of tiles: every output holds the
\* convolution as often as a loop of main has stored its tile, the accelerator's
\* from the diagonals of a block as the software's.
THEOREM Tiling_OutputCorrect ==
    ASSUME Layout PROVE TilingSpec => []OutputCorrect
<1>1. TilingInit => TilingInv
  BY InitTiling
<1>2. TilingInv /\ [TilingNext]_tilingVars => TilingInv'
  <2> SUFFICES ASSUME TilingInv, [TilingNext]_tilingVars PROVE TilingInv'
    OBVIOUS
  <2>1. CASE Im2col
    BY <2>1, RowStep
  <2>2. CASE GemmTile \/ PETile
    BY <2>2, TileStep
  <2>3. CASE UNCHANGED tilingVars
    <3>1. size' = size /\ DDR' = DDR /\ loop' = loop /\ c' = c /\ i' = i /\ j' = j
      BY <2>3 DEF tilingVars
    <3>2. /\ m' = m /\ n' = n /\ k' = k /\ Tiles' = Tiles
          /\ \A q, y : Word(q, y)' = Word(q, y)
          /\ \A filter, row, col :
                Convolution(filter, row, col)' = Convolution(filter, row, col)
      BY <3>1, SizeStays
    <3>3. \A filter, y : Rounds(filter, y)' = Rounds(filter, y)
      BY <3>1 DEF Rounds, n
    <3>4. LoopOK' /\ MemoryOK' /\ FilesOK'
      BY <3>1, <3>2 DEF TilingInv, LoopOK, MemoryOK, FilesOK
    <3>5. MatrixOK' /\ OutputCorrect'
      BY <3>1, <3>2, <3>3 DEF TilingInv, MatrixOK, OutputCorrect
    <3> QED BY <3>4, <3>5 DEF TilingInv
  <2> QED BY <2>1, <2>2, <2>3 DEF TilingNext
<1>3. TilingInv => OutputCorrect
  BY DEF TilingInv
<1> QED BY <1>1, <1>2, <1>3, PTL DEF TilingSpec
=============================================================================
