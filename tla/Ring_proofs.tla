----------------------------- MODULE Ring_proofs -----------------------------
(***************************************************************************)
(* Lemmas about the ring operators, for every buffer size: the mask is     *)
(* exactly the unread slots, a clock moves the occupancy by what it pushed *)
(* and popped, and the contents step as a queue; and the same of the       *)
(* one-reader buffer built from them.                                      *)
(***************************************************************************)
EXTENDS FIFO_Buffer_ACC, TLAPS

\* Pointer.v: a pointer stays a slot number.
LEMMA PointerInSlots ==
    ASSUME NEW p \in Slots, NEW en \in BOOLEAN
    PROVE  Pointer(p, en) \in Slots
BY BufferSizeAssumption DEF Pointer, Slots

\* Ready_16.v: on a ring in order, the mask holds the slots from the read
\* pointer up to the write pointer, going round when the wrap bit is set.
LEMMA ReadyMember ==
    ASSUME NEW W, NEW R, NEW round, RingOK(W, R, round), NEW s \in Slots
    PROVE  s \in Ready(W, R, round) <=>
              IF round THEN s >= R \/ s < W ELSE R <= s /\ s < W
<1> DEFINE occ == Occupancy(W, R, round)
           Tmp == {R + k : k \in Pattern(Distance(W, R, round))}
<1>1. /\ W \in Slots /\ R \in Slots /\ round \in BOOLEAN
      /\ occ \in 0 .. BufferSize
      /\ Distance(W, R, round) = occ
  BY BufferSizeAssumption DEF RingOK, Occupancy, Distance, Slots
<1>2. Pattern(occ) = {k \in Slots : k < occ}
  BY <1>1, BufferSizeAssumption DEF Pattern
<1>3. \A t \in Int : t \in Tmp <=> (t - R) \in Slots /\ t - R < occ
  <2>1. Tmp = {R + k : k \in {j \in Slots : j < occ}}
    BY <1>1, <1>2
  <2>2. ASSUME NEW t \in Tmp
        PROVE  (t - R) \in Slots /\ t - R < occ
    <3>1. PICK k \in {j \in Slots : j < occ} : t = R + k
      BY <2>1
    <3>2. t - R = k
      BY <3>1, <1>1, BufferSizeAssumption DEF Slots
    <3> QED BY <3>1, <3>2
  <2>3. ASSUME NEW t \in Int, (t - R) \in Slots, t - R < occ
        PROVE  t \in Tmp
    <3>1. t = R + (t - R)
      BY <1>1, BufferSizeAssumption DEF Slots
    <3> QED BY <2>1, <2>3, <3>1
  <2> QED BY <2>2, <2>3
<1>4. CASE round
  <2>1. occ = W + BufferSize - R
    BY <1>1, <1>4, BufferSizeAssumption DEF Occupancy, Slots
  <2>2. s \in Ready(W, R, round) <=>
           IF s >= R THEN s \in Tmp ELSE s + BufferSize \in Tmp
    BY <1>4 DEF Ready
  <2>3. /\ s \in Tmp <=> (s - R) \in Slots /\ s - R < occ
        /\ s + BufferSize \in Tmp <=>
              (s + BufferSize) - R \in Slots /\ (s + BufferSize) - R < occ
    <3>1. s \in Int
      BY BufferSizeAssumption DEF Slots
    <3>2. s + BufferSize \in Int
      BY <3>1, BufferSizeAssumption
    <3> HIDE DEF Tmp, occ
    <3>3. s \in Tmp <=> (s - R) \in Slots /\ s - R < occ
      BY <3>1, <1>3
    <3>4. s + BufferSize \in Tmp <=>
              (s + BufferSize) - R \in Slots /\ (s + BufferSize) - R < occ
      BY <3>2, <1>3
    <3> QED BY <3>3, <3>4
  <2>4. s \in Ready(W, R, round) <=> s >= R \/ s < W
    <3>1. /\ W \in Int /\ R \in Int /\ s \in Int
          /\ 0 <= W /\ 0 <= R /\ R < BufferSize /\ 0 <= s /\ s < BufferSize
          /\ W <= R /\ BufferSize \in Int
      BY <2>1, <1>1, BufferSizeAssumption DEF Slots
    <3>2. s >= R => (s \in Tmp <=> TRUE)
      BY <2>1, <2>3, <3>1 DEF Slots
    <3>3. ~(s >= R) => (s + BufferSize \in Tmp <=> s < W)
      BY <2>1, <2>3, <3>1 DEF Slots
    <3>4. s >= R \/ s < W <=> IF s >= R THEN TRUE ELSE s < W
      OBVIOUS
    <3> QED BY <2>2, <3>2, <3>3, <3>4
  <2> QED BY <2>4, <1>4
<1>5. CASE ~round
  <2>1. occ = W - R
    BY <1>1, <1>5, BufferSizeAssumption DEF Occupancy, Slots
  <2>2. s \in Ready(W, R, round) <=> s \in Tmp
    BY <1>5 DEF Ready
  <2> QED BY <2>1, <2>2, <1>1, <1>3, <1>5, BufferSizeAssumption DEF Slots
<1> QED BY <1>4, <1>5

\* The mask is empty, full, or offers the word under the read pointer exactly
\* when the occupancy says so; the slot under the write pointer is in the mask
\* of a full ring only.
LEMMA ReadyFlags ==
    ASSUME NEW W, NEW R, NEW round, RingOK(W, R, round)
    PROVE  /\ Ready(W, R, round) \subseteq Slots
           /\ Ready(W, R, round) = {} <=> Occupancy(W, R, round) = 0
           /\ Ready(W, R, round) = Slots <=> Occupancy(W, R, round) = BufferSize
           /\ R \in Ready(W, R, round) <=> Occupancy(W, R, round) > 0
           /\ W \in Ready(W, R, round) <=> Occupancy(W, R, round) = BufferSize
<1> DEFINE occ == Occupancy(W, R, round)
<1>1. /\ W \in Slots /\ R \in Slots /\ round \in BOOLEAN
      /\ occ \in 0 .. BufferSize
      /\ occ = IF round THEN W + BufferSize - R ELSE W - R
  BY BufferSizeAssumption DEF RingOK, Occupancy, Slots
<1>2. Ready(W, R, round) \subseteq Slots
  BY DEF Ready
<1>3. R \in Ready(W, R, round) <=> occ > 0
  BY <1>1, ReadyMember, BufferSizeAssumption DEF Slots
<1>4. W \in Ready(W, R, round) <=> occ = BufferSize
  BY <1>1, ReadyMember, BufferSizeAssumption DEF Slots
<1>5. ASSUME occ = 0 PROVE Ready(W, R, round) = {}
  <2>1. \A s \in Slots : s \notin Ready(W, R, round)
    BY <1>1, <1>5, ReadyMember, BufferSizeAssumption DEF Slots
  <2> QED BY <2>1, <1>2
<1>6. ASSUME occ = BufferSize PROVE Ready(W, R, round) = Slots
  <2>1. \A s \in Slots : s \in Ready(W, R, round)
    BY <1>1, <1>6, ReadyMember, BufferSizeAssumption DEF Slots
  <2> QED BY <2>1, <1>2
<1>7. Ready(W, R, round) = {} => occ = 0
  BY <1>1, <1>3 DEF Slots
<1>8. Ready(W, R, round) = Slots => occ = BufferSize
  BY <1>1, <1>4
<1> QED BY <1>2, <1>3, <1>4, <1>5, <1>6, <1>7, <1>8

\* Round.v and Pointer.v: a push below capacity and a pop of an unread word
\* keep the ring in order and move the occupancy by one each.
LEMMA RingStep ==
    ASSUME NEW W, NEW R, NEW round, RingOK(W, R, round),
           NEW push \in BOOLEAN, NEW pop \in BOOLEAN,
           push => Occupancy(W, R, round) < BufferSize,
           pop => Occupancy(W, R, round) > 0,
           NEW W2, W2 = Pointer(W, push),
           NEW R2, R2 = Pointer(R, pop),
           NEW round2, round2 = Round(round, push, pop, W, R)
    PROVE  /\ RingOK(W2, R2, round2)
           /\ Occupancy(W2, R2, round2) =
                Occupancy(W, R, round) + (IF push THEN 1 ELSE 0)
                                       - (IF pop THEN 1 ELSE 0)
<1>1. /\ W \in Slots /\ R \in Slots /\ round \in BOOLEAN
      /\ Occupancy(W, R, round) \in 0 .. BufferSize
  BY DEF RingOK
<1>2. W2 \in Slots /\ R2 \in Slots /\ round2 \in BOOLEAN
  BY <1>1, PointerInSlots DEF Round
<1>3. Occupancy(W2, R2, round2) =
                Occupancy(W, R, round) + (IF push THEN 1 ELSE 0)
                                       - (IF pop THEN 1 ELSE 0)
  BY <1>1, BufferSizeAssumption DEF Occupancy, Pointer, Round, Slots
<1>4. Occupancy(W2, R2, round2) \in 0 .. BufferSize
  BY <1>1, <1>3, BufferSizeAssumption
<1> QED BY <1>2, <1>3, <1>4 DEF RingOK

\* The contents of a ring in order are a sequence of words.
LEMMA ContentsSeq ==
    ASSUME NEW W, NEW R, NEW round, RingOK(W, R, round),
           NEW buf \in [Slots -> Data]
    PROVE  /\ Contents(buf, W, R, round) \in Seq(Data)
           /\ Len(Contents(buf, W, R, round)) = Occupancy(W, R, round)
<1>1. /\ R \in Slots
      /\ Occupancy(W, R, round) \in 0 .. BufferSize
  BY DEF RingOK
<1>2. \A k \in 1 .. Occupancy(W, R, round) : After(R, k - 1) \in Slots
  BY <1>1, BufferSizeAssumption DEF After, Slots
<1> QED BY <1>1, <1>2, BufferSizeAssumption DEF Contents

\* The contents step as a queue: the pop takes the head, the push appends.
LEMMA ContentsStep ==
    ASSUME NEW W, NEW R, NEW round, RingOK(W, R, round),
           NEW buf \in [Slots -> Data],
           NEW push \in BOOLEAN, NEW pop \in BOOLEAN, NEW d \in Data,
           push => Occupancy(W, R, round) < BufferSize,
           pop => Occupancy(W, R, round) > 0,
           NEW W2, W2 = Pointer(W, push),
           NEW R2, R2 = Pointer(R, pop),
           NEW round2, round2 = Round(round, push, pop, W, R),
           NEW buf2, buf2 = Write(buf, push, W, d)
    PROVE  Contents(buf2, W2, R2, round2) =
              QueueStep(Contents(buf, W, R, round), push, d, pop)
<1> DEFINE occ  == Occupancy(W, R, round)
           occ2 == Occupancy(W2, R2, round2)
           q    == Contents(buf, W, R, round)
           q2   == Contents(buf2, W2, R2, round2)
           rest == IF pop THEN Tail(q) ELSE q
<1>1. /\ W \in Slots /\ R \in Slots /\ round \in BOOLEAN
      /\ occ \in 0 .. BufferSize
      /\ occ = IF round THEN W + BufferSize - R ELSE W - R
  BY BufferSizeAssumption DEF RingOK, Occupancy, Slots
<1>2. /\ RingOK(W2, R2, round2)
      /\ occ2 = occ + (IF push THEN 1 ELSE 0) - (IF pop THEN 1 ELSE 0)
  BY RingStep
<1>3. buf2 \in [Slots -> Data]
  BY <1>1 DEF Write
<1>4. /\ q \in Seq(Data) /\ Len(q) = occ
      /\ q2 \in Seq(Data) /\ Len(q2) = occ2
  BY ContentsSeq, <1>2, <1>3
<1>5. /\ rest \in Seq(Data)
      /\ Len(rest) = occ - (IF pop THEN 1 ELSE 0)
      /\ \A k \in 1 .. Len(rest) :
            rest[k] = buf[After(R, IF pop THEN k ELSE k - 1)]
  <2>1. CASE pop
    <3>1. q # << >> /\ Tail(q) \in Seq(Data) /\ Len(Tail(q)) = occ - 1
      BY <1>1, <1>4, <2>1
    <3>2. \A k \in 1 .. occ - 1 : Tail(q)[k] = q[k + 1]
      BY <1>1, <1>4, <3>1
    <3>3. \A k \in 1 .. occ - 1 : q[k + 1] = buf[After(R, k)]
      BY <1>1 DEF Contents
    <3> QED BY <2>1, <3>1, <3>2, <3>3, <1>1
  <2>2. CASE ~pop
    <3>1. \A k \in 1 .. occ : q[k] = buf[After(R, k - 1)]
      BY <1>1 DEF Contents
    <3> QED BY <2>2, <3>1, <1>4, <1>1
  <2> QED BY <2>1, <2>2
<1>6. \A k \in 1 .. occ2 : q2[k] = buf2[After(R2, k - 1)]
  BY <1>2 DEF Contents
<1>7. \A k \in 1 .. Len(rest) :
         After(R2, k - 1) = After(R, IF pop THEN k ELSE k - 1)
  BY <1>1, <1>5, BufferSizeAssumption DEF After, Pointer, Slots
<1>8. CASE ~push
  <2>1. Len(rest) = occ2 /\ buf2 = buf
    BY <1>1, <1>2, <1>5, <1>8 DEF Write
  <2>2. \A k \in 1 .. occ2 : q2[k] = rest[k]
    BY <2>1, <1>5, <1>6, <1>7
  <2>3. q2 = rest
    BY <2>1, <2>2, <1>4, <1>5
  <2> QED BY <2>3, <1>8 DEF QueueStep
<1>9. CASE push
  <2>1. /\ Len(Append(rest, d)) = occ2
        /\ Append(rest, d) \in Seq(Data)
        /\ Len(rest) = occ2 - 1
        /\ Append(rest, d)[occ2] = d
        /\ \A k \in 1 .. occ2 - 1 : Append(rest, d)[k] = rest[k]
    BY <1>1, <1>2, <1>5, <1>9
  <2>2. \A k \in 1 .. occ2 - 1 : After(R2, k - 1) \in Slots \ {W}
    <3>1. occ < BufferSize /\ (pop => occ > 0)
      BY <1>9
    <3>2. occ2 - 1 = IF pop THEN occ - 1 ELSE occ
      BY <1>1, <1>2, <1>9
    <3>3. W = IF round THEN occ - BufferSize + R ELSE occ + R
      BY <1>1, BufferSizeAssumption DEF Slots
    <3> HIDE DEF occ, occ2
    <3>4. CASE pop
      BY <3>1, <3>2, <3>3, <3>4, <1>1, BufferSizeAssumption
         DEF After, Pointer, Slots
    <3>5. CASE ~pop
      BY <3>1, <3>2, <3>3, <3>5, <1>1, BufferSizeAssumption
         DEF After, Pointer, Slots
    <3> QED BY <3>4, <3>5
  <2>3. ASSUME NEW k \in 1 .. occ2 - 1
        PROVE  q2[k] = rest[k]
    <3>1. k \in 1 .. Len(rest) /\ k \in 1 .. occ2
      BY <2>1, <1>1, <1>2
    <3>2. q2[k] = buf2[After(R2, k - 1)]
      BY <3>1, <1>6
    <3>3. buf2[After(R2, k - 1)] = buf[After(R2, k - 1)]
      BY <2>2, <1>1, <1>9 DEF Write
    <3>4. After(R2, k - 1) = After(R, IF pop THEN k ELSE k - 1)
      BY <3>1, <1>7
    <3>5. rest[k] = buf[After(R, IF pop THEN k ELSE k - 1)]
      BY <3>1, <1>5
    <3> QED BY <3>2, <3>3, <3>4, <3>5
  <2>4. After(R2, occ2 - 1) = W
    <3>1. occ < BufferSize /\ (pop => occ > 0)
      BY <1>9
    <3>2. occ2 - 1 = IF pop THEN occ - 1 ELSE occ
      BY <1>1, <1>2, <1>9
    <3>3. W = IF round THEN occ - BufferSize + R ELSE occ + R
      BY <1>1, BufferSizeAssumption DEF Slots
    <3> HIDE DEF occ, occ2
    <3>4. CASE pop
      BY <3>1, <3>2, <3>3, <3>4, <1>1, BufferSizeAssumption
         DEF After, Pointer, Slots
    <3>5. CASE ~pop
      BY <3>1, <3>2, <3>3, <3>5, <1>1, BufferSizeAssumption
         DEF After, Pointer, Slots
    <3> QED BY <3>4, <3>5
  <2>5. occ2 \in 1 .. occ2 /\ buf2[W] = d
    BY <1>1, <1>2, <1>9 DEF Write
  <2>6. q2[occ2] = d
    BY <2>4, <2>5, <1>6
  <2>7. q2 = Append(rest, d)
    BY <2>1, <2>3, <2>6, <1>4, <1>1, <1>2
  <2> QED BY <2>7, <1>9 DEF QueueStep
<1> QED BY <1>8, <1>9

-----------------------------------------------------------------------------
(***************************************************************************)
(* The one-reader buffer, used for the accumulator and for the partial     *)
(* outputs of a PE: its registers stay in range, it counts what goes in    *)
(* and out, and it is a queue.                                             *)
(***************************************************************************)
\* A clock keeps the registers of a buffer in range.
LEMMA FifoType ==
    ASSUME NEW f \in Fifo, NEW push \in BOOLEAN, NEW pop \in BOOLEAN,
           NEW d \in Data
    PROVE  FifoClock(f, push, d, pop) \in Fifo
<1>1. /\ f.buf \in [Slots -> Data] /\ f.W \in Slots /\ f.R \in Slots
      /\ f.round \in BOOLEAN
  BY DEF Fifo
<1>2. Write(f.buf, push, f.W, d) \in [Slots -> Data]
  BY <1>1 DEF Write
<1>3. Pointer(f.W, push) \in Slots /\ Pointer(f.R, pop) \in Slots
  BY <1>1, PointerInSlots
<1>4. Round(f.round, push, pop, f.W, f.R) \in BOOLEAN
  BY <1>1 DEF Round
<1> QED BY <1>2, <1>3, <1>4 DEF FifoClock, Fifo

\* A cleared buffer is in range, in order and empty.
LEMMA FifoResetOK ==
    /\ FifoReset \in Fifo
    /\ FifoOK(FifoReset)
    /\ FifoCount(FifoReset) = 0
<1>1. 0 \in Slots /\ Cleared \in [Slots -> Data]
  BY BufferSizeAssumption, ZeroAssumption DEF Slots, Cleared
<1>2. FifoReset \in Fifo
  BY <1>1 DEF FifoReset, Fifo
<1>3. RingOK(0, 0, FALSE) /\ Occupancy(0, 0, FALSE) = 0
  BY <1>1, BufferSizeAssumption DEF RingOK, Occupancy
<1> QED BY <1>2, <1>3 DEF FifoReset, FifoOK, FifoCount

\* A clock that pushes below capacity and pops an unread word keeps a buffer
\* in order and counts both.
LEMMA FifoStep ==
    ASSUME NEW f \in Fifo, FifoOK(f), NEW push \in BOOLEAN, NEW pop \in BOOLEAN,
           NEW d \in Data,
           push => FifoCount(f) < BufferSize, pop => FifoCount(f) > 0
    PROVE  /\ FifoOK(FifoClock(f, push, d, pop))
           /\ FifoCount(FifoClock(f, push, d, pop)) =
                FifoCount(f) + (IF push THEN 1 ELSE 0) - (IF pop THEN 1 ELSE 0)
<1> DEFINE g == FifoClock(f, push, d, pop)
<1>1. /\ g.W = Pointer(f.W, push)
      /\ g.R = Pointer(f.R, pop)
      /\ g.round = Round(f.round, push, pop, f.W, f.R)
  BY DEF FifoClock
<1>2. /\ RingOK(f.W, f.R, f.round)
      /\ push => Occupancy(f.W, f.R, f.round) < BufferSize
      /\ pop => Occupancy(f.W, f.R, f.round) > 0
  BY DEF FifoOK, FifoCount
<1> HIDE DEF g
<1>3. /\ RingOK(g.W, g.R, g.round)
      /\ Occupancy(g.W, g.R, g.round) =
            Occupancy(f.W, f.R, f.round) + (IF push THEN 1 ELSE 0)
                                         - (IF pop THEN 1 ELSE 0)
  BY <1>1, <1>2, RingStep
<1> QED BY <1>3 DEF FifoOK, FifoCount, g

\* The flags of a buffer in order are exact.
LEMMA FifoFlags ==
    ASSUME NEW f, FifoOK(f)
    PROVE  /\ FifoCount(f) \in 0 .. BufferSize
           /\ FifoFull(f) <=> FifoCount(f) = BufferSize
           /\ FifoEmpty(f) <=> FifoCount(f) = 0
BY ReadyFlags DEF FifoOK, FifoCount, FifoFull, FifoEmpty, FifoReady, RingOK

\* Such a clock takes the head of the words held and appends the word pushed.
LEMMA FifoQueue ==
    ASSUME NEW f \in Fifo, FifoOK(f), NEW push \in BOOLEAN, NEW pop \in BOOLEAN,
           NEW d \in Data,
           push => FifoCount(f) < BufferSize, pop => FifoCount(f) > 0
    PROVE  /\ FifoWords(f) \in Seq(Data)
           /\ Len(FifoWords(f)) = FifoCount(f)
           /\ FifoWords(FifoClock(f, push, d, pop)) =
                QueueStep(FifoWords(f), push, d, pop)
<1> DEFINE g == FifoClock(f, push, d, pop)
<1>1. /\ g.buf = Write(f.buf, push, f.W, d)
      /\ g.W = Pointer(f.W, push)
      /\ g.R = Pointer(f.R, pop)
      /\ g.round = Round(f.round, push, pop, f.W, f.R)
  BY DEF FifoClock
<1>2. /\ RingOK(f.W, f.R, f.round)
      /\ f.buf \in [Slots -> Data]
      /\ push => Occupancy(f.W, f.R, f.round) < BufferSize
      /\ pop => Occupancy(f.W, f.R, f.round) > 0
  BY DEF FifoOK, FifoCount, Fifo
<1> HIDE DEF g
<1>3. Contents(g.buf, g.W, g.R, g.round) =
        QueueStep(Contents(f.buf, f.W, f.R, f.round), push, d, pop)
  BY <1>1, <1>2, ContentsStep
<1> QED BY <1>2, <1>3, ContentsSeq DEF FifoWords, FifoCount, g

\* A reader with an unread word sees the head of its queue at its pointer.
LEMMA HeadAtPointer ==
    ASSUME NEW buf \in [Slots -> Data], NEW W, NEW R, NEW round,
           RingOK(W, R, round), Occupancy(W, R, round) > 0
    PROVE  /\ Contents(buf, W, R, round) # << >>
           /\ Head(Contents(buf, W, R, round)) = buf[R]
<1> DEFINE q == Contents(buf, W, R, round)
<1>1. q \in Seq(Data) /\ Len(q) = Occupancy(W, R, round)
  BY ContentsSeq
<1>2. R \in Slots /\ Occupancy(W, R, round) \in Nat
  BY DEF RingOK
<1>3. After(R, 0) = R
  BY <1>2, BufferSizeAssumption DEF After, Slots
<1>4. q[1] = buf[R]
  BY <1>2, <1>3 DEF Contents
<1> QED BY <1>1, <1>2, <1>4

\* Fresh registers stand for empty queues.
LEMMA FreshQueues ==
    /\ Contents(Cleared, 0, 0, FALSE) = << >>
    /\ FifoWords(FifoReset) = << >>
<1> DEFINE q == Contents(Cleared, 0, 0, FALSE)
<1>1. Cleared \in [Slots -> Data] /\ RingOK(0, 0, FALSE)
  BY FifoResetOK DEF FifoReset, Fifo, FifoOK
<1>2. Occupancy(0, 0, FALSE) = 0
  BY DEF Occupancy
<1>3. q \in Seq(Data) /\ Len(q) = 0
  BY <1>1, <1>2, ContentsSeq
<1> HIDE DEF q
<1>4. q = << >>
  BY <1>3
<1> QED BY <1>4 DEF FifoWords, FifoReset, q
=============================================================================
