------------------------- MODULE Accelerator_proofs -------------------------
(***************************************************************************)
(* What the array and the program that drives it promise for every number  *)
(* of rows and columns, every size of buffers, pipelines and groups, every *)
(* tile and every arithmetic: a finished sum finds room, and a call that   *)
(* has read its columns in order leaves nothing behind.  If the sizes fit  *)
(* (Fits), also that no word is lost, that the columns are read in order,  *)
(* and that the sums are those of the convolution.                         *)
(*                                                                         *)
(* The program sends four streams, of weights, image words, outputs and    *)
(* reads; a sequence of instructions Carries them from some counts to      *)
(* others (Program, in ProgramWalks).  The invariant ArrayInv counts what  *)
(* each cell has multiplied (iss) and how many sums of each column are     *)
(* read (popped), and says of every buffer that it has had no more words   *)
(* than were handed on to it.  Words may be lost on the way, so these are  *)
(* inequalities; once every sum is read they can only be equations, and    *)
(* then no word is left.                                                   *)
(*                                                                         *)
(* The invariant CallInv knows the clock of everything.  Given the clocks  *)
(* at which the program executes its sends (a function sent, of which the  *)
(* past is fixed and the rest supposed to follow without a pause), the     *)
(* clock at which each cell multiplies its words of each block is a closed *)
(* function of them (Schedule).  The array is on time if each of its       *)
(* registers holds what the schedule has there at this clock (ArrayShows); *)
(* a pause of the program only moves what is still to be sent (Follows).   *)
(***************************************************************************)
EXTENDS Accelerator, FiniteSetTheorems, FunctionTheorems, SequenceTheorems,
        WellFoundedInduction, TLAPS

-----------------------------------------------------------------------------
(* Queues and wires *)

\* Words of any kind: nothing is assumed of the arithmetic.
IsQueue(q) == \E S : q \in Seq(S)
IsWire(w) == w = Nothing \/ \E word : w = <<word>>

\* A wire is a queue of at most one word.
LEMMA WireIs ==
    ASSUME NEW w, IsWire(w)
    PROVE  /\ IsQueue(w) /\ Len(w) \in {0, 1} /\ (Len(w) = 1 <=> w # Nothing)
           /\ w # Nothing => w = <<w[1]>>
<1>1. CASE w = Nothing
  <2>1. << >> \in Seq({}) /\ Len(<< >>) = 0
    BY EmptySeq
  <2> QED BY <1>1, <2>1 DEF Nothing, IsQueue
<1>2. CASE \E word : w = <<word>>
  <2>1. PICK word : w = <<word>>
    BY <1>2
  <2>2. <<word>> \in Seq({word}) /\ Len(<<word>>) = 1 /\ <<word>>[1] = word /\ <<word>> # << >>
    OBVIOUS
  <2> QED BY <2>1, <2>2 DEF Nothing, IsQueue
<1> QED BY <1>1, <1>2 DEF IsWire

\* The head of a queue of any words, if it has one.
LEMMA QueueIs ==
    ASSUME NEW q, IsQueue(q)
    PROVE  /\ Len(q) \in Nat /\ (Len(q) = 0 <=> q = << >>)
           /\ IsWire(Head1(q)) /\ (Head1(q) # Nothing <=> q # << >>)
           /\ q # << >> => Head1(q) = <<q[1]>> /\ Head(q) = q[1]
<1>1. PICK S : q \in Seq(S)
  BY DEF IsQueue
<1>2. Len(q) \in Nat /\ (Len(q) = 0 <=> q = << >>)
  BY <1>1, EmptySeq, LenProperties
<1>3. q # << >> => Head(q) = q[1]
  BY <1>1
<1> QED BY <1>2, <1>3 DEF Head1, IsWire, Nothing

\* A queue that is offered a wire and may lose its head.
LEMMA StepIs ==
    ASSUME NEW q, IsQueue(q), NEW offer, IsWire(offer), NEW pop \in BOOLEAN,
           pop => q # << >>
    PROVE  LET out == IF pop THEN 1 ELSE 0
               after == Step(q, offer, pop)
           IN  /\ IsQueue(after)
               /\ Len(after) = Len(q) - out + Len(offer)
               /\ \A k \in 1 .. Len(q) - out : after[k] = q[k + out]
               /\ offer # Nothing => after[Len(after)] = offer[1]
<1>1. PICK S : q \in Seq(S)
  BY DEF IsQueue
<1>2. PICK T : offer \in Seq(T)
  BY WireIs DEF IsQueue
<1> DEFINE U == S \cup T
           out == IF pop THEN 1 ELSE 0
           rest == IF pop THEN Tail(q) ELSE q
<1>3. q \in Seq(U) /\ offer \in Seq(U)
  BY <1>1, <1>2, SeqMonotonic
<1> HIDE DEF U
<1>4. /\ rest \in Seq(U) /\ Len(rest) = Len(q) - out /\ Len(rest) \in Nat /\ Len(q) \in Nat
      /\ \A k \in 1 .. Len(q) - out : rest[k] = q[k + out]
  <2>1. CASE pop
    BY <1>3, <2>1, HeadTailProperties, LenProperties
  <2>2. CASE ~pop
    BY <1>3, <2>2, LenProperties
  <2> QED BY <2>1, <2>2
<1> HIDE DEF rest, out
<1>5. /\ rest \o offer \in Seq(U) /\ Len(rest \o offer) = Len(rest) + Len(offer)
      /\ \A k \in 1 .. Len(rest) + Len(offer) :
            (rest \o offer)[k] = IF k <= Len(rest) THEN rest[k] ELSE offer[k - Len(rest)]
  BY <1>3, <1>4, ConcatProperties
<1>6. Step(q, offer, pop) = rest \o offer
  BY DEF Step, rest
<1>7. Len(offer) \in {0, 1} /\ (Len(offer) = 1 <=> offer # Nothing)
  BY WireIs
<1>8. \A k \in 1 .. Len(q) - out : (rest \o offer)[k] = q[k + out]
  BY <1>4, <1>5, <1>7
<1>9. offer # Nothing => (rest \o offer)[Len(rest \o offer)] = offer[1]
  BY <1>4, <1>5, <1>7
<1>10. IsQueue(rest \o offer)
  BY <1>5 DEF IsQueue
<1> QED BY <1>4, <1>5, <1>6, <1>8, <1>9, <1>10 DEF out

-----------------------------------------------------------------------------
(* Pipelines *)

IsPipe(pipe, stages) ==
    /\ pipe = [s \in 1 .. stages |-> pipe[s]]
    /\ \A s \in 1 .. stages : IsWire(pipe[s])

\* The stages that hold a word, and those among them that are ahead of one.
Full(pipe) == {s \in DOMAIN pipe : pipe[s] # Nothing}
Ahead(pipe, stage) == {s \in Full(pipe) : s > stage}
Held(pipe) == Cardinality(Full(pipe))

\* The last stage of a pipeline is the one that words leave.
LEMMA PipeLen ==
    ASSUME NEW stages \in Nat \ {0}, NEW pipe, IsPipe(pipe, stages)
    PROVE  DOMAIN pipe = 1 .. stages /\ Exit(pipe) = pipe[stages] /\ IsWire(Exit(pipe))
<1> DEFINE S == {pipe[s] : s \in 1 .. stages}
<1>1. pipe \in [1 .. stages -> S]
  BY DEF IsPipe
<1>2. pipe \in Seq(S)
  BY <1>1, SeqDef
<1>3. Len(pipe) \in Nat /\ DOMAIN pipe = 1 .. Len(pipe)
  BY <1>2, LenProperties
<1>4. DOMAIN pipe = 1 .. stages
  BY DEF IsPipe
<1>5. Len(pipe) = stages
  <2>1. stages \in 1 .. Len(pipe)
    BY <1>3, <1>4
  <2>2. Len(pipe) \in 1 .. stages
    BY <1>3, <1>4, <2>1
  <2> QED BY <2>1, <2>2
<1> QED BY <1>4, <1>5 DEF Exit, IsPipe

\* Every word moves on by one stage.
LEMMA ShiftedIs ==
    ASSUME NEW stages \in Nat \ {0}, NEW pipe, IsPipe(pipe, stages), NEW in, IsWire(in)
    PROVE  /\ IsPipe(Shifted(pipe, in), stages)
           /\ \A s \in 1 .. stages :
                 Shifted(pipe, in)[s] = IF s = 1 THEN in ELSE pipe[s - 1]
<1>1. DOMAIN pipe = 1 .. stages
  BY PipeLen
<1>2. Shifted(pipe, in) = [s \in 1 .. stages |-> IF s = 1 THEN in ELSE pipe[s - 1]]
  BY <1>1 DEF Shifted
<1> DEFINE after == Shifted(pipe, in)
<1>3. \A s \in 1 .. stages : after[s] = IF s = 1 THEN in ELSE pipe[s - 1]
  BY <1>2
<1>4. after = [s \in 1 .. stages |-> after[s]]
  BY <1>2
<1> HIDE DEF after
<1>5. \A s \in 1 .. stages : s # 1 => s - 1 \in 1 .. stages
  OBVIOUS
<1>6. \A s \in 1 .. stages : IsWire(after[s])
  BY <1>3, <1>5 DEF IsPipe
<1> QED BY <1>3, <1>4, <1>6 DEF IsPipe, after

\* A cleared pipeline holds nothing.
LEMMA PipeIs ==
    ASSUME NEW stages \in Nat \ {0}
    PROVE  IsPipe(Pipe(stages), stages) /\ Full(Pipe(stages)) = {}
BY DEF Pipe, IsPipe, IsWire, Full

\* Adding one to the numbers of a set keeps how many they are.
LEMMA Moved ==
    ASSUME NEW S \in SUBSET Int, IsFiniteSet(S)
    PROVE  /\ IsFiniteSet({s + 1 : s \in S})
           /\ Cardinality({s + 1 : s \in S}) = Cardinality(S)
<1> DEFINE T == {s + 1 : s \in S}
           f == [s \in S |-> s + 1]
<1>1. f \in [S -> T]
  OBVIOUS
<1>2. \A a, b \in S : f[a] = f[b] => a = b
  OBVIOUS
<1>3. \A t \in T : \E s \in S : f[s] = t
  OBVIOUS
<1>4. ExistsBijection(S, T)
  <2> HIDE DEF f, T
  <2>1. f \in Bijection(S, T)
    BY <1>1, <1>2, <1>3, Fun_IsBij
  <2> QED BY <2>1 DEF ExistsBijection
<1> HIDE DEF T
<1>5. IsFiniteSet(T) /\ Cardinality(T) = Cardinality(S)
  BY <1>4, FS_Bijection
<1> QED BY <1>5 DEF T

\* The stages that hold a word are finitely many.
LEMMA FullIs ==
    ASSUME NEW stages \in Nat \ {0}, NEW pipe, IsPipe(pipe, stages)
    PROVE  /\ Full(pipe) \in SUBSET (1 .. stages) /\ IsFiniteSet(Full(pipe))
           /\ Held(pipe) \in Nat
           /\ stages \in Full(pipe) <=> Exit(pipe) # Nothing
           /\ \A s : /\ IsFiniteSet(Ahead(pipe, s)) /\ Cardinality(Ahead(pipe, s)) \in Nat
                     /\ Ahead(pipe, s) \in SUBSET (1 .. stages)
           /\ Exit(pipe) # Nothing => Held(pipe) >= 1
<1>1. DOMAIN pipe = 1 .. stages /\ Exit(pipe) = pipe[stages]
  BY PipeLen
<1>2. Full(pipe) \in SUBSET (1 .. stages) /\ (stages \in Full(pipe) <=> Exit(pipe) # Nothing)
  BY <1>1 DEF Full
<1>3. IsFiniteSet(1 .. stages)
  BY FS_Interval
<1>4. IsFiniteSet(Full(pipe)) /\ Held(pipe) \in Nat
  BY <1>2, <1>3, FS_Subset, FS_CardinalityType DEF Held
<1>5. ASSUME NEW s
      PROVE  /\ IsFiniteSet(Ahead(pipe, s)) /\ Cardinality(Ahead(pipe, s)) \in Nat
             /\ Ahead(pipe, s) \in SUBSET (1 .. stages)
  <2>1. Ahead(pipe, s) \in SUBSET Full(pipe)
    BY DEF Ahead
  <2> QED BY <1>2, <1>4, <2>1, FS_Subset, FS_CardinalityType
<1>6. Exit(pipe) # Nothing => Held(pipe) # 0
  BY <1>2, <1>4, FS_EmptySet DEF Held
<1> QED BY <1>2, <1>4, <1>5, <1>6

\* A clock moves every word one stage on; the one at the exit leaves.
LEMMA PipeStep ==
    ASSUME NEW stages \in Nat \ {0}, NEW pipe, IsPipe(pipe, stages), NEW in, IsWire(in)
    PROVE  LET after == Shifted(pipe, in)
               out == IF Exit(pipe) # Nothing THEN 1 ELSE 0
           IN  /\ Held(after) = Held(pipe) - out + Len(in)
               /\ \A s \in 1 .. stages - 1 :
                     /\ after[s + 1] = pipe[s]
                     /\ s \in Full(pipe) =>
                           Cardinality(Ahead(after, s + 1)) = Cardinality(Ahead(pipe, s)) - out
               /\ in # Nothing => Cardinality(Ahead(after, 1)) = Held(pipe) - out
<1> DEFINE after == Shifted(pipe, in)
           out == IF Exit(pipe) # Nothing THEN 1 ELSE 0
           F == Full(pipe)
           G == Full(after)
           M(S) == {s + 1 : s \in S \ {stages}}
<1>1. /\ IsPipe(after, stages)
      /\ \A s \in 1 .. stages : after[s] = IF s = 1 THEN in ELSE pipe[s - 1]
  BY ShiftedIs
<1>2. DOMAIN pipe = 1 .. stages /\ DOMAIN after = 1 .. stages
  BY <1>1, PipeLen
<1> HIDE DEF after
<1>3. \A s \in 1 .. stages : /\ s \in F <=> pipe[s] # Nothing
                             /\ s \in G <=> after[s] # Nothing
  BY <1>2 DEF Full
<1>4. /\ F \in SUBSET (1 .. stages) /\ IsFiniteSet(F) /\ (stages \in F <=> out = 1)
      /\ G \in SUBSET (1 .. stages)
  BY <1>1, FullIs
<1>5. ASSUME NEW S \in SUBSET (1 .. stages)
      PROVE  /\ IsFiniteSet(S) /\ IsFiniteSet(M(S)) /\ Cardinality(S) \in Nat
             /\ Cardinality(M(S)) = Cardinality(S) - (IF stages \in S THEN 1 ELSE 0)
  <2>1. IsFiniteSet(S) /\ Cardinality(S) \in Nat
    <3>1. IsFiniteSet(1 .. stages)
      BY FS_Interval
    <3>2. IsFiniteSet(S)
      BY <3>1, FS_Subset
    <3> QED BY <3>2, FS_CardinalityType
  <2>2. /\ IsFiniteSet(S \ {stages})
        /\ Cardinality(S \ {stages}) = Cardinality(S) - (IF stages \in S THEN 1 ELSE 0)
    BY <2>1, FS_RemoveElement
  <2> DEFINE R == S \ {stages}
  <2>3. R \in SUBSET Int
    OBVIOUS
  <2> HIDE DEF R
  <2>4. /\ IsFiniteSet({s + 1 : s \in R})
        /\ Cardinality({s + 1 : s \in R}) = Cardinality(R)
    BY <2>2, <2>3, Moved DEF R
  <2>5. M(S) = {s + 1 : s \in R}
    BY DEF R
  <2> HIDE DEF M
  <2> QED BY <2>1, <2>2, <2>4, <2>5 DEF R
<1>6. \A s \in 1 .. stages : s # 1 => s - 1 \in 1 .. stages - 1 /\ (s - 1) + 1 = s
  OBVIOUS
<1>7. \A s \in 1 .. stages - 1 : /\ s \in 1 .. stages /\ s + 1 \in 1 .. stages /\ s + 1 # 1
                                 /\ (s + 1) - 1 = s /\ s # stages
  OBVIOUS
<1>8. \A s \in 1 .. stages - 1 : after[s + 1] = pipe[s]
  BY <1>1, <1>7
<1>9. G = M(F) \cup (IF in # Nothing THEN {1} ELSE {})
  <2>1. ASSUME NEW s \in G PROVE s \in M(F) \cup (IF in # Nothing THEN {1} ELSE {})
    <3>1. CASE s = 1
      BY <1>1, <1>3, <1>4, <3>1
    <3>2. CASE s # 1
      <4>1. s - 1 \in F /\ s - 1 # stages /\ (s - 1) + 1 = s
        BY <1>1, <1>3, <1>4, <1>6, <3>2
      <4> QED BY <4>1
    <3> QED BY <3>1, <3>2
  <2>2. ASSUME NEW s \in F, s # stages PROVE s + 1 \in G
    <3>1. s \in 1 .. stages - 1
      BY <1>4, <2>2
    <3> QED BY <1>3, <1>7, <1>8, <3>1
  <2>3. in # Nothing => 1 \in G
    <3>1. 1 \in 1 .. stages
      OBVIOUS
    <3> QED BY <1>1, <1>3, <3>1
  <2> QED BY <2>1, <2>2, <2>3
<1>10. 1 \notin M(F)
  BY <1>4
<1>11. Len(in) = IF in # Nothing THEN 1 ELSE 0
  BY WireIs
<1>12. Cardinality(G) = Cardinality(F) - out + Len(in)
  <2> HIDE DEF M, F, G
  <2>1. /\ IsFiniteSet(M(F)) /\ Cardinality(F) \in Nat
        /\ Cardinality(M(F)) = Cardinality(F) - out
    BY <1>4, <1>5
  <2>2. CASE in # Nothing
    <3>1. G = M(F) \cup {1}
      BY <1>9, <2>2
    <3>2. Cardinality(M(F) \cup {1}) = Cardinality(M(F)) + 1
      BY <2>1, <1>10, FS_AddElement
    <3> QED BY <2>1, <2>2, <3>1, <3>2, <1>11
  <2>3. CASE in = Nothing
    BY <1>9, <1>11, <2>1, <2>3
  <2> QED BY <2>2, <2>3
<1>13. ASSUME NEW s \in 1 .. stages - 1, s \in F
       PROVE  Cardinality(Ahead(after, s + 1)) = Cardinality(Ahead(pipe, s)) - out
  <2>1. Ahead(after, s + 1) = M(Ahead(pipe, s))
    <3>1. ASSUME NEW t \in Ahead(after, s + 1) PROVE t \in M(Ahead(pipe, s))
      <4>1. t \in G /\ t > s + 1
        BY DEF Ahead
      <4>2. t \in 1 .. stages /\ t # 1
        BY <1>4, <4>1
      <4>3. t - 1 \in F /\ t - 1 # stages /\ (t - 1) + 1 = t /\ t - 1 > s
        BY <1>1, <1>3, <1>4, <1>6, <4>1, <4>2
      <4> QED BY <4>3 DEF Ahead
    <3>2. ASSUME NEW t \in Ahead(pipe, s), t # stages PROVE t + 1 \in Ahead(after, s + 1)
      <4>1. t \in F /\ t > s /\ t \in 1 .. stages - 1
        BY <1>4, <3>2 DEF Ahead
      <4>2. t + 1 \in G /\ t + 1 > s + 1
        BY <1>3, <1>7, <1>8, <4>1
      <4> QED BY <4>2 DEF Ahead
    <3> QED BY <3>1, <3>2
  <2>2. Ahead(pipe, s) \in SUBSET (1 .. stages)
    BY FullIs
  <2>3. stages \in Ahead(pipe, s) <=> out = 1
    BY <1>4 DEF Ahead
  <2> HIDE DEF M
  <2> QED BY <1>5, <2>1, <2>2, <2>3
<1>14. in # Nothing => Cardinality(Ahead(after, 1)) = Cardinality(F) - out
  <2> SUFFICES ASSUME in # Nothing PROVE Cardinality(Ahead(after, 1)) = Cardinality(F) - out
    OBVIOUS
  <2>1. Ahead(after, 1) = M(F)
    <3>1. ASSUME NEW t \in Ahead(after, 1) PROVE t \in M(F)
      BY <1>9 DEF Ahead
    <3>2. ASSUME NEW t \in M(F) PROVE t \in Ahead(after, 1)
      BY <1>4, <1>9 DEF Ahead
    <3> QED BY <3>1, <3>2
  <2> HIDE DEF M, F
  <2> QED BY <1>4, <1>5, <2>1
<1> QED BY <1>8, <1>12, <1>13, <1>14 DEF Held, after

-----------------------------------------------------------------------------
(* Numbers *)

\* Two multiples of d that are less than d apart are the same.
LEMMA Multiples ==
    ASSUME NEW d \in Nat \ {0}, NEW x \in Int, NEW y \in Int,
           d * x - d * y \in (1 - d) .. (d - 1)
    PROVE  x = y
<1>1. ASSUME NEW a \in Int, NEW b \in Int, a > b PROVE d * a - d * b >= d
  <2>1. PICK t \in Nat : a = b + 1 + t
    <3>1. a - b - 1 \in Nat /\ a = b + 1 + (a - b - 1)
      BY <1>1
    <3> QED BY <3>1
  <2>2. d * a = d * b + d + d * t
    BY <2>1
  <2>3. d * t \in Nat /\ d * b \in Int
    BY <2>1
  <2> QED BY <2>2, <2>3
<1>2. d * x \in Int /\ d * y \in Int
  OBVIOUS
<1>3. ~(x > y)
  BY <1>1, <1>2
<1>4. ~(y > x)
  BY <1>1, <1>2
<1> QED BY <1>3, <1>4

\* Quotient and remainder.
LEMMA DivMod ==
    ASSUME NEW a \in Nat, NEW d \in Nat \ {0}
    PROVE  /\ a \div d \in Nat /\ a % d \in 0 .. d - 1
           /\ a = (a \div d) * d + (a % d)
OBVIOUS

\* Quotient and remainder are unique.
LEMMA QuotientIs ==
    ASSUME NEW a \in Nat, NEW d \in Nat \ {0}, NEW q \in Int, NEW r \in 0 .. d - 1,
           a = d * q + r
    PROVE  a \div d = q /\ a % d = r
<1> DEFINE p == a \div d
           t == a % d
<1>1. p \in Int /\ t \in 0 .. d - 1 /\ a = p * d + t
  BY ONLY a \in Nat, d \in Nat \ {0}, DivMod
<1> HIDE DEF p, t
<1>2. d * p \in Int /\ d * q \in Int /\ p * d = d * p
  BY <1>1
<1>3. d * p - d * q = r - t
  BY <1>1, <1>2
<1>4. d * p - d * q \in (1 - d) .. (d - 1)
  BY <1>1, <1>3
<1>5. p = q
  BY <1>1, <1>4, Multiples
<1> QED BY <1>1, <1>2, <1>5 DEF p, t

\* Element x of row q, in an array of rows of d elements.
LEMMA Element ==
    ASSUME NEW d \in Nat \ {0}, NEW q \in Nat, NEW x \in 0 .. d - 1
    PROVE  d * q + x \in Nat /\ (d * q + x) \div d = q /\ (d * q + x) % d = x
<1>1. d * q \in Nat
  OBVIOUS
<1>2. d * q + x \in Nat
  BY <1>1
<1> QED BY <1>2, QuotientIs

-----------------------------------------------------------------------------
(* Induction, over the set of the numbers for which a fact holds. *)

\* A set that has 0, and with each number the next one, has all of them.
LEMMA Induction ==
    ASSUME NEW S, 0 \in S, \A q \in S : q \in Nat => q + 1 \in S
    PROVE  Nat \subseteq S
<1> DEFINE Less == {p \in Nat \X Nat : p[1] < p[2]}
           Others == Nat \ S
<1> SUFFICES ASSUME Others # {} PROVE FALSE
  OBVIOUS
<1>1. OpToRel(<, Nat) = Less
  BY DEF OpToRel
<1>2. IsWellFoundedOn(Less, Nat)
  BY <1>1, NatLessThanWellFounded
<1>3. PICK x \in Others : \A y \in Others : ~(<<y, x>> \in Less)
  <2> HIDE DEF Less
  <2> QED BY <1>2, WFMin
<1>4. x \in Nat /\ x # 0 /\ x - 1 \in Nat /\ x \notin S /\ (x - 1) + 1 = x
  BY <1>3
<1>5. ~(x - 1 \in Others)
  <2>1. ASSUME x - 1 \in Others PROVE <<x - 1, x>> \in Less
    BY <1>4
  <2> HIDE DEF Less
  <2> QED BY <1>3, <2>1
<1>6. x - 1 \in S
  BY <1>4, <1>5
<1> HIDE DEF Others
<1> QED BY <1>4, <1>6

-----------------------------------------------------------------------------
(***************************************************************************)
(* The program as four streams.  The number of instructions of each kind   *)
(* so far tells what the next one of that kind sends or reads.             *)
(***************************************************************************)
Kinds == 1 .. 4
AllGroups == IF Edge = 0 THEN Groups ELSE Groups + 1
Width(j) == IF j < Groups THEN Cols ELSE Edge

WeightAt(q) == ((q \div Rows) % NOPCount) * Rows + (q % Rows)

ImageAt(q) ==
    LET b == q \div Images
        j == b \div NOPCount
        at(g, p) == g * Images * NOPCount + p * Images + (q % Images)
    IN  IF q % Images < Width(j) + Rows - 1 THEN at(j, b % NOPCount)
                                            ELSE at(j - 1, NOPCount - 1)

OutputAt(q) ==
    LET b == q \div Cols
        j == b \div NOPCount
    IN  IF b % NOPCount = 0 /\ q % Cols < Width(j) THEN j * Cols + (q % Cols) ELSE Zeros

SumAt(q) == IF q < N THEN q ELSE Zeros

Instr(kind, q) ==
    [n |-> kind,
     at |-> CASE kind = 1 -> WeightAt(q) [] kind = 2 -> ImageAt(q)
              [] kind = 3 -> OutputAt(q) [] kind = 4 -> SumAt(q)]

Least(k, size) == IF k <= size THEN k ELSE size

Per(kind) == IF kind = 1 THEN Rows ELSE IF kind = 2 THEN Images ELSE Cols

\* A block is BlockLen sends; word k of a kind is this far behind its beginning.
BlockLen == Rows + Images + Cols
Offset(kind, k) ==
    IF kind = 1 THEN k + Least(k, Rows) + Least(k, Cols)
    ELSE IF kind = 2 THEN k + Least(k + 1, Rows) + Least(k, Cols)
    ELSE (k + 1) + Least(k + 1, Rows) + Least(k, Cols)

\* How many words are sent before word k of a kind in block b.
Place(kind, b, k) == BlockLen * b + Offset(kind, k)

\* The next word of a kind has its place in the block, and the sums read before
\* it are those of earlier groups.
InOrder(kind, counts) ==
    kind # 4 =>
        LET b == counts[kind] \div Per(kind)
        IN  /\ counts[1] + counts[2] + counts[3] = Place(kind, b, counts[kind] % Per(kind))
            /\ counts[4] <= Cols * (b \div NOPCount)

\* w counts the instructions of each kind along the sequence p.
Walk(p, w, from, to) ==
    /\ w \in [0 .. Len(p) -> [Kinds -> Nat]]
    /\ w[0] = from /\ w[Len(p)] = to
    /\ \A x \in 1 .. Len(p) : \E kind \in Kinds :
          /\ p[x] = Instr(kind, w[x - 1][kind]) /\ InOrder(kind, w[x - 1])
          /\ w[x] = [w[x - 1] EXCEPT ![kind] = @ + 1]
    /\ \A x \in 0 .. Len(p), kind \in Kinds :
          from[kind] <= w[x][kind] /\ w[x][kind] <= to[kind]

Carries(p, from, to) == IsQueue(p) /\ \E w : Walk(p, w, from, to)

\* The counts at the two ends of a sequence.
LEMMA CarriesEnds ==
    ASSUME NEW p, NEW from, NEW to, Carries(p, from, to)
    PROVE  /\ from \in [Kinds -> Nat] /\ to \in [Kinds -> Nat]
           /\ \A kind \in Kinds : from[kind] <= to[kind]
<1>1. PICK w : Walk(p, w, from, to)
  BY DEF Carries
<1>2. Len(p) \in Nat
  BY QueueIs DEF Carries
<1>3. 0 \in 0 .. Len(p) /\ Len(p) \in 0 .. Len(p)
  BY <1>2
<1> QED BY <1>1, <1>3 DEF Walk

\* The empty sequence counts nothing.
LEMMA CarriesNone ==
    ASSUME NEW from \in [Kinds -> Nat]
    PROVE  Carries(<< >>, from, from)
<1> DEFINE w == [x \in 0 .. 0 |-> from]
<1>1. IsQueue(<< >>) /\ Len(<< >>) = 0
  BY EmptySeq DEF IsQueue
<1>2. Walk(<< >>, w, from, from)
  BY <1>1 DEF Walk, Kinds
<1> QED BY <1>1, <1>2 DEF Carries

\* One instruction counts as one of its kind.
LEMMA CarriesOne ==
    ASSUME NEW from \in [Kinds -> Nat], NEW kind \in Kinds, InOrder(kind, from)
    PROVE  Carries(<<Instr(kind, from[kind])>>, from, [from EXCEPT ![kind] = @ + 1])
<1> DEFINE to == [from EXCEPT ![kind] = @ + 1]
           one == Instr(kind, from[kind])
           p == <<one>>
           w == [x \in 0 .. 1 |-> IF x = 0 THEN from ELSE to]
<1>1. to \in [Kinds -> Nat] /\ \A other \in Kinds : from[other] <= to[other]
  BY DEF Kinds
<1> HIDE DEF one
<1>2. IsQueue(p) /\ Len(p) = 1 /\ p[1] = one
  <2>1. IsWire(p)
    BY DEF IsWire
  <2> QED BY <2>1, WireIs
<1> HIDE DEF p
<1>3. w \in [0 .. 1 -> [Kinds -> Nat]] /\ w[0] = from /\ w[1] = to
  BY <1>1
<1>4. ASSUME NEW x \in 1 .. Len(p)
      PROVE  /\ p[x] = Instr(kind, w[x - 1][kind]) /\ InOrder(kind, w[x - 1])
             /\ w[x] = [w[x - 1] EXCEPT ![kind] = @ + 1]
  <2>1. x = 1 /\ x - 1 = 0
    BY <1>2
  <2> HIDE DEF w, to
  <2>2. w[x - 1] = from /\ w[x] = to /\ p[x] = one
    BY <1>2, <1>3, <2>1
  <2>3. p[x] = Instr(kind, w[x - 1][kind])
    BY <2>2 DEF one
  <2>4. w[x] = [w[x - 1] EXCEPT ![kind] = @ + 1]
    BY <2>2 DEF to
  <2>5. InOrder(kind, w[x - 1])
    BY <2>2
  <2> QED BY <2>3, <2>4, <2>5
<1> HIDE DEF w
<1>5. ASSUME NEW x \in 0 .. Len(p), NEW other \in Kinds
      PROVE  from[other] <= w[x][other] /\ w[x][other] <= to[other]
  <2>1. from[other] \in Nat /\ to[other] \in Nat
    BY <1>1
  <2>2. w[x] = from \/ w[x] = to
    <3>1. x = 0 \/ x = 1
      BY <1>2
    <3> HIDE DEF to
    <3> QED BY <1>3, <3>1
  <2> HIDE DEF to
  <2> QED BY <1>1, <2>1, <2>2
<1> HIDE DEF to
<1>6. Walk(p, w, from, to)
  BY <1>2, <1>3, <1>4, <1>5 DEF Walk
<1> QED BY <1>2, <1>6 DEF Carries, p, one, to

\* Two walks, one after the other: the first stays below the middle, the second
\* above it.
LEMMA Joined ==
    ASSUME NEW p, NEW q, NEW from, NEW middle, NEW to,
           Carries(p, from, middle), Carries(q, middle, to)
    PROVE  /\ IsQueue(p \o q)
           /\ \E w : /\ Walk(p \o q, w, from, to)
                     /\ \A x \in 0 .. Len(p \o q) :
                           \/ \A kind \in Kinds : w[x][kind] <= middle[kind]
                           \/ \A kind \in Kinds : w[x][kind] >= middle[kind]
<1>1. PICK u : Walk(p, u, from, middle)
  BY DEF Carries
<1>2. PICK v : Walk(q, v, middle, to)
  BY DEF Carries
<1> DEFINE a == Len(p)
           b == Len(q)
           r == p \o q
           w == [x \in 0 .. a + b |-> IF x <= a THEN u[x] ELSE v[x - a]]
<1>3. /\ a \in Nat /\ b \in Nat /\ IsQueue(r) /\ Len(r) = a + b
      /\ \A x \in 1 .. a + b : r[x] = IF x <= a THEN p[x] ELSE q[x - a]
  <2>1. PICK S : p \in Seq(S)
    BY DEF Carries, IsQueue
  <2>2. PICK T : q \in Seq(T)
    BY DEF Carries, IsQueue
  <2> DEFINE U == S \cup T
  <2>3. p \in Seq(U) /\ q \in Seq(U)
    BY <2>1, <2>2, SeqMonotonic
  <2> HIDE DEF U
  <2>4. r \in Seq(U)
    BY <2>3, ConcatProperties
  <2> QED BY <2>3, <2>4, ConcatProperties, LenProperties DEF IsQueue
<1> HIDE DEF r
<1>4. /\ u \in [0 .. a -> [Kinds -> Nat]] /\ u[0] = from /\ u[a] = middle
      /\ v \in [0 .. b -> [Kinds -> Nat]] /\ v[0] = middle /\ v[b] = to
  BY <1>1, <1>2 DEF Walk
<1>5. /\ from \in [Kinds -> Nat] /\ middle \in [Kinds -> Nat] /\ to \in [Kinds -> Nat]
      /\ \A kind \in Kinds : from[kind] <= middle[kind] /\ middle[kind] <= to[kind]
  BY CarriesEnds
<1>6. /\ \A x \in 0 .. a, kind \in Kinds :
            from[kind] <= u[x][kind] /\ u[x][kind] <= middle[kind]
      /\ \A x \in 0 .. b, kind \in Kinds :
            middle[kind] <= v[x][kind] /\ v[x][kind] <= to[kind]
  BY <1>1, <1>2 DEF Walk
<1>7. \A x \in 0 .. a + b : \/ x \in 0 .. a /\ w[x] = u[x]
                            \/ x > a /\ x - a \in 0 .. b /\ w[x] = v[x - a]
  BY <1>3
<1>8. w \in [0 .. a + b -> [Kinds -> Nat]] /\ w[0] = from /\ w[a + b] = to
  <2>1. \A x \in 0 .. a + b : w[x] \in [Kinds -> Nat]
    BY <1>4, <1>7
  <2>2. w \in [0 .. a + b -> [Kinds -> Nat]]
    BY <2>1
  <2>3. w[0] = from
    BY <1>3, <1>4
  <2>4. w[a + b] = to
    <3>1. CASE b = 0
      BY <1>3, <1>4, <3>1
    <3>2. CASE b # 0
      <4>1. a + b \in 0 .. a + b /\ ~(a + b <= a) /\ (a + b) - a = b
        BY <1>3, <3>2
      <4> QED BY <4>1, <1>4
    <3> QED BY <3>1, <3>2
  <2> QED BY <2>2, <2>3, <2>4
<1>9. ASSUME NEW x \in 1 .. a + b
      PROVE  \E kind \in Kinds : /\ r[x] = Instr(kind, w[x - 1][kind]) /\ InOrder(kind, w[x - 1])
                                 /\ w[x] = [w[x - 1] EXCEPT ![kind] = @ + 1]
  <2>1. CASE x <= a
    <3>1. x \in 1 .. a /\ x \in 0 .. a + b /\ x - 1 \in 0 .. a + b /\ x - 1 <= a
      BY <1>3, <2>1
    <3>2. PICK kind \in Kinds : /\ p[x] = Instr(kind, u[x - 1][kind]) /\ InOrder(kind, u[x - 1])
                                /\ u[x] = [u[x - 1] EXCEPT ![kind] = @ + 1]
      BY <1>1, <3>1 DEF Walk
    <3>3. w[x] = u[x] /\ w[x - 1] = u[x - 1] /\ r[x] = p[x]
      BY <1>3, <2>1, <3>1
    <3> HIDE DEF w
    <3> QED BY <3>2, <3>3
  <2>2. CASE ~(x <= a)
    <3> DEFINE y == x - a
    <3>1. /\ y \in 1 .. b /\ x \in 0 .. a + b /\ x - 1 \in 0 .. a + b
          /\ (x - 1) - a = y - 1
          /\ x - 1 <= a => x - 1 = a /\ y - 1 = 0
      BY <1>3, <2>2
    <3>2. PICK kind \in Kinds : /\ q[y] = Instr(kind, v[y - 1][kind]) /\ InOrder(kind, v[y - 1])
                                /\ v[y] = [v[y - 1] EXCEPT ![kind] = @ + 1]
      BY <1>2, <3>1 DEF Walk
    <3>3. w[x] = v[y] /\ w[x - 1] = v[y - 1] /\ r[x] = q[y]
      BY <1>3, <1>4, <2>2, <3>1
    <3> HIDE DEF w, y
    <3> QED BY <3>2, <3>3
  <2> QED BY <2>1, <2>2
<1>10. ASSUME NEW x \in 0 .. a + b
       PROVE  /\ \A kind \in Kinds : from[kind] <= w[x][kind] /\ w[x][kind] <= to[kind]
              /\ \/ \A kind \in Kinds : w[x][kind] <= middle[kind]
                 \/ \A kind \in Kinds : w[x][kind] >= middle[kind]
  <2>1. CASE x \in 0 .. a /\ w[x] = u[x]
    <3> HIDE DEF w
    <3>1. ASSUME NEW kind \in Kinds
          PROVE  /\ from[kind] <= w[x][kind] /\ w[x][kind] <= middle[kind]
                 /\ w[x][kind] <= to[kind]
      <4>1. from[kind] <= u[x][kind] /\ u[x][kind] <= middle[kind] /\ middle[kind] <= to[kind]
        BY <1>5, <1>6, <2>1
      <4>2. u[x][kind] \in Nat /\ middle[kind] \in Nat /\ to[kind] \in Nat
        BY <1>4, <1>5, <2>1
      <4> QED BY <2>1, <4>1, <4>2
    <3> QED BY <3>1
  <2>2. CASE x - a \in 0 .. b /\ w[x] = v[x - a]
    <3> DEFINE y == x - a
    <3> HIDE DEF w, y
    <3>1. ASSUME NEW kind \in Kinds
          PROVE  /\ from[kind] <= w[x][kind] /\ w[x][kind] >= middle[kind]
                 /\ w[x][kind] <= to[kind]
      <4>1. /\ from[kind] <= middle[kind] /\ middle[kind] <= v[y][kind]
            /\ v[y][kind] <= to[kind]
        BY <1>5, <1>6, <2>2 DEF y
      <4>2. v[y][kind] \in Nat /\ middle[kind] \in Nat /\ from[kind] \in Nat
        BY <1>4, <1>5, <2>2 DEF y
      <4>3. w[x][kind] = v[y][kind]
        BY <2>2 DEF y
      <4> QED BY <4>1, <4>2, <4>3
    <3> QED BY <3>1
  <2> QED BY <1>7, <2>1, <2>2
<1> HIDE DEF w
<1>11. Walk(r, w, from, to)
  BY <1>3, <1>8, <1>9, <1>10 DEF Walk
<1>12. \A x \in 0 .. Len(r) : \/ \A kind \in Kinds : w[x][kind] <= middle[kind]
                              \/ \A kind \in Kinds : w[x][kind] >= middle[kind]
  BY <1>3, <1>10
<1> QED BY <1>3, <1>11, <1>12 DEF r

\* Two sequences, one after the other.
LEMMA CarriesJoined ==
    ASSUME NEW p, NEW q, NEW from, NEW middle, NEW to,
           Carries(p, from, middle), Carries(q, middle, to)
    PROVE  Carries(p \o q, from, to)
BY Joined DEF Carries

\* What FlattenSeq joins, step by step.
Joins(g, s, number) ==
    g = [i \in 1 .. number |-> IF i = 1 THEN s[i] ELSE g[i - 1] \o s[i]]

\* The sequences joined from the first on.
LEMMA JoinsExist ==
    ASSUME NEW s, NEW number \in Nat
    PROVE  \E g : Joins(g, s, number)
<1> DEFINE S == {q \in Nat : \E g : Joins(g, s, q)}
<1>1. 0 \in S
  <2>1. Joins([i \in 1 .. 0 |-> 0], s, 0)
    BY DEF Joins
  <2> QED BY <2>1
<1>2. ASSUME NEW q \in Nat, q \in S PROVE q + 1 \in S
  <2>1. PICK g : Joins(g, s, q)
    BY <1>2
  <2> DEFINE new == IF q = 0 THEN s[q + 1] ELSE g[q] \o s[q + 1]
             h == [i \in 1 .. q + 1 |-> IF i <= q THEN g[i] ELSE new]
  <2>2. ASSUME NEW i \in 1 .. q + 1
        PROVE  h[i] = IF i = 1 THEN s[i] ELSE h[i - 1] \o s[i]
    <3>1. CASE i <= q
      <4>1. i \in 1 .. q /\ (i # 1 => i - 1 \in 1 .. q + 1 /\ i - 1 <= q)
        BY <3>1
      <4>2. g[i] = IF i = 1 THEN s[i] ELSE g[i - 1] \o s[i]
        BY <2>1, <4>1 DEF Joins
      <4> QED BY <3>1, <4>1, <4>2
    <3>2. CASE i = q + 1
      <4>1. ~(i <= q) /\ (i = 1 <=> q = 0) /\ i - 1 = q /\ (i # 1 => q \in 1 .. q + 1 /\ q <= q)
        BY <3>2
      <4>2. h[i] = new
        BY <4>1
      <4>3. i # 1 => h[i - 1] = g[q]
        BY <4>1
      <4> HIDE DEF h
      <4> QED BY <3>2, <4>1, <4>2, <4>3
    <3> QED BY <3>1, <3>2
  <2>3. h = [i \in 1 .. q + 1 |-> IF i = 1 THEN s[i] ELSE h[i - 1] \o s[i]]
    BY <2>2
  <2> HIDE DEF h
  <2>4. Joins(h, s, q + 1)
    BY <2>3 DEF Joins
  <2> QED BY <2>4
<1> HIDE DEF S
<1>3. Nat \subseteq S
  BY <1>1, <1>2, Induction
<1> QED BY <1>3 DEF S

\* Any number of sequences, one after the other.
LEMMA CarriesFlattened ==
    ASSUME NEW number \in Nat, NEW s, s = [i \in 1 .. number |-> s[i]],
           NEW at \in [0 .. number -> [Kinds -> Nat]],
           \A i \in 1 .. number : Carries(s[i], at[i - 1], at[i])
    PROVE  Carries(FlattenSeq(s), at[0], at[number])
<1>1. Len(s) = number
  <2> DEFINE S == {s[i] : i \in 1 .. number}
  <2>1. s \in Seq(S) /\ DOMAIN s = 1 .. number
    BY SeqDef
  <2>2. Len(s) \in Nat /\ DOMAIN s = 1 .. Len(s)
    BY <2>1, LenProperties
  <2> HIDE DEF S
  <2>3. CASE number = 0
    BY <2>1, <2>2, <2>3
  <2>4. CASE number # 0
    <3>1. number \in 1 .. Len(s)
      BY <2>1, <2>2, <2>4
    <3>2. Len(s) \in 1 .. number
      BY <2>1, <2>2, <3>1
    <3> QED BY <3>1, <3>2
  <2> QED BY <2>3, <2>4
<1>2. CASE number = 0
  <2>1. s = << >>
    BY <1>2
  <2>2. FlattenSeq(s) = << >>
    BY <1>1, <1>2, <2>1 DEF FlattenSeq
  <2> QED BY <1>2, <2>2, CarriesNone
<1>3. CASE number # 0
  <2> DEFINE g == CHOOSE g : Joins(g, s, number)
  <2>1. Joins(g, s, number)
    BY JoinsExist
  <2>2. FlattenSeq(s) = g[number]
    BY <1>1, <1>3 DEF FlattenSeq, Joins
  <2> HIDE DEF g
  <2> DEFINE S == {q \in Nat : q + 1 \in 1 .. number => Carries(g[q + 1], at[0], at[q + 1])}
  <2>3. 0 \in S
    <3>1. 1 \in 1 .. number => g[1] = s[1]
      BY <2>1 DEF Joins
    <3> QED BY <3>1
  <2>4. ASSUME NEW q \in Nat, q \in S PROVE q + 1 \in S
    <3> DEFINE i == q + 2
    <3> SUFFICES ASSUME i \in 1 .. number PROVE Carries(g[i], at[0], at[i])
      BY <2>4
    <3>1. i # 1 /\ i - 1 = q + 1 /\ q + 1 \in 1 .. number
      OBVIOUS
    <3>2. g[i] = g[i - 1] \o s[i]
      BY <2>1, <3>1 DEF Joins
    <3>3. Carries(g[i - 1], at[0], at[i - 1])
      BY <2>4, <3>1
    <3>4. Carries(s[i], at[i - 1], at[i])
      OBVIOUS
    <3> QED BY <3>2, <3>3, <3>4, CarriesJoined
  <2> HIDE DEF S
  <2>5. Nat \subseteq S
    BY <2>3, <2>4, Induction
  <2>6. number - 1 \in Nat /\ (number - 1) + 1 = number /\ number \in 1 .. number
    BY <1>3
  <2>7. Carries(g[number], at[0], at[number])
    BY <2>5, <2>6 DEF S
  <2> QED BY <2>2, <2>7
<1> QED BY <1>2, <1>3

-----------------------------------------------------------------------------
(* Numbers of the four kinds. *)

Counts(a, b, c, d) ==
    [kind \in Kinds |-> IF kind = 1 THEN a ELSE IF kind = 2 THEN b
                        ELSE IF kind = 3 THEN c ELSE d]

\* The four counts, one by one.
LEMMA CountsAre ==
    ASSUME NEW a \in Nat, NEW b \in Nat, NEW c \in Nat, NEW d \in Nat
    PROVE  /\ Counts(a, b, c, d) \in [Kinds -> Nat]
           /\ Counts(a, b, c, d)[1] = a /\ Counts(a, b, c, d)[2] = b
           /\ Counts(a, b, c, d)[3] = c /\ Counts(a, b, c, d)[4] = d
BY DEF Counts, Kinds

\* One instruction, with the counts after it given.
LEMMA CarriesNext ==
    ASSUME NEW from \in [Kinds -> Nat], NEW kind \in Kinds, NEW to \in [Kinds -> Nat],
           InOrder(kind, from),
           \A other \in Kinds :
              to[other] = IF other = kind THEN from[other] + 1 ELSE from[other]
    PROVE  Carries(<<Instr(kind, from[kind])>>, from, to)
<1>1. to = [from EXCEPT ![kind] = @ + 1]
  OBVIOUS
<1>2. Carries(<<Instr(kind, from[kind])>>, from, [from EXCEPT ![kind] = @ + 1])
  BY CarriesOne
<1> QED BY <1>1, <1>2

\* One instruction of each kind.
LEMMA CarriesInstr ==
    ASSUME NEW a \in Nat, NEW b \in Nat, NEW c \in Nat, NEW d \in Nat
    PROVE  /\ InOrder(1, Counts(a, b, c, d)) =>
                 Carries(<<Instr(1, a)>>, Counts(a, b, c, d), Counts(a + 1, b, c, d))
           /\ InOrder(2, Counts(a, b, c, d)) =>
                 Carries(<<Instr(2, b)>>, Counts(a, b, c, d), Counts(a, b + 1, c, d))
           /\ InOrder(3, Counts(a, b, c, d)) =>
                 Carries(<<Instr(3, c)>>, Counts(a, b, c, d), Counts(a, b, c + 1, d))
           /\ Carries(<<Instr(4, d)>>, Counts(a, b, c, d), Counts(a, b, c, d + 1))
<1> DEFINE from == Counts(a, b, c, d)
<1>1. Kinds = {1, 2, 3, 4}
  BY DEF Kinds
<1>2. \A u, v, x, y : /\ Counts(u, v, x, y)[1] = u /\ Counts(u, v, x, y)[2] = v
                      /\ Counts(u, v, x, y)[3] = x /\ Counts(u, v, x, y)[4] = y
  BY <1>1 DEF Counts
<1>3. \A u, v, x, y \in Nat : Counts(u, v, x, y) \in [Kinds -> Nat]
  BY CountsAre
<1>4. from \in [Kinds -> Nat] /\ from[1] = a /\ from[2] = b /\ from[3] = c /\ from[4] = d
  <2>1. from \in [Kinds -> Nat]
    BY <1>3
  <2> QED BY <1>2, <2>1
<1> HIDE DEF from
<1>5. a + 1 \in Nat /\ b + 1 \in Nat /\ c + 1 \in Nat /\ d + 1 \in Nat
  OBVIOUS
<1>6. ASSUME InOrder(1, from) PROVE Carries(<<Instr(1, a)>>, from, Counts(a + 1, b, c, d))
  <2> DEFINE to == Counts(a + 1, b, c, d)
  <2>1. to \in [Kinds -> Nat] /\ to[1] = a + 1 /\ to[2] = b /\ to[3] = c /\ to[4] = d
    <3>1. to \in [Kinds -> Nat]
      BY <1>3, <1>5
    <3>2. to[1] = a + 1 /\ to[2] = b /\ to[3] = c /\ to[4] = d
      BY <1>2
    <3> QED BY <3>1, <3>2
  <2> HIDE DEF to
  <2>2. \A other \in Kinds : to[other] = IF other = 1 THEN from[other] + 1 ELSE from[other]
    BY <1>1, <1>4, <2>1
  <2>3. 1 \in Kinds
    BY <1>1
  <2>4. Carries(<<Instr(1, from[1])>>, from, to)
    BY <1>4, <1>6, <2>1, <2>2, <2>3, CarriesNext
  <2> QED BY <1>4, <2>4 DEF to
<1>7. ASSUME InOrder(2, from) PROVE Carries(<<Instr(2, b)>>, from, Counts(a, b + 1, c, d))
  <2> DEFINE to == Counts(a, b + 1, c, d)
  <2>1. to \in [Kinds -> Nat] /\ to[1] = a /\ to[2] = b + 1 /\ to[3] = c /\ to[4] = d
    <3>1. to \in [Kinds -> Nat]
      BY <1>3, <1>5
    <3>2. to[1] = a /\ to[2] = b + 1 /\ to[3] = c /\ to[4] = d
      BY <1>2
    <3> QED BY <3>1, <3>2
  <2> HIDE DEF to
  <2>2. \A other \in Kinds : to[other] = IF other = 2 THEN from[other] + 1 ELSE from[other]
    BY <1>1, <1>4, <2>1
  <2>3. 2 \in Kinds
    BY <1>1
  <2>4. Carries(<<Instr(2, from[2])>>, from, to)
    BY <1>4, <1>7, <2>1, <2>2, <2>3, CarriesNext
  <2> QED BY <1>4, <2>4 DEF to
<1>8. ASSUME InOrder(3, from) PROVE Carries(<<Instr(3, c)>>, from, Counts(a, b, c + 1, d))
  <2> DEFINE to == Counts(a, b, c + 1, d)
  <2>1. to \in [Kinds -> Nat] /\ to[1] = a /\ to[2] = b /\ to[3] = c + 1 /\ to[4] = d
    <3>1. to \in [Kinds -> Nat]
      BY <1>3, <1>5
    <3>2. to[1] = a /\ to[2] = b /\ to[3] = c + 1 /\ to[4] = d
      BY <1>2
    <3> QED BY <3>1, <3>2
  <2> HIDE DEF to
  <2>2. \A other \in Kinds : to[other] = IF other = 3 THEN from[other] + 1 ELSE from[other]
    BY <1>1, <1>4, <2>1
  <2>3. 3 \in Kinds
    BY <1>1
  <2>4. Carries(<<Instr(3, from[3])>>, from, to)
    BY <1>4, <1>8, <2>1, <2>2, <2>3, CarriesNext
  <2> QED BY <1>4, <2>4 DEF to
<1>9. Carries(<<Instr(4, d)>>, from, Counts(a, b, c, d + 1))
  <2> DEFINE to == Counts(a, b, c, d + 1)
  <2>1. to \in [Kinds -> Nat] /\ to[1] = a /\ to[2] = b /\ to[3] = c /\ to[4] = d + 1
    <3>1. to \in [Kinds -> Nat]
      BY <1>3, <1>5
    <3>2. to[1] = a /\ to[2] = b /\ to[3] = c /\ to[4] = d + 1
      BY <1>2
    <3> QED BY <3>1, <3>2
  <2> HIDE DEF to
  <2>2. \A other \in Kinds : to[other] = IF other = 4 THEN from[other] + 1 ELSE from[other]
    BY <1>1, <1>4, <2>1
  <2>3. 4 \in Kinds
    BY <1>1
  <2>4. InOrder(4, from)
    BY DEF InOrder
  <2>5. Carries(<<Instr(4, from[4])>>, from, to)
    BY <1>4, <2>1, <2>2, <2>3, <2>4, CarriesNext
  <2> QED BY <1>4, <2>5 DEF to
<1> QED BY <1>6, <1>7, <1>8, <1>9 DEF from

-----------------------------------------------------------------------------
(* The blocks, the groups and the reads. *)

\* A block of weights or outputs grows until it has them all.
LEMMA LeastStep ==
    ASSUME NEW r \in Nat, NEW size \in Nat \ {0}, NEW k \in Nat \ {0}
    PROVE  /\ r + Least(k - 1, size) \in Nat
           /\ k <= size => /\ r + Least(k - 1, size) = r + (k - 1)
                           /\ r + Least(k, size) = r + Least(k - 1, size) + 1
           /\ k > size => r + Least(k, size) = r + Least(k - 1, size)
BY DEF Least

\* The counts when k words of each kind of block b are sent, as far as there are.
InBlock(b, k, read) ==
    Counts(Rows * b + Least(k, Rows), Images * b + k, Cols * b + Least(k, Cols), read)

Sent(groups, read) == InBlock(NOPCount * groups, 0, read)

\* A block has no more weights and outputs than image words.
LEMMA ImagesIs ==
    Images \in Nat \ {0} /\ Rows <= Images /\ Cols <= Images /\ Images = Rows + Cols - 1
BY ArrayAssumption DEF Images

\* The groups of the tile: whole ones, and perhaps a narrow one.
LEMMA GroupsIs ==
    /\ Groups \in Nat \ {0} /\ Edge \in 0 .. Cols - 1 /\ N = Cols * Groups + Edge
    /\ AllGroups \in Nat \ {0} /\ Groups <= AllGroups /\ AllGroups <= Groups + 1
    /\ \A j \in 0 .. AllGroups - 1 : Width(j) \in 1 .. Cols
<1>1. N \in Nat /\ Cols \in Nat \ {0} /\ N >= Cols
  BY ArrayAssumption, ProgramAssumption
<1>2. Groups \in Nat /\ Edge \in 0 .. Cols - 1 /\ N = Groups * Cols + Edge
  BY <1>1, DivMod DEF Groups, Edge
<1>3. Groups # 0
  BY <1>1, <1>2
<1>4. Groups * Cols = Cols * Groups
  BY <1>1, <1>2
<1>5. /\ AllGroups \in Nat \ {0} /\ Groups <= AllGroups /\ AllGroups <= Groups + 1
      /\ Edge = 0 => AllGroups = Groups
  BY <1>2, <1>3 DEF AllGroups
<1>6. ASSUME NEW j \in 0 .. AllGroups - 1 PROVE Width(j) \in 1 .. Cols
  BY <1>1, <1>2, <1>3, <1>5 DEF Width
<1> QED BY <1>2, <1>3, <1>4, <1>5, <1>6

\* The counts in the middle of a block.
LEMMA InBlockIs ==
    ASSUME NEW b \in Nat, NEW k \in 0 .. Images, NEW read \in Nat
    PROVE  InBlock(b, k, read) \in [Kinds -> Nat]
<1>1. /\ Rows * b \in Nat /\ Images * b \in Nat /\ Cols * b \in Nat
      /\ Least(k, Rows) \in Nat /\ Least(k, Cols) \in Nat /\ k \in Nat
  BY ImagesIs, ArrayAssumption DEF Least
<1>2. /\ Rows * b + Least(k, Rows) \in Nat /\ Images * b + k \in Nat
      /\ Cols * b + Least(k, Cols) \in Nat
  BY <1>1
<1> QED BY <1>2, CountsAre, Zenon DEF InBlock

\* A block ends where the next one begins.
LEMMA BlockEnds ==
    ASSUME NEW b \in Nat, NEW read \in Nat
    PROVE  InBlock(b, Images, read) = InBlock(b + 1, 0, read)
<1>1. /\ Rows * (b + 1) = Rows * b + Rows /\ Images * (b + 1) = Images * b + Images
      /\ Cols * (b + 1) = Cols * b + Cols
  BY ImagesIs, ArrayAssumption
<1>2. /\ Least(Images, Rows) = Rows /\ Least(Images, Cols) = Cols
      /\ Least(0, Rows) = 0 /\ Least(0, Cols) = 0
  BY ImagesIs, ArrayAssumption DEF Least
<1>3. /\ Rows * b \in Nat /\ Images * b \in Nat /\ Cols * b \in Nat
      /\ Rows \in Nat /\ Images \in Nat /\ Cols \in Nat
  BY ImagesIs, ArrayAssumption
<1>4. /\ Rows * b + Least(Images, Rows) = Rows * (b + 1) + Least(0, Rows)
      /\ Images * b + Images = Images * (b + 1) + 0
      /\ Cols * b + Least(Images, Cols) = Cols * (b + 1) + Least(0, Cols)
  BY <1>1, <1>2, <1>3
<1> QED BY <1>4 DEF InBlock

\* The words of a block are the next ones of the streams.
LEMMA BlockWords ==
    ASSUME NEW j \in Nat, NEW p \in 0 .. NOPCount - 1, NEW b, b = NOPCount * j + p,
           NEW k \in 1 .. Images
    PROVE  /\ b \in Nat
           /\ k <= Rows => WeightAt(Rows * b + (k - 1)) = p * Rows + (k - 1)
           /\ ImageAt(Images * b + (k - 1)) =
                 IF k - 1 < Width(j) + Rows - 1
                 THEN j * Images * NOPCount + p * Images + (k - 1)
                 ELSE (j - 1) * Images * NOPCount + (NOPCount - 1) * Images + (k - 1)
           /\ k <= Cols => OutputAt(Cols * b + (k - 1)) =
                 IF p = 0 /\ k - 1 < Width(j) THEN j * Cols + (k - 1) ELSE Zeros
<1>1. b \in Nat /\ b \div NOPCount = j /\ b % NOPCount = p
  BY Element, CellSizes
<1>2. ASSUME k <= Rows PROVE WeightAt(Rows * b + (k - 1)) = p * Rows + (k - 1)
  <2>1. k - 1 \in 0 .. Rows - 1 /\ Rows \in Nat \ {0}
    BY <1>2, ArrayAssumption
  <2>2. (Rows * b + (k - 1)) \div Rows = b /\ (Rows * b + (k - 1)) % Rows = k - 1
    BY <1>1, <2>1, Element
  <2> QED BY <1>1, <2>2 DEF WeightAt
<1>3. ImageAt(Images * b + (k - 1)) =
        IF k - 1 < Width(j) + Rows - 1
        THEN j * Images * NOPCount + p * Images + (k - 1)
        ELSE (j - 1) * Images * NOPCount + (NOPCount - 1) * Images + (k - 1)
  <2>1. k - 1 \in 0 .. Images - 1
    BY ImagesIs
  <2>2. (Images * b + (k - 1)) \div Images = b /\ (Images * b + (k - 1)) % Images = k - 1
    BY <1>1, <2>1, Element, ImagesIs
  <2> QED BY <1>1, <2>2 DEF ImageAt
<1>4. ASSUME k <= Cols
      PROVE  OutputAt(Cols * b + (k - 1)) =
                IF p = 0 /\ k - 1 < Width(j) THEN j * Cols + (k - 1) ELSE Zeros
  <2>1. k - 1 \in 0 .. Cols - 1 /\ Cols \in Nat \ {0}
    BY <1>4, ArrayAssumption
  <2>2. (Cols * b + (k - 1)) \div Cols = b /\ (Cols * b + (k - 1)) % Cols = k - 1
    BY <1>1, <2>1, Element
  <2> QED BY <1>1, <2>2 DEF OutputAt
<1> QED BY <1>1, <1>2, <1>3, <1>4

\* A block sends the words of the four streams that are its own.
LEMMA CarriesBlock ==
    ASSUME NEW j \in Nat, NEW p \in 0 .. NOPCount - 1, NEW b, b = NOPCount * j + p,
           NEW read \in Nat, read <= Cols * j
    PROVE  Carries(Block(j, p, Width(j)), InBlock(b, 0, read), InBlock(b + 1, 0, read))
<1> DEFINE word(k) == << [n |-> 1, at |-> p * Rows + (k - 1)] >>
           image(k) == << [n |-> 2, at |->
                             IF k - 1 < Width(j) + Rows - 1
                             THEN j * Images * NOPCount + p * Images + (k - 1)
                             ELSE (j - 1) * Images * NOPCount + (NOPCount - 1) * Images
                                     + (k - 1)] >>
           output(k) == << [n |-> 3, at |-> IF p = 0 /\ k - 1 < Width(j)
                                            THEN j * Cols + (k - 1) ELSE Zeros] >>
           piece(k) == (IF k <= Rows THEN word(k) ELSE << >>) \o image(k)
                          \o (IF k <= Cols THEN output(k) ELSE << >>)
           s == [k \in 1 .. Images |-> piece(k)]
<1>1. Block(j, p, Width(j)) = FlattenSeq(s)
  <2> DEFINE weight == [index \in 0 .. Rows - 1 |-> p * Rows + index]
             img == [index \in 0 .. Images - 1 |->
                       IF index < Width(j) + Rows - 1
                       THEN j * Images * NOPCount + p * Images + index
                       ELSE (j - 1) * Images * NOPCount + (NOPCount - 1) * Images + index]
             out == [index \in 0 .. Cols - 1 |->
                       IF p = 0 /\ index < Width(j) THEN j * Cols + index ELSE Zeros]
             t == [k \in 1 .. Images |->
                     (IF k <= Rows THEN <<[n |-> 1, at |-> weight[k - 1]]>> ELSE << >>)
                     \o <<[n |-> 2, at |-> img[k - 1]]>>
                     \o (IF k <= Cols THEN <<[n |-> 3, at |-> out[k - 1]]>> ELSE << >>)]
  <2>1. Block(j, p, Width(j)) = FlattenSeq(t)
    BY DEF Block, PE_Instruction_Block
  <2>2. ASSUME NEW k \in 1 .. Images
        PROVE  (IF k <= Rows THEN <<[n |-> 1, at |-> weight[k - 1]]>> ELSE << >>)
                 \o <<[n |-> 2, at |-> img[k - 1]]>>
                 \o (IF k <= Cols THEN <<[n |-> 3, at |-> out[k - 1]]>> ELSE << >>)
               = piece(k)
    <3>1. /\ k <= Rows => k - 1 \in 0 .. Rows - 1
          /\ k <= Cols => k - 1 \in 0 .. Cols - 1
          /\ k - 1 \in 0 .. Images - 1
      BY ImagesIs, ArrayAssumption
    <3>2. /\ k <= Rows => weight[k - 1] = p * Rows + (k - 1)
          /\ img[k - 1] = IF k - 1 < Width(j) + Rows - 1
                          THEN j * Images * NOPCount + p * Images + (k - 1)
                          ELSE (j - 1) * Images * NOPCount + (NOPCount - 1) * Images + (k - 1)
          /\ k <= Cols => out[k - 1] = IF p = 0 /\ k - 1 < Width(j)
                                       THEN j * Cols + (k - 1) ELSE Zeros
      BY <3>1, Zenon
    <3> HIDE DEF weight, img, out
    <3> QED BY <3>2, Zenon
  <2> HIDE DEF weight, img, out, piece
  <2>3. t = s
    BY <2>2, Zenon
  <2> QED BY <2>1, <2>3
<1> DEFINE at == [k \in 0 .. Images |-> InBlock(b, k, read)]
<1>2. b \in Nat
  <2>1. 1 \in 1 .. Images
    BY ImagesIs
  <2> QED BY <2>1, BlockWords
<1>3. ASSUME NEW k \in 1 .. Images
      PROVE  Carries(piece(k), InBlock(b, k - 1, read), InBlock(b, k, read))
  <2>1. /\ k <= Rows => word(k) = <<Instr(1, Rows * b + (k - 1))>>
        /\ image(k) = <<Instr(2, Images * b + (k - 1))>>
        /\ k <= Cols => output(k) = <<Instr(3, Cols * b + (k - 1))>>
    <3>1. /\ k <= Rows => WeightAt(Rows * b + (k - 1)) = p * Rows + (k - 1)
          /\ ImageAt(Images * b + (k - 1)) =
                IF k - 1 < Width(j) + Rows - 1
                THEN j * Images * NOPCount + p * Images + (k - 1)
                ELSE (j - 1) * Images * NOPCount + (NOPCount - 1) * Images + (k - 1)
          /\ k <= Cols => OutputAt(Cols * b + (k - 1)) =
                IF p = 0 /\ k - 1 < Width(j) THEN j * Cols + (k - 1) ELSE Zeros
      BY BlockWords
    <3>2. \A q : /\ Instr(1, q) = [n |-> 1, at |-> WeightAt(q)]
                 /\ Instr(2, q) = [n |-> 2, at |-> ImageAt(q)]
                 /\ Instr(3, q) = [n |-> 3, at |-> OutputAt(q)]
      BY DEF Instr
    <3> QED BY <3>1, <3>2, Zenon
  <2> HIDE DEF word, image, output
  <2> DEFINE w0 == Rows * b + Least(k - 1, Rows)
             w1 == Rows * b + Least(k, Rows)
             i0 == Images * b + (k - 1)
             i1 == Images * b + k
             o0 == Cols * b + Least(k - 1, Cols)
             o1 == Cols * b + Least(k, Cols)
  <2>2. /\ w0 \in Nat /\ i0 \in Nat /\ o0 \in Nat /\ i1 = i0 + 1
        /\ k <= Rows => w0 = Rows * b + (k - 1) /\ w1 = w0 + 1
        /\ k > Rows => w1 = w0
        /\ k <= Cols => o0 = Cols * b + (k - 1) /\ o1 = o0 + 1
        /\ k > Cols => o1 = o0
    <3>1. Rows * b \in Nat /\ Images * b \in Nat /\ Cols * b \in Nat
      BY <1>2, ImagesIs, ArrayAssumption
    <3>2. Rows \in Nat /\ Cols \in Nat /\ k \in Nat \ {0}
      BY ImagesIs, ArrayAssumption
    <3>3. Rows \in Nat \ {0} /\ Cols \in Nat \ {0}
      BY ArrayAssumption
    <3>4. /\ w0 \in Nat
          /\ k <= Rows => w0 = Rows * b + (k - 1) /\ w1 = w0 + 1
          /\ k > Rows => w1 = w0
      <4>1. Rows * b \in Nat /\ Rows \in Nat \ {0} /\ k \in Nat \ {0}
        BY <3>1, <3>2, <3>3
      <4> DEFINE rb == Rows * b
      <4>2. rb \in Nat
        BY <4>1
      <4> HIDE DEF rb
      <4>3. /\ rb + Least(k - 1, Rows) \in Nat
            /\ k <= Rows => /\ rb + Least(k - 1, Rows) = rb + (k - 1)
                            /\ rb + Least(k, Rows) = rb + Least(k - 1, Rows) + 1
            /\ k > Rows => rb + Least(k, Rows) = rb + Least(k - 1, Rows)
        BY ONLY <4>1, <4>2, LeastStep
      <4> QED BY <4>3, Zenon DEF rb
    <3>5. /\ o0 \in Nat
          /\ k <= Cols => o0 = Cols * b + (k - 1) /\ o1 = o0 + 1
          /\ k > Cols => o1 = o0
      BY <3>1, <3>2, <3>3, LeastStep, Zenon
    <3>6. i0 \in Nat /\ i1 = i0 + 1
      BY <3>1, <3>2
    <3> HIDE DEF w0, w1, i0, i1, o0, o1
    <3> QED BY <3>4, <3>5, <3>6
  <2>3. /\ InBlock(b, k - 1, read) = Counts(w0, i0, o0, read)
        /\ InBlock(b, k, read) = Counts(w1, i1, o1, read)
    BY DEF InBlock
  <2>4. k \in Nat /\ Rows \in Nat /\ Cols \in Nat
    BY ImagesIs, ArrayAssumption
  <2>5. w1 \in Nat /\ i1 \in Nat /\ o1 \in Nat /\ i0 = Images * b + (k - 1)
    BY <2>2, <2>4
  <2> DEFINE base == BlockLen * b
             v == Rows * b
             i == Images * b
             o == Cols * b
  <2>10. /\ k <= Rows => InOrder(1, Counts(w0, i0, o0, read))
         /\ InOrder(2, Counts(w1, i0, o0, read))
         /\ k <= Cols => InOrder(3, Counts(w1, i1, o0, read))
    <3>1. /\ v \in Nat /\ i \in Nat /\ o \in Nat /\ base = v + i + o
      BY <1>2, ImagesIs, ArrayAssumption DEF BlockLen
    <3>2. /\ w0 = v + Least(k - 1, Rows) /\ w1 = v + Least(k, Rows)
          /\ i0 = i + (k - 1) /\ i1 = i + k /\ o0 = o + Least(k - 1, Cols)
          /\ k <= Rows => w0 = v + (k - 1)
          /\ k <= Cols => o0 = o + (k - 1)
      BY <2>2
    <3>3. /\ b \div NOPCount = j
          /\ k <= Rows => w0 \div Rows = b /\ w0 % Rows = k - 1
          /\ i0 \div Images = b /\ i0 % Images = k - 1
          /\ k <= Cols => o0 \div Cols = b /\ o0 % Cols = k - 1
      <4>1. b \div NOPCount = j
        BY Element, CellSizes
      <4>2. k <= Rows => w0 \div Rows = b /\ w0 % Rows = k - 1
        <5>1. Rows \in Nat \ {0}
          BY ArrayAssumption
        <5> SUFFICES ASSUME k <= Rows PROVE w0 \div Rows = b /\ w0 % Rows = k - 1
          OBVIOUS
        <5>2. k - 1 \in 0 .. Rows - 1 /\ w0 = Rows * b + (k - 1)
          BY <2>2, <2>4
        <5> HIDE DEF w0, v
        <5> QED BY ONLY <1>2, <5>1, <5>2, Element
      <4>3. i0 \div Images = b /\ i0 % Images = k - 1
        <5>1. k - 1 \in 0 .. Images - 1 /\ i0 = Images * b + (k - 1)
          BY <2>4, ImagesIs
        <5>2. Images \in Nat \ {0}
          BY ImagesIs
        <5> HIDE DEF i0, i
        <5> QED BY ONLY <1>2, <5>1, <5>2, Element
      <4>4. k <= Cols => o0 \div Cols = b /\ o0 % Cols = k - 1
        <5>1. Cols \in Nat \ {0}
          BY ArrayAssumption
        <5> SUFFICES ASSUME k <= Cols PROVE o0 \div Cols = b /\ o0 % Cols = k - 1
          OBVIOUS
        <5>2. k - 1 \in 0 .. Cols - 1 /\ o0 = Cols * b + (k - 1)
          BY <2>2, <2>4
        <5> HIDE DEF o0, o
        <5> QED BY ONLY <1>2, <5>1, <5>2, Element
      <4> QED BY <4>1, <4>2, <4>3, <4>4
    <3> HIDE DEF w0, w1, i0, i1, o0, o1, v, i, o, base
    <3>4. /\ Offset(1, k - 1) = (k - 1) + Least(k - 1, Rows) + Least(k - 1, Cols)
          /\ Offset(2, k - 1) = (k - 1) + Least(k, Rows) + Least(k - 1, Cols)
          /\ Offset(3, k - 1) = k + Least(k, Rows) + Least(k - 1, Cols)
      <4>1. (k - 1) + 1 = k
        BY <2>4
      <4> QED BY <4>1 DEF Offset
    <3>5. /\ Least(k - 1, Rows) \in Nat /\ Least(k, Rows) \in Nat
          /\ Least(k - 1, Cols) \in Nat
      BY <2>4 DEF Least
    <3>6. /\ w0 + i0 + o0 = base + Offset(1, k - 1)
          /\ w1 + i0 + o0 = base + Offset(2, k - 1)
          /\ w1 + i1 + o0 = base + Offset(3, k - 1)
      BY ONLY <2>4, <3>1, <3>2, <3>4, <3>5
    <3>7. /\ w0 + i0 + o0 = Place(1, b, k - 1)
          /\ w1 + i0 + o0 = Place(2, b, k - 1)
          /\ w1 + i1 + o0 = Place(3, b, k - 1)
      BY <3>6 DEF Place, base
    <3>8. \A x, y, z : /\ Counts(x, y, z, read)[1] = x /\ Counts(x, y, z, read)[2] = y
                       /\ Counts(x, y, z, read)[3] = z /\ Counts(x, y, z, read)[4] = read
      BY DEF Counts, Kinds
    <3>9. Per(1) = Rows /\ Per(2) = Images /\ Per(3) = Cols
      BY DEF Per
    <3>10. ASSUME k <= Rows PROVE InOrder(1, Counts(w0, i0, o0, read))
      BY <3>3, <3>7, <3>8, <3>9, <3>10 DEF InOrder
    <3>11. InOrder(2, Counts(w1, i0, o0, read))
      BY <3>3, <3>7, <3>8, <3>9 DEF InOrder
    <3>12. ASSUME k <= Cols PROVE InOrder(3, Counts(w1, i1, o0, read))
      BY <3>3, <3>7, <3>8, <3>9, <3>12 DEF InOrder
    <3> QED BY <3>10, <3>11, <3>12
  <2> HIDE DEF w0, w1, i0, i1, o0, o1, base, v, i, o
  <2>6. Carries(IF k <= Rows THEN word(k) ELSE << >>,
                Counts(w0, i0, o0, read), Counts(w1, i0, o0, read))
    <3>1. CASE k <= Rows
      <4>1. Carries(<<Instr(1, w0)>>, Counts(w0, i0, o0, read), Counts(w0 + 1, i0, o0, read))
        BY <2>2, <2>10, <3>1, CarriesInstr
      <4> QED BY <2>1, <2>2, <3>1, <4>1
    <3>2. CASE ~(k <= Rows)
      <4>1. w1 = w0
        BY <2>2, <2>4, <3>2
      <4>2. Counts(w0, i0, o0, read) \in [Kinds -> Nat]
        BY <2>2, CountsAre
      <4> QED BY <3>2, <4>1, <4>2, CarriesNone
    <3> QED BY <3>1, <3>2
  <2>7. Carries(image(k), Counts(w1, i0, o0, read), Counts(w1, i1, o0, read))
    <3>1. Carries(<<Instr(2, i0)>>, Counts(w1, i0, o0, read), Counts(w1, i0 + 1, o0, read))
      BY <2>2, <2>5, <2>10, CarriesInstr
    <3> QED BY <2>1, <2>2, <2>5, <3>1
  <2>8. Carries(IF k <= Cols THEN output(k) ELSE << >>,
                Counts(w1, i1, o0, read), Counts(w1, i1, o1, read))
    <3>1. CASE k <= Cols
      <4>1. Carries(<<Instr(3, o0)>>, Counts(w1, i1, o0, read), Counts(w1, i1, o0 + 1, read))
        BY <2>2, <2>5, <2>10, <3>1, CarriesInstr
      <4> QED BY <2>1, <2>2, <3>1, <4>1
    <3>2. CASE ~(k <= Cols)
      <4>1. o1 = o0
        BY <2>2, <2>4, <3>2
      <4>2. Counts(w1, i1, o0, read) \in [Kinds -> Nat]
        BY <2>2, <2>5, CountsAre
      <4> QED BY <3>2, <4>1, <4>2, CarriesNone
    <3> QED BY <3>1, <3>2
  <2> HIDE DEF Images
  <2> QED BY <2>3, <2>6, <2>7, <2>8, CarriesJoined
<1>4. /\ at \in [0 .. Images -> [Kinds -> Nat]]
      /\ \A k \in 0 .. Images : at[k] = InBlock(b, k, read)
  BY <1>2, InBlockIs
<1> HIDE DEF piece, at
<1>5. ASSUME NEW k \in 1 .. Images PROVE Carries(s[k], at[k - 1], at[k])
  <2>1. k - 1 \in 0 .. Images /\ k \in 0 .. Images
    BY ImagesIs
  <2>2. s[k] = piece(k)
    OBVIOUS
  <2> QED BY <1>3, <1>4, <2>1, <2>2
<1>6. s = [k \in 1 .. Images |-> s[k]]
  OBVIOUS
<1> HIDE DEF s
<1>7. Carries(FlattenSeq(s), at[0], at[Images])
  BY <1>4, <1>5, <1>6, ImagesIs, CarriesFlattened
<1>8. at[0] = InBlock(b, 0, read) /\ at[Images] = InBlock(b + 1, 0, read)
  BY <1>2, <1>4, ImagesIs, BlockEnds
<1> QED BY <1>1, <1>7, <1>8

\* What is sent with a number of groups.
LEMMA SentIs ==
    ASSUME NEW g \in Nat, NEW read \in Nat
    PROVE  /\ Sent(g, read) = Counts(Rows * (NOPCount * g), Images * (NOPCount * g),
                                     Cols * (NOPCount * g), read)
           /\ Sent(g, read) \in [Kinds -> Nat]
<1>1. NOPCount * g \in Nat
  BY CellSizes
<1> DEFINE b == NOPCount * g
<1>2. Least(0, Rows) = 0 /\ Least(0, Cols) = 0
  BY ArrayAssumption DEF Least
<1>3. b \in Nat
  BY <1>1
<1> HIDE DEF b
<1>4. Rows * b + 0 = Rows * b /\ Images * b + 0 = Images * b /\ Cols * b + 0 = Cols * b
  BY <1>3, ImagesIs, ArrayAssumption
<1>5. 0 \in 0 .. Images
  BY ImagesIs
<1>6. InBlock(b, 0, read) \in [Kinds -> Nat]
  BY <1>3, <1>5, InBlockIs
<1>7. InBlock(b, 0, read) = Counts(Rows * b, Images * b, Cols * b, read)
  BY <1>2, <1>4 DEF InBlock
<1> QED BY <1>6, <1>7 DEF Sent, b

\* A group sends the words of the four streams that are its own.
LEMMA CarriesGroup ==
    ASSUME NEW j \in Nat, NEW read \in Nat, read <= Cols * j
    PROVE  Carries(Group(j, Width(j)), Sent(j, read), Sent(j + 1, read))
<1> DEFINE s == [q \in 1 .. NOPCount |-> Block(j, q - 1, Width(j))]
           at == [q \in 0 .. NOPCount |-> InBlock(NOPCount * j + q, 0, read)]
<1>1. NOPCount \in Nat \ {0} /\ NOPCount * j \in Nat /\ NOPCount * (j + 1) = NOPCount * j + NOPCount
  BY CellSizes
<1>2. Group(j, Width(j)) = FlattenSeq(s)
  BY DEF Group
<1> DEFINE first == NOPCount * j
<1>3. first \in Nat
  BY <1>1
<1>4. ASSUME NEW q \in 1 .. NOPCount
      PROVE  Carries(Block(j, q - 1, Width(j)), InBlock(first + (q - 1), 0, read),
                     InBlock(first + q, 0, read))
  <2>1. q - 1 \in 0 .. NOPCount - 1 /\ first + (q - 1) = NOPCount * j + (q - 1)
    BY <1>1
  <2>2. (first + (q - 1)) + 1 = first + q
    BY <1>1, <1>3
  <2> DEFINE b == first + (q - 1)
  <2>3. b = NOPCount * j + (q - 1)
    BY <2>1
  <2> HIDE DEF b
  <2>4. Carries(Block(j, q - 1, Width(j)), InBlock(b, 0, read), InBlock(b + 1, 0, read))
    BY <2>1, <2>3, CarriesBlock
  <2> QED BY <2>2, <2>4 DEF b
<1> HIDE DEF first
<1>5. \A q \in 0 .. NOPCount : InBlock(first + q, 0, read) \in [Kinds -> Nat]
  <2>1. 0 \in 0 .. Images
    BY ImagesIs
  <2>2. \A q \in 0 .. NOPCount : first + q \in Nat
    BY <1>1, <1>3
  <2> QED BY <2>1, <2>2, InBlockIs
<1>6. /\ at \in [0 .. NOPCount -> [Kinds -> Nat]]
      /\ \A q \in 0 .. NOPCount : at[q] = InBlock(first + q, 0, read)
  BY <1>5 DEF first
<1> HIDE DEF at
<1>7. ASSUME NEW q \in 1 .. NOPCount PROVE Carries(s[q], at[q - 1], at[q])
  <2>1. q - 1 \in 0 .. NOPCount /\ q \in 0 .. NOPCount
    BY <1>1
  <2>2. s[q] = Block(j, q - 1, Width(j))
    OBVIOUS
  <2> QED BY <1>4, <1>6, <2>1, <2>2
<1>8. s = [q \in 1 .. NOPCount |-> s[q]]
  OBVIOUS
<1> HIDE DEF s
<1>9. Carries(FlattenSeq(s), at[0], at[NOPCount])
  BY <1>1, <1>6, <1>7, <1>8, CarriesFlattened
<1>10. at[0] = Sent(j, read) /\ at[NOPCount] = Sent(j + 1, read)
  <2>1. first + 0 = NOPCount * j /\ first + NOPCount = NOPCount * (j + 1)
    BY <1>1 DEF first
  <2>2. 0 \in 0 .. NOPCount /\ NOPCount \in 0 .. NOPCount
    BY <1>1
  <2> QED BY <1>6, <2>1, <2>2 DEF Sent
<1> QED BY <1>2, <1>9, <1>10

\* A group is read in the order of its columns.
LEMMA CarriesReads ==
    ASSUME NEW j \in 0 .. AllGroups - 1, NEW a \in Nat, NEW b \in Nat, NEW c \in Nat
    PROVE  Carries(Reads(j, Width(j)), Counts(a, b, c, Cols * j), Counts(a, b, c, Cols * (j + 1)))
<1> DEFINE p == Reads(j, Width(j))
           first == Cols * j
           w == [k \in 0 .. Cols |-> Counts(a, b, c, first + k)]
<1>1. /\ j \in Nat /\ Cols \in Nat \ {0} /\ first \in Nat /\ Cols * (j + 1) = first + Cols
      /\ j * Cols = first /\ N \in Nat
  BY ArrayAssumption, ProgramAssumption, GroupsIs
<1>2. ASSUME NEW k \in 1 .. Cols
      PROVE  [n |-> 4, at |-> IF k <= Width(j) THEN j * Cols + k - 1 ELSE Zeros]
               = Instr(4, first + (k - 1))
  <2>1. SumAt(first + (k - 1)) = IF k <= Width(j) THEN j * Cols + k - 1 ELSE Zeros
    <3>1. j * Cols + k - 1 = first + (k - 1)
      BY <1>1
    <3>2. first + (k - 1) < N <=> k <= Width(j)
      <4>1. CASE j < Groups
        <5>1. PICK t \in Nat : Groups = j + 1 + t
          <6>1. Groups - j - 1 \in Nat /\ Groups = j + 1 + (Groups - j - 1)
            BY <1>1, <4>1, GroupsIs
          <6> QED BY <6>1
        <5>2. Cols * Groups = first + Cols + Cols * t /\ Cols * t \in Nat
          BY <1>1, <5>1
        <5>3. N = Cols * Groups + Edge /\ Edge \in Nat
          BY GroupsIs
        <5>4. Width(j) = Cols
          BY <4>1 DEF Width
        <5> QED BY <1>1, <5>2, <5>3, <5>4
      <4>2. CASE ~(j < Groups)
        <5>1. j = Groups
          BY <1>1, <4>2, GroupsIs
        <5>2. N = first + Edge /\ Edge \in Nat
          BY <5>1, GroupsIs
        <5>3. Width(j) = Edge
          BY <4>2 DEF Width
        <5> QED BY <1>1, <5>2, <5>3
      <4> QED BY <4>1, <4>2
    <3> HIDE DEF first
    <3> QED BY <3>1, <3>2 DEF SumAt
  <2>2. \A q : Instr(4, q) = [n |-> 4, at |-> SumAt(q)]
    BY DEF Instr
  <2> QED BY <2>1, <2>2, Zenon
<1>3. p = [k \in 1 .. Cols |-> Instr(4, first + (k - 1))]
  BY <1>2, Zenon DEF Reads
<1> HIDE DEF first
<1>4. /\ IsQueue(p) /\ Len(p) = Cols
      /\ \A k \in 1 .. Cols : p[k] = Instr(4, first + (k - 1))
  <2> DEFINE S == {p[k] : k \in 1 .. Cols}
  <2>1. p \in [1 .. Cols -> S]
    BY <1>3
  <2> HIDE DEF p
  <2>2. p \in Seq(S) /\ Len(p) = Cols
    <3>1. p \in Seq(S) /\ DOMAIN p = 1 .. Cols
      BY <1>1, <2>1, SeqDef
    <3> HIDE DEF S
    <3>2. Len(p) \in Nat /\ DOMAIN p = 1 .. Len(p)
      BY <3>1, LenProperties
    <3>3. Cols \in 1 .. Len(p)
      BY <1>1, <3>1, <3>2
    <3>4. Len(p) \in 1 .. Cols
      BY <3>1, <3>2, <3>3
    <3> QED BY <3>1, <3>3, <3>4, <1>1
  <2> HIDE DEF S
  <2> QED BY <1>3, <2>2 DEF IsQueue
<1> HIDE DEF p
<1>5. \A k \in 0 .. Cols : first + k \in Nat /\ Counts(a, b, c, first + k) \in [Kinds -> Nat]
  <2>1. \A k \in 0 .. Cols : first + k \in Nat
    BY <1>1
  <2> QED BY <2>1, CountsAre
<1>6. /\ w \in [0 .. Cols -> [Kinds -> Nat]]
      /\ \A k \in 0 .. Cols : w[k] = Counts(a, b, c, first + k)
  BY <1>5
<1> HIDE DEF w
<1>7. Kinds = {1, 2, 3, 4}
  BY DEF Kinds
<1>8. \A d : /\ Counts(a, b, c, d)[1] = a /\ Counts(a, b, c, d)[2] = b
             /\ Counts(a, b, c, d)[3] = c /\ Counts(a, b, c, d)[4] = d
  BY <1>7 DEF Counts
<1>9. ASSUME NEW k \in 1 .. Cols
      PROVE  \E kind \in Kinds : /\ p[k] = Instr(kind, w[k - 1][kind]) /\ InOrder(kind, w[k - 1])
                                 /\ w[k] = [w[k - 1] EXCEPT ![kind] = @ + 1]
  <2>1. /\ k - 1 \in 0 .. Cols /\ k \in 0 .. Cols /\ first + k = first + (k - 1) + 1
        /\ first + (k - 1) \in Nat
    BY <1>1
  <2> DEFINE u == w[k - 1]
             v == w[k]
  <2>2. /\ u \in [Kinds -> Nat] /\ v \in [Kinds -> Nat]
        /\ u = Counts(a, b, c, first + (k - 1)) /\ v = Counts(a, b, c, first + k)
    BY <1>6, <2>1
  <2> HIDE DEF u, v
  <2>3. /\ u[1] = a /\ u[2] = b /\ u[3] = c /\ u[4] = first + (k - 1)
        /\ v[1] = a /\ v[2] = b /\ v[3] = c /\ v[4] = first + k
    BY <1>8, <2>2
  <2>4. \A other \in Kinds : v[other] = IF other = 4 THEN u[4] + 1 ELSE u[other]
    BY <1>7, <2>1, <2>3
  <2>5. v = [u EXCEPT ![4] = @ + 1]
    BY <2>2, <2>4
  <2>6. 4 \in Kinds
    BY <1>7
  <2>7. p[k] = Instr(4, u[4])
    BY <1>4, <2>3
  <2>8. InOrder(4, u)
    BY DEF InOrder
  <2> QED BY <2>5, <2>6, <2>7, <2>8 DEF u, v
<1> DEFINE from == Counts(a, b, c, first)
           to == Counts(a, b, c, first + Cols)
<1>10. /\ from[1] = a /\ from[2] = b /\ from[3] = c /\ from[4] = first
       /\ to[1] = a /\ to[2] = b /\ to[3] = c /\ to[4] = first + Cols
  BY <1>8
<1>11. w[0] = from /\ w[Cols] = to
  <2>1. 0 \in 0 .. Cols /\ Cols \in 0 .. Cols /\ first + 0 = first
    BY <1>1
  <2> QED BY <1>6, <2>1
<1> HIDE DEF from, to
<1>12. ASSUME NEW k \in 0 .. Cols, NEW kind \in Kinds
       PROVE  from[kind] <= w[k][kind] /\ w[k][kind] <= to[kind]
  <2>1. /\ w[k][1] = a /\ w[k][2] = b /\ w[k][3] = c /\ w[k][4] = first + k
    BY <1>6, <1>8
  <2> QED BY <1>1, <1>7, <1>10, <2>1
<1>13. Walk(p, w, from, to)
  BY <1>4, <1>6, <1>9, <1>11, <1>12 DEF Walk
<1>14. Carries(p, from, to)
  BY <1>4, <1>13 DEF Carries
<1>15. from = Counts(a, b, c, Cols * j) /\ to = Counts(a, b, c, Cols * (j + 1))
  BY <1>1 DEF from, to, first
<1> QED BY <1>14, <1>15 DEF p

\* All instructions of a kind.
Total(kind) == Sent(AllGroups, Cols * AllGroups)[kind]

\* The whole groups are sent, and then read.
LEMMA CarriesGroups ==
    LET g == FlattenSeq([j \in 1 .. Groups |-> Group(j - 1, Cols)])
        r == FlattenSeq([j \in 1 .. Groups |-> Reads(j - 1, Cols)])
    IN  Carries(g \o r, Sent(0, 0), Sent(Groups, Cols * Groups))
<1>1. Groups \in Nat \ {0} /\ Groups <= AllGroups /\ AllGroups \in Nat /\ Cols \in Nat
  BY GroupsIs, ArrayAssumption
<1>2. \A j \in 1 .. Groups : j - 1 \in Nat /\ (j - 1) + 1 = j /\ Width(j - 1) = Cols
                             /\ j - 1 \in 0 .. AllGroups - 1
  BY <1>1 DEF Width
<1> DEFINE s == [j \in 1 .. Groups |-> Group(j - 1, Cols)]
           t == [j \in 1 .. Groups |-> Reads(j - 1, Cols)]
           sAt == [j \in 0 .. Groups |-> Sent(j, 0)]
           tAt == [j \in 0 .. Groups |-> Sent(Groups, Cols * j)]
<1>3. Carries(FlattenSeq(s), Sent(0, 0), Sent(Groups, 0))
  <2>1. \A j \in 0 .. Groups : Sent(j, 0) \in [Kinds -> Nat]
    <3>1. \A j \in 0 .. Groups : j \in Nat
      OBVIOUS
    <3> QED BY <3>1, SentIs
  <2>2. /\ sAt \in [0 .. Groups -> [Kinds -> Nat]]
        /\ \A j \in 0 .. Groups : sAt[j] = Sent(j, 0)
    BY <2>1
  <2> HIDE DEF sAt
  <2>3. ASSUME NEW j \in 1 .. Groups PROVE Carries(s[j], sAt[j - 1], sAt[j])
    <3>1. j - 1 \in 0 .. Groups /\ j \in 0 .. Groups
      BY <1>1
    <3>2. s[j] = Group(j - 1, Cols)
      OBVIOUS
    <3> DEFINE i == j - 1
    <3>3. i \in Nat /\ i + 1 = j /\ Width(i) = Cols /\ 0 <= Cols * i
      <4>1. i \in Nat /\ i + 1 = j /\ Width(i) = Cols
        BY <1>2
      <4> QED BY <1>1, <4>1
    <3> HIDE DEF i
    <3>4. Carries(Group(i, Width(i)), Sent(i, 0), Sent(i + 1, 0))
      BY <3>3, CarriesGroup
    <3> QED BY <2>2, <3>1, <3>2, <3>3, <3>4 DEF i
  <2>4. s = [j \in 1 .. Groups |-> s[j]]
    OBVIOUS
  <2> HIDE DEF s
  <2>5. Carries(FlattenSeq(s), sAt[0], sAt[Groups])
    BY <1>1, <2>2, <2>3, <2>4, CarriesFlattened
  <2>6. 0 \in 0 .. Groups /\ Groups \in 0 .. Groups
    BY <1>1
  <2> QED BY <2>2, <2>5, <2>6
<1>4. Carries(FlattenSeq(t), Sent(Groups, 0), Sent(Groups, Cols * Groups))
  <2>1. \A j \in 0 .. Groups : Cols * j \in Nat
    BY <1>1
  <2>2. \A j \in 0 .. Groups : Sent(Groups, Cols * j) \in [Kinds -> Nat]
    BY <1>1, <2>1, SentIs
  <2>3. /\ tAt \in [0 .. Groups -> [Kinds -> Nat]]
        /\ \A j \in 0 .. Groups : tAt[j] = Sent(Groups, Cols * j)
    BY <2>2
  <2> HIDE DEF tAt
  <2> DEFINE a == Rows * (NOPCount * Groups)
             b == Images * (NOPCount * Groups)
             c == Cols * (NOPCount * Groups)
  <2>4. /\ a \in Nat /\ b \in Nat /\ c \in Nat
        /\ \A read \in Nat : Sent(Groups, read) = Counts(a, b, c, read)
    <3>1. NOPCount * Groups \in Nat
      BY <1>1, CellSizes
    <3>2. a \in Nat /\ b \in Nat /\ c \in Nat
      BY <3>1, ImagesIs, ArrayAssumption
    <3> QED BY <1>1, <3>2, SentIs
  <2> HIDE DEF a, b, c
  <2>5. ASSUME NEW j \in 1 .. Groups PROVE Carries(t[j], tAt[j - 1], tAt[j])
    <3>1. j - 1 \in 0 .. Groups /\ j \in 0 .. Groups
      BY <1>1
    <3>2. t[j] = Reads(j - 1, Cols)
      OBVIOUS
    <3> DEFINE i == j - 1
    <3>3. i \in 0 .. AllGroups - 1 /\ i + 1 = j /\ Width(i) = Cols
      BY <1>2
    <3>4. tAt[i] = Sent(Groups, Cols * i) /\ tAt[j] = Sent(Groups, Cols * j)
          /\ Cols * i \in Nat /\ Cols * j \in Nat
      BY <2>1, <2>3, <3>1
    <3> HIDE DEF i
    <3>5. Carries(Reads(i, Width(i)), Counts(a, b, c, Cols * i), Counts(a, b, c, Cols * (i + 1)))
      BY <2>4, <3>3, CarriesReads
    <3>6. Carries(t[j], tAt[i], tAt[j])
      BY <2>4, <3>2, <3>3, <3>4, <3>5 DEF i
    <3> QED BY <3>6 DEF i
  <2>6. t = [j \in 1 .. Groups |-> t[j]]
    OBVIOUS
  <2> HIDE DEF t
  <2>7. Carries(FlattenSeq(t), tAt[0], tAt[Groups])
    BY <1>1, <2>3, <2>5, <2>6, CarriesFlattened
  <2>8. 0 \in 0 .. Groups /\ Groups \in 0 .. Groups /\ Cols * 0 = 0
    BY <1>1
  <2> QED BY <2>3, <2>7, <2>8
<1> HIDE DEF s, t
<1>5. Carries(FlattenSeq(s) \o FlattenSeq(t), Sent(0, 0), Sent(Groups, Cols * Groups))
  BY <1>3, <1>4, CarriesJoined
<1> QED BY <1>5 DEF s, t

\* The narrow group, if there is one.
LEMMA CarriesEdge ==
    Carries(IF Edge = 0 THEN << >> ELSE Group(Groups, Edge) \o Reads(Groups, Edge),
            Sent(Groups, Cols * Groups), Sent(AllGroups, Cols * AllGroups))
<1>1. Groups \in Nat \ {0} /\ Cols * Groups \in Nat /\ NOPCount * (Groups + 1) \in Nat
  BY GroupsIs, ArrayAssumption, CellSizes
<1>2. CASE Edge = 0
  <2>1. AllGroups = Groups
    BY <1>2 DEF AllGroups
  <2>2. Sent(Groups, Cols * Groups) \in [Kinds -> Nat]
    BY <1>1, SentIs
  <2> QED BY <1>2, <2>1, <2>2, CarriesNone
<1>3. CASE Edge # 0
  <2>1. AllGroups = Groups + 1 /\ Width(Groups) = Edge /\ Groups \in 0 .. AllGroups - 1
        /\ Cols * (Groups + 1) \in Nat /\ Groups + 1 \in Nat
    BY <1>1, <1>3, GroupsIs, ArrayAssumption DEF AllGroups, Width
  <2>2. Carries(Group(Groups, Edge), Sent(Groups, Cols * Groups), Sent(Groups + 1, Cols * Groups))
    BY <1>1, <2>1, CarriesGroup
  <2> DEFINE a == Rows * (NOPCount * (Groups + 1))
             b == Images * (NOPCount * (Groups + 1))
             c == Cols * (NOPCount * (Groups + 1))
  <2>3. /\ a \in Nat /\ b \in Nat /\ c \in Nat
        /\ \A read \in Nat : Sent(Groups + 1, read) = Counts(a, b, c, read)
    <3>1. a \in Nat /\ b \in Nat /\ c \in Nat
      BY <1>1, ImagesIs, ArrayAssumption
    <3> QED BY <2>1, <3>1, SentIs
  <2> HIDE DEF a, b, c
  <2>4. Carries(Reads(Groups, Edge), Counts(a, b, c, Cols * Groups),
                Counts(a, b, c, Cols * (Groups + 1)))
    BY <2>1, <2>3, CarriesReads
  <2>5. Carries(Reads(Groups, Edge), Sent(Groups + 1, Cols * Groups),
                Sent(Groups + 1, Cols * (Groups + 1)))
    BY <1>1, <2>1, <2>3, <2>4
  <2> QED BY <1>3, <2>1, <2>2, <2>5, CarriesJoined
<1> QED BY <1>2, <1>3

\* The program is a walk from nothing to all of the four streams.  It sends
\* the words of the groups that are full before it reads any sum, and reads
\* the sums of these before it sends a word of the edge.
LEMMA ProgramWalks ==
    /\ IsQueue(Program)
    /\ \E w : /\ Walk(Program, w, Sent(0, 0), Sent(AllGroups, Cols * AllGroups))
              /\ \A x \in 0 .. Len(Program) :
                    \/ w[x][3] <= Cols * (NOPCount * Groups)
                    \/ w[x][4] >= Cols * Groups
<1> DEFINE p == FlattenSeq([j \in 1 .. Groups |-> Group(j - 1, Cols)])
                  \o FlattenSeq([j \in 1 .. Groups |-> Reads(j - 1, Cols)])
           q == IF Edge = 0 THEN << >> ELSE Group(Groups, Edge) \o Reads(Groups, Edge)
           middle == Sent(Groups, Cols * Groups)
           from == Sent(0, 0)
           to == Sent(AllGroups, Cols * AllGroups)
<1>1. Program = p \o q
  BY DEF Program
<1>2. Carries(p, from, middle)
  BY CarriesGroups
<1>3. Carries(q, middle, to)
  BY CarriesEdge
<1>4. middle[3] = Cols * (NOPCount * Groups) /\ middle[4] = Cols * Groups
  <2>1. Groups \in Nat /\ Cols * Groups \in Nat
    BY GroupsIs, ArrayAssumption
  <2>2. middle = Counts(Rows * (NOPCount * Groups), Images * (NOPCount * Groups),
                        Cols * (NOPCount * Groups), Cols * Groups)
    BY <2>1, SentIs
  <2> QED BY <2>2 DEF Counts, Kinds
<1> HIDE DEF p, q, middle, from, to
<1>5. /\ IsQueue(p \o q)
      /\ \E w : /\ Walk(p \o q, w, from, to)
                /\ \A x \in 0 .. Len(p \o q) :
                      \/ \A kind \in Kinds : w[x][kind] <= middle[kind]
                      \/ \A kind \in Kinds : w[x][kind] >= middle[kind]
  BY <1>2, <1>3, Joined
<1>6. 3 \in Kinds /\ 4 \in Kinds
  BY DEF Kinds
<1>7. PICK w : /\ Walk(p \o q, w, from, to)
               /\ \A x \in 0 .. Len(p \o q) :
                     \/ \A kind \in Kinds : w[x][kind] <= middle[kind]
                     \/ \A kind \in Kinds : w[x][kind] >= middle[kind]
  BY <1>5
<1>8. \A x \in 0 .. Len(p \o q) : \/ w[x][3] <= middle[3] \/ w[x][4] >= middle[4]
  BY <1>6, <1>7
<1> QED BY <1>1, <1>4, <1>5, <1>7, <1>8 DEF from, to

-----------------------------------------------------------------------------
(* How many instructions of a kind come before one of the program. *)

Here == 1 .. Len(Program) + 1

\* Every instruction is the next of its stream; before the narrow group is sent,
\* all sums of the whole groups are read.
LEMMA BeforeIs ==
    /\ Len(Program) \in Nat
    /\ \A kind \in Kinds :
          /\ \A x \in Here : Before(kind, x) \in Nat /\ Before(kind, x) <= Total(kind)
          /\ Before(kind, 1) = 0
          /\ Before(kind, Len(Program) + 1) = Total(kind)
    /\ \A x \in 1 .. Len(Program) : \E kind \in Kinds :
          /\ Program[x] = Instr(kind, Before(kind, x))
          /\ InOrder(kind, [some \in Kinds |-> Before(some, x)])
          /\ \A other \in Kinds :
                Before(other, x + 1) = Before(other, x) + (IF other = kind THEN 1 ELSE 0)
    /\ \A x \in Here : \/ Before(3, x) <= Cols * (NOPCount * Groups)
                       \/ Before(4, x) >= Cols * Groups
<1> DEFINE from == Sent(0, 0)
           to == Sent(AllGroups, Cols * AllGroups)
           last == Len(Program)
<1>1. last \in Nat
  BY ProgramWalks, QueueIs
<1>2. PICK w : /\ Walk(Program, w, from, to)
               /\ \A x \in 0 .. last : \/ w[x][3] <= Cols * (NOPCount * Groups)
                                       \/ w[x][4] >= Cols * Groups
  BY ProgramWalks
<1>3. \A kind \in Kinds : from[kind] = 0
  <2>1. from = Counts(Rows * (NOPCount * 0), Images * (NOPCount * 0), Cols * (NOPCount * 0), 0)
    BY SentIs
  <2>2. Rows * (NOPCount * 0) = 0 /\ Images * (NOPCount * 0) = 0 /\ Cols * (NOPCount * 0) = 0
    BY CellSizes, ImagesIs, ArrayAssumption
  <2> QED BY <2>1, <2>2 DEF Counts, Kinds
<1>4. \A kind \in Kinds : to[kind] = Total(kind)
  BY DEF Total
<1> HIDE DEF from, to, last
<1>5. /\ w \in [0 .. last -> [Kinds -> Nat]] /\ w[0] = from /\ w[last] = to
      /\ \A x \in 0 .. last, kind \in Kinds : w[x][kind] \in Nat /\ w[x][kind] <= to[kind]
  <2>1. w \in [0 .. last -> [Kinds -> Nat]] /\ w[0] = from /\ w[last] = to
    BY <1>2 DEF Walk, last
  <2>2. \A x \in 0 .. last, kind \in Kinds : w[x][kind] <= to[kind]
    BY <1>2 DEF Walk, last
  <2>3. \A x \in 0 .. last : w[x] \in [Kinds -> Nat]
    BY <2>1
  <2> QED BY <2>1, <2>2, <2>3
<1>6. ASSUME NEW x \in 1 .. last
      PROVE  \E kind \in Kinds :
                /\ Program[x] = Instr(kind, w[x - 1][kind]) /\ Program[x].n = kind
                /\ InOrder(kind, w[x - 1])
                /\ \A other \in Kinds :
                      w[x][other] = w[x - 1][other] + (IF other = kind THEN 1 ELSE 0)
  <2>1. PICK kind \in Kinds : /\ Program[x] = Instr(kind, w[x - 1][kind]) /\ InOrder(kind, w[x - 1])
                              /\ w[x] = [w[x - 1] EXCEPT ![kind] = @ + 1]
    BY <1>2 DEF Walk, last
  <2>2. Program[x].n = kind
    BY <2>1 DEF Instr
  <2>3. x - 1 \in 0 .. last
    BY <1>1
  <2> DEFINE u == w[x - 1]
             v == w[x]
  <2>4. u \in [Kinds -> Nat] /\ v = [u EXCEPT ![kind] = u[kind] + 1]
    BY <1>5, <2>1, <2>3
  <2> HIDE DEF u, v
  <2>5. \A other \in Kinds : v[other] = u[other] + (IF other = kind THEN 1 ELSE 0)
    BY <2>4
  <2> QED BY <2>1, <2>2, <2>5 DEF u, v
<1> DEFINE S(kind, x) == {y \in 1 .. x : Program[y].n = kind}
<1>7. ASSUME NEW kind \in Kinds, NEW x \in 0 .. last
      PROVE  IsFiniteSet(S(kind, x)) /\ Cardinality(S(kind, x)) = w[x][kind]
  <2> DEFINE Q == {q \in Nat : q <= last => /\ IsFiniteSet(S(kind, q))
                                            /\ Cardinality(S(kind, q)) = w[q][kind]}
  <2>1. 0 \in Q
    <3>1. S(kind, 0) = {}
      OBVIOUS
    <3>2. IsFiniteSet({}) /\ Cardinality({}) = 0
      BY FS_EmptySet
    <3>3. w[0][kind] = 0
      BY <1>3, <1>5
    <3> HIDE DEF S
    <3> QED BY <3>1, <3>2, <3>3
  <2>2. ASSUME NEW q \in Nat, q \in Q PROVE q + 1 \in Q
    <3> SUFFICES ASSUME q + 1 <= last
                 PROVE  /\ IsFiniteSet(S(kind, q + 1))
                        /\ Cardinality(S(kind, q + 1)) = w[q + 1][kind]
      OBVIOUS
    <3>1. IsFiniteSet(S(kind, q)) /\ Cardinality(S(kind, q)) = w[q][kind]
      BY <1>1, <2>2
    <3>2. q + 1 \in 1 .. last /\ q \in 0 .. last /\ (q + 1) - 1 = q
      BY <1>1
    <3>3. PICK k \in Kinds :
                /\ Program[q + 1].n = k
                /\ \A other \in Kinds :
                      w[q + 1][other] = w[q][other] + (IF other = k THEN 1 ELSE 0)
      BY <1>6, <3>2
    <3>4. w[q][kind] \in Nat
      BY <1>5, <3>2
    <3>5. CASE k = kind
      <4>1. S(kind, q + 1) = S(kind, q) \cup {q + 1} /\ q + 1 \notin S(kind, q)
        BY <3>3, <3>5
      <4> HIDE DEF S
      <4>2. /\ IsFiniteSet(S(kind, q) \cup {q + 1})
            /\ Cardinality(S(kind, q) \cup {q + 1}) = Cardinality(S(kind, q)) + 1
        BY <3>1, <4>1, FS_AddElement
      <4> QED BY <3>1, <3>3, <3>4, <3>5, <4>1, <4>2
    <3>6. CASE k # kind
      <4>1. S(kind, q + 1) = S(kind, q)
        BY <3>3, <3>6
      <4> HIDE DEF S
      <4> QED BY <3>1, <3>3, <3>4, <3>6, <4>1
    <3> QED BY <3>5, <3>6
  <2> HIDE DEF Q
  <2>3. Nat \subseteq Q
    BY <2>1, <2>2, Induction
  <2>4. x \in Q /\ x <= last
    BY <1>1, <2>3
  <2> HIDE DEF S
  <2> QED BY <2>4 DEF Q
<1>8. \A kind \in Kinds, x \in Here : Before(kind, x) = w[x - 1][kind] /\ x - 1 \in 0 .. last
  <2> SUFFICES ASSUME NEW kind \in Kinds, NEW x \in Here
               PROVE  Before(kind, x) = w[x - 1][kind] /\ x - 1 \in 0 .. last
    OBVIOUS
  <2>1. x - 1 \in 0 .. last
    BY <1>1 DEF Here, last
  <2> QED BY <1>7, <2>1 DEF Before
<1> HIDE DEF S
<1>9. ASSUME NEW kind \in Kinds
      PROVE  /\ \A x \in Here : Before(kind, x) \in Nat /\ Before(kind, x) <= Total(kind)
             /\ Before(kind, 1) = 0 /\ Before(kind, last + 1) = Total(kind)
  <2>1. \A x \in Here : Before(kind, x) \in Nat /\ Before(kind, x) <= Total(kind)
    BY <1>4, <1>5, <1>8
  <2>2. 1 \in Here /\ last + 1 \in Here /\ 1 - 1 = 0 /\ (last + 1) - 1 = last
    BY <1>1 DEF Here, last
  <2>3. Before(kind, 1) = 0
    BY <1>3, <1>5, <1>8, <2>2
  <2>4. Before(kind, last + 1) = Total(kind)
    BY <1>4, <1>5, <1>8, <2>2
  <2> QED BY <2>1, <2>3, <2>4
<1>10. ASSUME NEW x \in 1 .. last
       PROVE  \E kind \in Kinds :
                /\ Program[x] = Instr(kind, Before(kind, x))
                /\ InOrder(kind, [some \in Kinds |-> Before(some, x)])
                /\ \A other \in Kinds :
                      Before(other, x + 1) = Before(other, x) + (IF other = kind THEN 1 ELSE 0)
  <2>1. x \in Here /\ x + 1 \in Here /\ (x + 1) - 1 = x
    BY <1>1 DEF Here, last
  <2>2. PICK kind \in Kinds :
                /\ Program[x] = Instr(kind, w[x - 1][kind]) /\ InOrder(kind, w[x - 1])
                /\ \A other \in Kinds :
                      w[x][other] = w[x - 1][other] + (IF other = kind THEN 1 ELSE 0)
    BY <1>6
  <2>3. \A other \in Kinds : Before(other, x) = w[x - 1][other] /\ Before(other, x + 1) = w[x][other]
    BY <1>8, <2>1
  <2>4. w[x - 1] \in [Kinds -> Nat]
    BY <1>5, <1>8, <2>1
  <2>5. [some \in Kinds |-> Before(some, x)] = w[x - 1]
    BY <2>3, <2>4
  <2> QED BY <2>2, <2>3, <2>5
<1>11. ASSUME NEW x \in Here
       PROVE  Before(3, x) <= Cols * (NOPCount * Groups) \/ Before(4, x) >= Cols * Groups
  <2>1. 3 \in Kinds /\ 4 \in Kinds
    BY DEF Kinds
  <2> QED BY <1>2, <1>8, <2>1
<1> QED BY <1>1, <1>9, <1>10, <1>11 DEF last

-----------------------------------------------------------------------------
(* What a clock does to the numbers of words in a cell and an accumulator. *)

One(fact) == IF fact THEN 1 ELSE 0

SideOK(side) == IsQueue(side.P) /\ IsQueue(side.M)

CellOK(cell) ==
    /\ SideOK(cell.W) /\ SideOK(cell.I) /\ IsQueue(cell.O)
    /\ IsPipe(cell.MAC, MAC_Stages)

SumOK(a) ==
    /\ IsQueue(a.Ready) /\ IsQueue(a.Out)
    /\ IsPipe(a.Sums, ADD_Stages)
    /\ a.Counter \in 0 .. NOPCount - 1

\* What a buffer takes of the wire it is offered.
Taken(side, offer) == IF DataInRdy(side) THEN offer ELSE Nothing
O_Taken(cell, offer) == IF O_DataInRdy(cell) THEN offer ELSE Nothing
ACC_Taken(a, offer) == IF ACC_DataInRdy(a) THEN offer ELSE Nothing

\* A wire may carry nothing.
LEMMA NothingIs == IsWire(Nothing) /\ Len(Nothing) = 0
<1>1. IsWire(Nothing)
  BY DEF IsWire
<1> QED BY <1>1, WireIs

\* A buffer takes what it is offered or nothing.
LEMMA TakenIs ==
    ASSUME NEW offer, IsWire(offer)
    PROVE  /\ \A side : IsWire(Taken(side, offer)) /\ Len(Taken(side, offer)) \in 0 .. Len(offer)
           /\ \A cell : IsWire(O_Taken(cell, offer)) /\ Len(O_Taken(cell, offer)) \in 0 .. Len(offer)
           /\ \A a : IsWire(ACC_Taken(a, offer)) /\ Len(ACC_Taken(a, offer)) \in 0 .. Len(offer)
BY NothingIs, WireIs DEF Taken, O_Taken, ACC_Taken

\* The length of a queue after a clock.
LEMMA QueueStep ==
    ASSUME NEW q, IsQueue(q), NEW offer, IsWire(offer), NEW pop \in BOOLEAN, pop => q # << >>
    PROVE  IsQueue(Step(q, offer, pop)) /\ Len(Step(q, offer, pop)) = Len(q) - One(pop) + Len(offer)
BY StepIs DEF One

\* A weight or image word goes to both buffers or to none.
LEMMA SideStep ==
    ASSUME NEW side, SideOK(side), NEW offer, IsWire(offer), NEW rdy \in BOOLEAN,
           NEW mac \in BOOLEAN, mac => side.M # << >>
    PROVE  LET after == SideClock(side, offer, rdy, mac)
           IN  /\ SideOK(after)
               /\ Len(after.P) = Len(side.P) - One(side.P # << >> /\ rdy) + Len(Taken(side, offer))
               /\ Len(after.M) = Len(side.M) - One(mac) + Len(Taken(side, offer))
<1> DEFINE taken == Taken(side, offer)
           pop == side.P # << >> /\ rdy
           p == Step(side.P, taken, pop)
           m == Step(side.M, taken, mac)
           after == SideClock(side, offer, rdy, mac)
<1>1. after.P = p /\ after.M = m
  BY DEF SideClock, Taken
<1>2. IsWire(taken)
  BY TakenIs
<1>3. pop \in BOOLEAN /\ (pop => side.P # << >>)
  OBVIOUS
<1> HIDE DEF taken, pop
<1>4. IsQueue(p) /\ Len(p) = Len(side.P) - One(pop) + Len(taken)
  BY <1>2, <1>3, QueueStep DEF SideOK
<1>5. IsQueue(m) /\ Len(m) = Len(side.M) - One(mac) + Len(taken)
  BY <1>2, QueueStep DEF SideOK
<1> HIDE DEF p, m, after
<1>6. SideOK(after)
  BY <1>1, <1>4, <1>5 DEF SideOK
<1> QED BY <1>1, <1>4, <1>5, <1>6 DEF taken, pop, after

\* A multiplication takes a word of each of three buffers.
LEMMA CellStep ==
    ASSUME NEW cell, CellOK(cell), NEW in, IsWire(in.W), IsWire(in.I), IsWire(in.O),
           in.WRdy \in BOOLEAN, in.IRdy \in BOOLEAN, in.ORdy \in BOOLEAN
    PROVE  LET after == PEClock(cell, in)
               mac == One(Issue(cell, in.ORdy))
           IN  /\ CellOK(after)
               /\ Len(after.W.P) = Len(cell.W.P) - One(cell.W.P # << >> /\ in.WRdy)
                                     + Len(Taken(cell.W, in.W))
               /\ Len(after.W.M) = Len(cell.W.M) - mac + Len(Taken(cell.W, in.W))
               /\ Len(after.I.P) = Len(cell.I.P) - One(cell.I.P # << >> /\ in.IRdy)
                                     + Len(Taken(cell.I, in.I))
               /\ Len(after.I.M) = Len(cell.I.M) - mac + Len(Taken(cell.I, in.I))
               /\ Len(after.O) = Len(cell.O) - mac + Len(O_Taken(cell, in.O))
               /\ Held(after.MAC) = Held(cell.MAC) - Len(O_DataOut(cell)) + mac
<1> DEFINE issue == Issue(cell, in.ORdy)
           res == IF issue THEN MACResult(cell) ELSE Nothing
           wa == SideClock(cell.W, in.W, in.WRdy, issue)
           ia == SideClock(cell.I, in.I, in.IRdy, issue)
           oa == Step(cell.O, O_Taken(cell, in.O), issue)
           ma == Shifted(cell.MAC, res)
           after == PEClock(cell, in)
<1>1. after.W = wa /\ after.I = ia /\ after.O = oa /\ after.MAC = ma
  BY DEF PEClock, O_Taken
<1>2. /\ issue \in BOOLEAN
      /\ issue => cell.W.M # << >> /\ cell.I.M # << >> /\ cell.O # << >>
  BY DEF Issue
<1>3. IsWire(res) /\ Len(res) = One(issue)
  <2>1. IsWire(MACResult(cell)) /\ MACResult(cell) # Nothing
    BY DEF MACResult, IsWire, Nothing
  <2>2. Len(MACResult(cell)) = 1
    BY <2>1, WireIs
  <2> HIDE DEF issue
  <2> QED BY <1>2, <2>1, <2>2, NothingIs DEF One
<1> HIDE DEF issue, res
<1>4. /\ SideOK(wa)
      /\ Len(wa.P) = Len(cell.W.P) - One(cell.W.P # << >> /\ in.WRdy) + Len(Taken(cell.W, in.W))
      /\ Len(wa.M) = Len(cell.W.M) - One(issue) + Len(Taken(cell.W, in.W))
  <2> DEFINE side == cell.W
             offer == in.W
             rdy == in.WRdy
  <2>1. SideOK(side) /\ IsWire(offer) /\ rdy \in BOOLEAN /\ (issue => side.M # << >>)
    BY <1>2 DEF CellOK
  <2> HIDE DEF side, offer, rdy
  <2>2. /\ SideOK(SideClock(side, offer, rdy, issue))
        /\ Len(SideClock(side, offer, rdy, issue).P) =
              Len(side.P) - One(side.P # << >> /\ rdy) + Len(Taken(side, offer))
        /\ Len(SideClock(side, offer, rdy, issue).M) =
              Len(side.M) - One(issue) + Len(Taken(side, offer))
    BY <1>2, <2>1, SideStep
  <2> QED BY <2>2, Zenon DEF side, offer, rdy
<1>5. /\ SideOK(ia)
      /\ Len(ia.P) = Len(cell.I.P) - One(cell.I.P # << >> /\ in.IRdy) + Len(Taken(cell.I, in.I))
      /\ Len(ia.M) = Len(cell.I.M) - One(issue) + Len(Taken(cell.I, in.I))
  <2> DEFINE side == cell.I
             offer == in.I
             rdy == in.IRdy
  <2>1. SideOK(side) /\ IsWire(offer) /\ rdy \in BOOLEAN /\ (issue => side.M # << >>)
    BY <1>2 DEF CellOK
  <2> HIDE DEF side, offer, rdy
  <2>2. /\ SideOK(SideClock(side, offer, rdy, issue))
        /\ Len(SideClock(side, offer, rdy, issue).P) =
              Len(side.P) - One(side.P # << >> /\ rdy) + Len(Taken(side, offer))
        /\ Len(SideClock(side, offer, rdy, issue).M) =
              Len(side.M) - One(issue) + Len(Taken(side, offer))
    BY <1>2, <2>1, SideStep
  <2> QED BY <2>2, Zenon DEF side, offer, rdy
<1>6. IsQueue(oa) /\ Len(oa) = Len(cell.O) - One(issue) + Len(O_Taken(cell, in.O))
  <2>1. IsWire(O_Taken(cell, in.O))
    BY TakenIs
  <2> QED BY <1>2, <2>1, QueueStep DEF CellOK
<1>7. IsPipe(ma, MAC_Stages) /\ Held(ma) = Held(cell.MAC) - Len(O_DataOut(cell)) + One(issue)
  <2>1. IsPipe(cell.MAC, MAC_Stages) /\ MAC_Stages \in Nat \ {0}
    BY CellSizes DEF CellOK
  <2>2. Len(Exit(cell.MAC)) = IF Exit(cell.MAC) # Nothing THEN 1 ELSE 0
    BY <2>1, PipeLen, WireIs
  <2> QED BY <1>3, <2>1, <2>2, ShiftedIs, PipeStep DEF O_DataOut
<1> HIDE DEF after, wa, ia, oa, ma
<1>8. CellOK(after)
  BY <1>1, <1>4, <1>5, <1>6, <1>7 DEF CellOK
<1> QED BY <1>1, <1>4, <1>5, <1>6, <1>7, <1>8 DEF after, issue

\* The words an accumulator has taken and that have not left it in a sum.
Load(a) == Len(a.Ready) + a.Counter + NOPCount * (Held(a.Sums) + Len(a.Out))

\* An accumulator neither loses nor makes a word: a sum counts for NOPCount of them.
LEMMA SumStep ==
    ASSUME NEW a, SumOK(a), NEW offer, IsWire(offer), NEW rdy \in BOOLEAN
    PROVE  LET after == ACCClock(a, offer, rdy)
           IN  /\ SumOK(after)
               /\ Load(after) = Load(a) + Len(ACC_Taken(a, offer))
                                    - NOPCount * One(ACC_DataOutValid(a) /\ rdy)
<1> DEFINE add  == a.Ready # << >> /\ ~a.Busy
           last == add /\ LastOfGroup(a)
           sum  == IF add
                   THEN <<FPADD(Head(a.Ready), IF a.Counter = 0 THEN Zero ELSE a.Acc)>>
                   ELSE Nothing
           in == IF last THEN sum ELSE Nothing
           pop == ACC_DataOutValid(a) /\ rdy
           leaves == Exit(a.Sums)
           after == ACCClock(a, offer, rdy)
           ra == Step(a.Ready, ACC_Taken(a, offer), add)
           oa == Step(a.Out, leaves, pop)
           sa == Shifted(a.Sums, in)
<1>1. /\ after.Ready = ra /\ after.Out = oa /\ after.Sums = sa
      /\ after.Counter = IF last THEN 0 ELSE IF add THEN a.Counter + 1 ELSE a.Counter
  BY DEF ACCClock, ACC_Taken
<1>2. /\ add \in BOOLEAN /\ last \in BOOLEAN /\ pop \in BOOLEAN
      /\ add => a.Ready # << >>
      /\ last => add /\ a.Counter = NOPCount - 1
      /\ add /\ ~last => a.Counter # NOPCount - 1
      /\ pop => a.Out # << >>
  BY DEF LastOfGroup, ACC_DataOutValid
<1>3. IsWire(in) /\ Len(in) = One(last)
  <2> DEFINE full == <<FPADD(Head(a.Ready), IF a.Counter = 0 THEN Zero ELSE a.Acc)>>
  <2>1. IsWire(full) /\ full # Nothing
    BY DEF IsWire, Nothing
  <2>2. Len(full) = 1
    BY <2>1, WireIs
  <2>3. last => in = full
    BY <1>2
  <2>4. ~last => in = Nothing
    OBVIOUS
  <2> HIDE DEF full, in, last
  <2> QED BY <1>2, <2>1, <2>2, <2>3, <2>4, NothingIs DEF One
<1>4. /\ IsPipe(a.Sums, ADD_Stages) /\ ADD_Stages \in Nat \ {0} /\ IsWire(leaves)
      /\ Len(leaves) = IF leaves # Nothing THEN 1 ELSE 0
  BY CellSizes, PipeLen, WireIs DEF SumOK
<1> HIDE DEF add, last, in, pop, leaves
<1>5. IsQueue(ra) /\ Len(ra) = Len(a.Ready) - One(add) + Len(ACC_Taken(a, offer))
  <2>1. IsWire(ACC_Taken(a, offer))
    BY TakenIs
  <2> QED BY <1>2, <2>1, QueueStep DEF SumOK
<1>6. IsQueue(oa) /\ Len(oa) = Len(a.Out) - One(pop) + Len(leaves)
  BY <1>2, <1>4, QueueStep DEF SumOK
<1>7. IsPipe(sa, ADD_Stages) /\ Held(sa) = Held(a.Sums) - Len(leaves) + One(last)
  BY <1>3, <1>4, ShiftedIs, PipeStep DEF leaves
<1> HIDE DEF after, ra, oa, sa
<1>8. /\ a.Counter \in 0 .. NOPCount - 1 /\ NOPCount \in Nat \ {0}
      /\ after.Counter \in 0 .. NOPCount - 1
      /\ after.Counter + NOPCount * One(last) = a.Counter + One(add)
  <2>1. a.Counter \in 0 .. NOPCount - 1 /\ NOPCount \in Nat \ {0}
    BY CellSizes DEF SumOK
  <2>2. NOPCount * 1 = NOPCount /\ NOPCount * 0 = 0
    BY <2>1
  <2>3. CASE last
    BY <1>1, <1>2, <2>1, <2>2, <2>3 DEF One
  <2>4. CASE ~last
    BY <1>1, <1>2, <2>1, <2>2, <2>4 DEF One
  <2> QED BY <2>1, <2>3, <2>4
<1>9. SumOK(after)
  BY <1>1, <1>5, <1>6, <1>7, <1>8 DEF SumOK
<1> DEFINE nadd == One(add)
           nlast == One(last)
           npop == One(pop)
           h == Held(a.Sums) + Len(a.Out)
           g == Held(sa) + Len(oa)
           ready == Len(a.Ready)
           taken == Len(ACC_Taken(a, offer))
<1>10. /\ ready \in Nat /\ h \in Nat /\ taken \in Nat
       /\ nadd \in Nat /\ npop \in Nat /\ nlast \in Nat
       /\ g = h + nlast - npop
  <2>1. ready \in Nat /\ Len(a.Out) \in Nat /\ Held(a.Sums) \in Nat
    BY <1>4, QueueIs, FullIs DEF SumOK
  <2>2. taken \in Nat /\ Len(leaves) \in Nat
    BY <1>4, TakenIs, WireIs
  <2>3. nadd \in Nat /\ npop \in Nat /\ nlast \in Nat
    BY <1>2 DEF One
  <2>4. Held(sa) = Held(a.Sums) - Len(leaves) + nlast /\ Len(oa) = Len(a.Out) - npop + Len(leaves)
    BY <1>6, <1>7
  <2> HIDE DEF nadd, nlast, npop
  <2> QED BY <2>1, <2>2, <2>3, <2>4
<1>11. /\ Len(ra) = ready - nadd + taken
       /\ after.Counter + NOPCount * nlast = a.Counter + nadd
       /\ Load(after) = Len(ra) + after.Counter + NOPCount * g
       /\ Load(a) = ready + a.Counter + NOPCount * h
  BY <1>1, <1>5, <1>8 DEF Load
<1>12. Load(after) = Load(a) + taken - NOPCount * npop
  <2> HIDE DEF nadd, nlast, npop, h, g, ready, taken
  <2>1. NOPCount * g = NOPCount * h + NOPCount * nlast - NOPCount * npop
    BY <1>8, <1>10
  <2>2. /\ NOPCount * g \in Int /\ NOPCount * h \in Int /\ NOPCount * nlast \in Int
        /\ NOPCount * npop \in Int /\ after.Counter \in Int /\ a.Counter \in Int
    BY <1>8, <1>10
  <2> DEFINE ng == NOPCount * g
             nh == NOPCount * h
             nl == NOPCount * nlast
             np == NOPCount * npop
  <2>3. /\ ng = nh + nl - np /\ ng \in Int /\ nh \in Int /\ nl \in Int /\ np \in Int
        /\ after.Counter + nl = a.Counter + nadd
        /\ Load(after) = Len(ra) + after.Counter + ng
        /\ Load(a) = ready + a.Counter + nh
    BY <1>11, <2>1, <2>2
  <2> HIDE DEF ng, nh, nl, np
  <2>4. after.Counter \in Int /\ a.Counter \in Int /\ Len(ra) = ready - nadd + taken
    BY <1>11, <2>2
  <2>5. Load(after) = Load(a) + taken - np
    <3> DEFINE c == a.Counter
               d == after.Counter
    <3>1. c \in Int /\ d \in Int /\ d + nl = c + nadd
      BY <2>3, <2>4
    <3>2. Load(a) = ready + c + nh
      BY <2>3
    <3>3. Load(after) = (ready - nadd + taken) + d + (nh + nl - np)
      BY <2>3, <2>4
    <3> HIDE DEF c, d
    <3>4. ready \in Int /\ nadd \in Int /\ taken \in Int /\ nh \in Int /\ nl \in Int /\ np \in Int
      BY <1>10, <2>3
    <3> QED BY ONLY <3>1, <3>2, <3>3, <3>4
  <2> QED BY <2>5 DEF np
<1> QED BY <1>9, <1>12 DEF after, pop, taken, npop

-----------------------------------------------------------------------------
(* How many of the first q words, dealt out to n receivers, number r has got. *)

Share(q, n, r) == q \div n + One(q % n > r)

\* Word q goes to receiver q % n, and no other gets one.
LEMMA ShareStep ==
    ASSUME NEW q \in Nat, NEW n \in Nat \ {0}, NEW r \in 0 .. n - 1
    PROVE  /\ Share(q, n, r) \in Nat
           /\ Share(q + 1, n, r) = Share(q, n, r) + One(q % n = r)
           /\ (q + 1) % n = ((q % n) + 1) % n
<1> DEFINE a == q \div n
           t == q % n
<1>1. a \in Nat /\ t \in 0 .. n - 1 /\ q = a * n + t
  BY DivMod
<1>2. q = n * a + t
  BY <1>1
<1> HIDE DEF a, t
<1>3. CASE t + 1 < n
  <2>1. q + 1 = n * a + (t + 1) /\ t + 1 \in 0 .. n - 1 /\ q + 1 \in Nat /\ a \in Int
    BY <1>1, <1>2, <1>3
  <2>2. (q + 1) \div n = a /\ (q + 1) % n = t + 1
    BY <2>1, QuotientIs
  <2>3. 0 \in Nat /\ t + 1 \in Nat /\ t + 1 = n * 0 + (t + 1)
    BY <1>1
  <2>4. (t + 1) % n = t + 1
    BY <2>1, <2>3, QuotientIs
  <2> QED BY <1>1, <1>3, <2>2, <2>4 DEF Share, One, a, t
<1>4. CASE t = n - 1
  <2>1. q + 1 = n * (a + 1) + 0 /\ 0 \in 0 .. n - 1 /\ q + 1 \in Nat /\ a + 1 \in Int
    BY <1>1, <1>2, <1>4
  <2>2. (q + 1) \div n = a + 1 /\ (q + 1) % n = 0
    BY <2>1, QuotientIs
  <2>3. t + 1 = n * 1 + 0 /\ t + 1 \in Nat
    BY <1>1, <1>4
  <2>4. (t + 1) % n = 0
    BY <2>1, <2>3, QuotientIs
  <2> QED BY <1>1, <1>4, <2>2, <2>4 DEF Share, One, a, t
<1> QED BY <1>1, <1>3, <1>4

\* At first nobody has got a word.
LEMMA ShareNone ==
    ASSUME NEW n \in Nat \ {0}, NEW r \in 0 .. n - 1
    PROVE  Share(0, n, r) = 0 /\ 0 % n = 0
<1>1. 0 = n * 0 + 0 /\ 0 \in 0 .. n - 1 /\ 0 \in Nat
  OBVIOUS
<1>2. 0 \div n = 0 /\ 0 % n = 0
  BY <1>1, QuotientIs
<1> QED BY <1>2 DEF Share, One

\* Of n * m words nobody gets more than m.
LEMMA ShareBound ==
    ASSUME NEW q \in Nat, NEW n \in Nat \ {0}, NEW r \in 0 .. n - 1, NEW m \in Nat, q <= n * m
    PROVE  Share(q, n, r) <= m
<1> DEFINE a == q \div n
           t == q % n
<1>1. a \in Nat /\ t \in 0 .. n - 1 /\ q = a * n + t
  BY DivMod
<1>2. q = n * a + t
  BY <1>1
<1> HIDE DEF a, t
<1>3. ~(a > m)
  <2> SUFFICES ASSUME a > m PROVE FALSE
    OBVIOUS
  <2>1. PICK s \in Nat : a = m + 1 + s
    <3>1. a - m - 1 \in Nat /\ a = m + 1 + (a - m - 1)
      BY <1>1
    <3> QED BY <3>1
  <2>2. n * a = n * m + n + n * s /\ n * s \in Nat /\ n * m \in Nat
    BY <2>1
  <2> QED BY <1>1, <1>2, <2>2
<1>4. CASE a = m
  <2>1. n * m \in Nat
    OBVIOUS
  <2>2. t = 0
    BY <1>1, <1>2, <1>4, <2>1
  <2> QED BY <1>4, <2>2 DEF Share, One, a, t
<1>5. CASE a < m
  BY <1>1, <1>5 DEF Share, One, a, t
<1> QED BY <1>1, <1>3, <1>4, <1>5

-----------------------------------------------------------------------------
(***************************************************************************)
(* The words of the array, counted.  iss[<<r, c>>] is how many multiplications *)
(* the cell has issued, popped[c] how many sums of the column are read; x  *)
(* is the place in the program.                                            *)
(***************************************************************************)
CellsOK(cells, sums) ==
    /\ \A r \in RowNo, c \in ColNo : CellOK(cells[<<r, c>>])
    /\ \A c \in ColNo : SumOK(sums[c])

Counted(iss, popped) == iss \in [RowNo \X ColNo -> Nat] /\ popped \in [ColNo -> Nat]

ColumnFlow(cells, sums, x, iss, popped) ==
    \A c \in ColNo :
        /\ Len(cells[<<0, c>>].O) + iss[<<0, c>>] <= Share(Before(3, x), Cols, c)
        /\ \A r \in RowNo \ {0} :
              Len(cells[<<r, c>>].O) + iss[<<r, c>>] + Held(cells[<<r - 1, c>>].MAC) <= iss[<<r - 1, c>>]
        /\ Load(sums[c]) + NOPCount * popped[c] + Held(cells[<<LastRow, c>>].MAC) <= iss[<<LastRow, c>>]

\* The words that have entered the buffer before the MAC unit.
WeightsIn(cells, iss, r, c) == iss[<<r, c>>] + Len(cells[<<r, c>>].W.M)
ImagesIn(cells, iss, r, c) == iss[<<r, c>>] + Len(cells[<<r, c>>].I.M)

WeightFlow(cells, x, iss) ==
    \A r \in RowNo :
        /\ WeightsIn(cells, iss, r, 0) <= Share(Before(1, x), Rows, r)
        /\ \A c \in ColNo \ {0} :
              WeightsIn(cells, iss, r, c) + Len(cells[<<r, c - 1>>].W.P) <= WeightsIn(cells, iss, r, c - 1)

ImageFlow(cells, x, iss) ==
    \A r \in RowNo, c \in ColNo :
        IF r = 0 \/ c = LastCol
        THEN ImagesIn(cells, iss, r, c) <= Share(Before(2, x), Images, r + c)
        ELSE ImagesIn(cells, iss, r, c) + Len(cells[<<r - 1, c + 1>>].I.P)
                <= ImagesIn(cells, iss, r - 1, c + 1)

\* The rows and columns and their neighbours.
LEMMA Sizes ==
    /\ Rows \in Nat \ {0} /\ Cols \in Nat \ {0} /\ NOPCount \in Nat \ {0}
    /\ 0 \in RowNo /\ LastRow \in RowNo /\ 0 \in ColNo /\ LastCol \in ColNo
    /\ \A r \in RowNo \ {0} : r \in RowNo /\ r - 1 \in RowNo /\ r - 1 # LastRow
    /\ \A c \in ColNo \ {0} : c \in ColNo /\ c - 1 \in ColNo /\ c - 1 # LastCol
    /\ \A c \in ColNo : c # LastCol => c + 1 \in ColNo /\ c + 1 # 0
    /\ \A r \in RowNo : r # 0 => r - 1 \in RowNo /\ r - 1 # LastRow
    /\ \A r \in RowNo : r # LastRow => r + 1 \in RowNo /\ r + 1 # 0
    /\ \A r \in RowNo, c \in ColNo : r + c \in 0 .. Images - 1
<1>1. Rows \in Nat \ {0} /\ Cols \in Nat \ {0} /\ NOPCount \in Nat \ {0}
  BY ArrayAssumption, CellSizes
<1>2. /\ 0 \in RowNo /\ LastRow \in RowNo /\ 0 \in ColNo /\ LastCol \in ColNo
  BY <1>1 DEF RowNo, ColNo, LastRow, LastCol
<1>3. /\ \A r \in RowNo \ {0} : r \in RowNo /\ r - 1 \in RowNo /\ r - 1 # LastRow
      /\ \A c \in ColNo \ {0} : c \in ColNo /\ c - 1 \in ColNo /\ c - 1 # LastCol
  BY <1>1 DEF RowNo, ColNo, LastRow, LastCol
<1>4. /\ \A c \in ColNo : c # LastCol => c + 1 \in ColNo /\ c + 1 # 0
      /\ \A r \in RowNo : r # 0 => r - 1 \in RowNo /\ r - 1 # LastRow
      /\ \A r \in RowNo : r # LastRow => r + 1 \in RowNo /\ r + 1 # 0
  BY <1>1 DEF RowNo, ColNo, LastRow, LastCol
<1>5. \A r \in RowNo, c \in ColNo : r + c \in 0 .. Images - 1
  BY <1>1 DEF RowNo, ColNo, Images
<1> QED BY <1>1, <1>2, <1>3, <1>4, <1>5

\* The wires into a cell.
LEMMA WiresAre ==
    ASSUME CellsOK(pe, acc), NEW send, IsWire(send[1]), IsWire(send[2]), IsWire(send[3]),
           NEW r \in RowNo, NEW c \in ColNo
    PROVE  LET in == PEIn(r, c, send)
           IN  /\ in.W = W_In(r, c, send) /\ IsWire(in.W)
               /\ in.I = I_In(r, c, send) /\ IsWire(in.I)
               /\ in.O = O_In(r, c, send) /\ IsWire(in.O)
               /\ in.WRdy = W_OutRdy(r, c) /\ in.WRdy \in BOOLEAN
               /\ in.IRdy = I_OutRdy(r, c) /\ in.IRdy \in BOOLEAN
               /\ in.ORdy = O_OutRdy(r, c) /\ in.ORdy \in BOOLEAN
<1> DEFINE in == PEIn(r, c, send)
<1>1. /\ in.W = W_In(r, c, send) /\ in.I = I_In(r, c, send) /\ in.O = O_In(r, c, send)
      /\ in.WRdy = W_OutRdy(r, c) /\ in.IRdy = I_OutRdy(r, c) /\ in.ORdy = O_OutRdy(r, c)
  BY DEF PEIn
<1>2. /\ W_OutRdy(r, c) \in BOOLEAN /\ I_OutRdy(r, c) \in BOOLEAN
  BY DEF W_OutRdy, I_OutRdy
<1>3. O_OutRdy(r, c) \in BOOLEAN
  <2>1. ACC_DataInRdy(acc[c]) \in BOOLEAN /\ O_DataInRdy(pe[<<r + 1, c>>]) \in BOOLEAN
    BY DEF ACC_DataInRdy, O_DataInRdy
  <2> QED BY <2>1, Zenon DEF O_OutRdy
<1>4. \A wire, chosen : IsWire(wire) => IsWire(To(wire, chosen))
  BY NothingIs DEF To
<1>5. IsWire(W_In(r, c, send))
  <2>1. CASE c = 0
    BY <1>4, <2>1 DEF W_In
  <2>2. CASE c # 0
    <3>1. CellOK(pe[<<r, c - 1>>])
      BY <2>2, Sizes DEF CellsOK
    <3>2. IsWire(DataOut(pe[<<r, c - 1>>].W))
      BY <3>1, QueueIs DEF CellOK, SideOK, DataOut
    <3> QED BY <2>2, <3>2 DEF W_In
  <2> QED BY <2>1, <2>2
<1>6. IsWire(I_In(r, c, send))
  <2>1. CASE r = 0 \/ c = LastCol
    BY <1>4, <2>1 DEF I_In
  <2>2. CASE ~(r = 0 \/ c = LastCol)
    <3>1. CellOK(pe[<<r - 1, c + 1>>])
      BY <2>2, Sizes DEF CellsOK
    <3>2. IsWire(DataOut(pe[<<r - 1, c + 1>>].I))
      BY <3>1, QueueIs DEF CellOK, SideOK, DataOut
    <3> QED BY <2>2, <3>2 DEF I_In
  <2> QED BY <2>1, <2>2
<1>7. IsWire(O_In(r, c, send))
  <2>1. CASE r = 0
    BY <1>4, <2>1 DEF O_In
  <2>2. CASE r # 0
    <3>1. CellOK(pe[<<r - 1, c>>])
      BY <2>2, Sizes DEF CellsOK
    <3>2. IsWire(O_DataOut(pe[<<r - 1, c>>]))
      BY <3>1, PipeLen, CellSizes DEF CellOK, O_DataOut
    <3> QED BY <2>2, <3>2 DEF O_In
  <2> QED BY <2>1, <2>2
<1> HIDE DEF in
<1> QED BY <1>1, <1>2, <1>3, <1>5, <1>6, <1>7 DEF in

-----------------------------------------------------------------------------
(***************************************************************************)
(* A clock of the array.  send is what the instruction puts on the wires,  *)
(* read whether it is a read; y is the place in the program after it.      *)
(***************************************************************************)
Clocked(send, read) ==
    /\ pe' = [rc \in RowNo \X ColNo |-> PEClock(pe[rc], PEIn(rc[1], rc[2], send))]
    /\ acc' = [c \in ColNo |-> ACCClock(acc[c], O_DataOut(pe[<<LastRow, c>>]),
                                        ACC_DataOutRdy(c, read))]

Sends(send, x, y) ==
    /\ IsWire(send[1]) /\ IsWire(send[2]) /\ IsWire(send[3])
    /\ x \in Here /\ y \in Here
    /\ \A kind \in 1 .. 3 : Before(kind, y) = Before(kind, x) + Len(send[kind])

AddressesOK(x) ==
    /\ Kernel_Address = Before(1, x) % Rows
    /\ Input_Address = Before(2, x) % Images
    /\ Output_Write_Address = Before(3, x) % Cols

\* The multiplications that a clock issues, and the sums that it reads.
Issues(r, c) == Issue(pe[<<r, c>>], O_OutRdy(r, c))
Pops(c, read) == ACC_DataOutValid(acc[c]) /\ ACC_DataOutRdy(c, read)

Issued(iss) == [rc \in RowNo \X ColNo |-> iss[rc] + One(Issues(rc[1], rc[2]))]
Popped(popped, read) == [c \in ColNo |-> popped[c] + One(Pops(c, read))]

\* A clock of one cell.
LEMMA CellClock ==
    ASSUME CellsOK(pe, acc), NEW send, NEW read \in BOOLEAN, Clocked(send, read),
           IsWire(send[1]), IsWire(send[2]), IsWire(send[3]), NEW r \in RowNo, NEW c \in ColNo
    PROVE  LET cell == pe[<<r, c>>]
               after == pe'[<<r, c>>]
               mac == One(Issues(r, c))
           IN  /\ CellOK(cell) /\ CellOK(after)
               /\ Len(after.W.P) = Len(cell.W.P) - One(cell.W.P # << >> /\ W_OutRdy(r, c))
                                     + Len(Taken(cell.W, W_In(r, c, send)))
               /\ Len(after.W.M) = Len(cell.W.M) - mac + Len(Taken(cell.W, W_In(r, c, send)))
               /\ Len(after.I.P) = Len(cell.I.P) - One(cell.I.P # << >> /\ I_OutRdy(r, c))
                                     + Len(Taken(cell.I, I_In(r, c, send)))
               /\ Len(after.I.M) = Len(cell.I.M) - mac + Len(Taken(cell.I, I_In(r, c, send)))
               /\ Len(after.O) = Len(cell.O) - mac + Len(O_Taken(cell, O_In(r, c, send)))
               /\ Held(after.MAC) = Held(cell.MAC) - Len(O_DataOut(cell)) + mac
               /\ mac \in 0 .. 1 /\ (mac = 1 => cell.O # << >>)
<1> DEFINE cell == pe[<<r, c>>]
           in == PEIn(r, c, send)
           mac == One(Issues(r, c))
<1>1. CellOK(cell)
  BY DEF CellsOK
<1>2. pe'[<<r, c>>] = PEClock(cell, in)
  BY DEF Clocked
<1>3. /\ in.W = W_In(r, c, send) /\ IsWire(in.W)
      /\ in.I = I_In(r, c, send) /\ IsWire(in.I)
      /\ in.O = O_In(r, c, send) /\ IsWire(in.O)
      /\ in.WRdy = W_OutRdy(r, c) /\ in.WRdy \in BOOLEAN
      /\ in.IRdy = I_OutRdy(r, c) /\ in.IRdy \in BOOLEAN
      /\ in.ORdy = O_OutRdy(r, c) /\ in.ORdy \in BOOLEAN
  BY WiresAre
<1>4. mac \in 0 .. 1 /\ (mac = 1 => cell.O # << >>)
  BY DEF One, Issues, Issue
<1>5. mac = One(Issue(cell, in.ORdy))
  BY <1>3 DEF Issues
<1> HIDE DEF cell, in, mac
<1> DEFINE after == PEClock(cell, in)
<1>6. /\ CellOK(after)
      /\ Len(after.W.P) = Len(cell.W.P) - One(cell.W.P # << >> /\ in.WRdy)
                            + Len(Taken(cell.W, in.W))
      /\ Len(after.W.M) = Len(cell.W.M) - mac + Len(Taken(cell.W, in.W))
      /\ Len(after.I.P) = Len(cell.I.P) - One(cell.I.P # << >> /\ in.IRdy)
                            + Len(Taken(cell.I, in.I))
      /\ Len(after.I.M) = Len(cell.I.M) - mac + Len(Taken(cell.I, in.I))
      /\ Len(after.O) = Len(cell.O) - mac + Len(O_Taken(cell, in.O))
      /\ Held(after.MAC) = Held(cell.MAC) - Len(O_DataOut(cell)) + mac
  BY <1>1, <1>3, <1>5, CellStep, Zenon
<1> HIDE DEF after
<1>7. /\ CellOK(cell) /\ CellOK(after)
      /\ Len(after.W.P) = Len(cell.W.P) - One(cell.W.P # << >> /\ W_OutRdy(r, c))
                            + Len(Taken(cell.W, W_In(r, c, send)))
      /\ Len(after.W.M) = Len(cell.W.M) - mac + Len(Taken(cell.W, W_In(r, c, send)))
      /\ Len(after.I.P) = Len(cell.I.P) - One(cell.I.P # << >> /\ I_OutRdy(r, c))
                            + Len(Taken(cell.I, I_In(r, c, send)))
      /\ Len(after.I.M) = Len(cell.I.M) - mac + Len(Taken(cell.I, I_In(r, c, send)))
      /\ Len(after.O) = Len(cell.O) - mac + Len(O_Taken(cell, O_In(r, c, send)))
      /\ Held(after.MAC) = Held(cell.MAC) - Len(O_DataOut(cell)) + mac
  BY <1>1, <1>3, <1>6, Zenon
<1>8. pe'[<<r, c>>] = after
  BY <1>2 DEF after
<1> QED BY <1>4, <1>7, <1>8, Zenon DEF cell, mac

\* A clock of one accumulator.
LEMMA SumClock ==
    ASSUME CellsOK(pe, acc), NEW send, NEW read \in BOOLEAN, Clocked(send, read), NEW c \in ColNo
    PROVE  LET taken == ACC_Taken(acc[c], O_DataOut(pe[<<LastRow, c>>]))
           IN  /\ SumOK(acc[c]) /\ SumOK(acc'[c])
               /\ Load(acc'[c]) = Load(acc[c]) + Len(taken) - NOPCount * One(Pops(c, read))
               /\ Len(taken) \in 0 .. Len(O_DataOut(pe[<<LastRow, c>>]))
<1> DEFINE a == acc[c]
           offer == O_DataOut(pe[<<LastRow, c>>])
           rdy == ACC_DataOutRdy(c, read)
<1>1. SumOK(a) /\ CellOK(pe[<<LastRow, c>>])
  BY Sizes DEF CellsOK
<1>2. IsWire(offer)
  BY <1>1, PipeLen, CellSizes DEF CellOK, O_DataOut
<1>3. acc'[c] = ACCClock(a, offer, rdy)
  BY DEF Clocked
<1>4. rdy \in BOOLEAN
  BY DEF ACC_DataOutRdy
<1>5. One(Pops(c, read)) = One(ACC_DataOutValid(a) /\ rdy)
  BY DEF Pops
<1> HIDE DEF a, offer, rdy
<1>6. /\ SumOK(ACCClock(a, offer, rdy))
      /\ Load(ACCClock(a, offer, rdy)) = Load(a) + Len(ACC_Taken(a, offer))
                                    - NOPCount * One(ACC_DataOutValid(a) /\ rdy)
  BY <1>1, <1>2, <1>4, SumStep, Zenon
<1>7. Len(ACC_Taken(a, offer)) \in 0 .. Len(offer)
  BY <1>2, TakenIs
<1>8. /\ SumOK(acc'[c])
      /\ Load(acc'[c]) = Load(a) + Len(ACC_Taken(a, offer)) - NOPCount * One(Pops(c, read))
  BY <1>3, <1>5, <1>6, Zenon
<1> QED BY <1>1, <1>7, <1>8, Zenon DEF a, offer

\* Cells and accumulators keep their shape.
LEMMA CellsClock ==
    ASSUME CellsOK(pe, acc), NEW send, NEW read \in BOOLEAN, Clocked(send, read),
           IsWire(send[1]), IsWire(send[2]), IsWire(send[3])
    PROVE  CellsOK(pe', acc')
<1>1. ASSUME NEW r \in RowNo, NEW c \in ColNo PROVE CellOK(pe'[<<r, c>>])
  BY CellClock
<1>2. ASSUME NEW c \in ColNo PROVE SumOK(acc'[c])
  BY SumClock
<1> QED BY <1>1, <1>2 DEF CellsOK

\* A word is sent to the cell that the share of the stream counts.
LEMMA SentTo ==
    ASSUME NEW send, NEW x, NEW y, Sends(send, x, y), NEW kind \in 1 .. 3,
           NEW size \in Nat \ {0}, NEW k \in 0 .. size - 1, NEW address,
           address = Before(kind, x) % size
    PROVE  /\ IsWire(To(send[kind], address = k))
           /\ Share(Before(kind, x), size, k) \in Nat
           /\ Share(Before(kind, y), size, k) =
                 Share(Before(kind, x), size, k) + Len(To(send[kind], address = k))
<1> DEFINE q == Before(kind, x)
<1>1. q \in Nat
  <2>1. kind \in Kinds /\ x \in Here
    BY DEF Sends, Kinds
  <2> QED BY <2>1, BeforeIs
<1>2. IsWire(send[kind]) /\ Len(send[kind]) \in {0, 1}
  BY WireIs DEF Sends
<1>3. Before(kind, y) = q + Len(send[kind])
  BY DEF Sends
<1> HIDE DEF q
<1>4. Share(q, size, k) \in Nat /\ Share(q + 1, size, k) = Share(q, size, k) + One(q % size = k)
  BY <1>1, ShareStep
<1>5. IsWire(To(send[kind], address = k))
  BY <1>2, NothingIs DEF To
<1>6. Share(Before(kind, y), size, k) =
        Share(q, size, k) + Len(To(send[kind], address = k))
  <2>1. address = q % size
    BY DEF q
  <2>2. CASE Len(send[kind]) = 0
    <3>1. Len(To(send[kind], address = k)) = 0
      BY <2>2, NothingIs DEF To
    <3>2. Before(kind, y) = q
      BY <1>1, <1>3, <2>2
    <3> QED BY <1>4, <3>1, <3>2
  <2>3. CASE Len(send[kind]) = 1
    <3>1. Len(To(send[kind], address = k)) = One(q % size = k)
      BY <2>1, <2>3, NothingIs DEF To, One
    <3>2. Before(kind, y) = q + 1
      BY <1>3, <2>3
    <3> QED BY <1>4, <3>1, <3>2
  <2> QED BY <1>2, <2>2, <2>3
<1> QED BY <1>4, <1>5, <1>6 DEF q

\* The counts after a clock.
LEMMA CountedNext ==
    ASSUME NEW iss, NEW popped, Counted(iss, popped), NEW read
    PROVE  /\ Counted(Issued(iss), Popped(popped, read))
           /\ \A r \in RowNo, c \in ColNo :
                 /\ iss[<<r, c>>] \in Nat /\ Issued(iss)[<<r, c>>] \in Nat
                 /\ Issued(iss)[<<r, c>>] = iss[<<r, c>>] + One(Issues(r, c))
           /\ \A c \in ColNo :
                 /\ popped[c] \in Nat /\ Popped(popped, read)[c] \in Nat
                 /\ Popped(popped, read)[c] = popped[c] + One(Pops(c, read))
<1>1. \A fact : One(fact) \in Nat
  BY DEF One
<1>2. iss \in [RowNo \X ColNo -> Nat] /\ popped \in [ColNo -> Nat]
  BY DEF Counted
<1>3. \A rc \in RowNo \X ColNo : iss[rc] + One(Issues(rc[1], rc[2])) \in Nat
  BY <1>1, <1>2
<1>4. Issued(iss) \in [RowNo \X ColNo -> Nat]
  BY <1>3 DEF Issued
<1>5. \A c \in ColNo : popped[c] + One(Pops(c, read)) \in Nat
  BY <1>1, <1>2
<1>6. Popped(popped, read) \in [ColNo -> Nat]
  BY <1>5 DEF Popped
<1>7. ASSUME NEW r \in RowNo, NEW c \in ColNo
      PROVE  Issued(iss)[<<r, c>>] = iss[<<r, c>>] + One(Issues(r, c))
  BY DEF Issued
<1>8. ASSUME NEW c \in ColNo
      PROVE  Popped(popped, read)[c] = popped[c] + One(Pops(c, read))
  BY DEF Popped
<1> QED BY <1>2, <1>4, <1>6, <1>7, <1>8 DEF Counted

\* The lengths are numbers.
LEMMA Numbers ==
    ASSUME CellsOK(pe, acc)
    PROVE  /\ \A r \in RowNo, c \in ColNo :
                 /\ Len(pe[<<r, c>>].O) \in Nat /\ Held(pe[<<r, c>>].MAC) \in Nat
                 /\ Len(pe[<<r, c>>].W.P) \in Nat /\ Len(pe[<<r, c>>].W.M) \in Nat
                 /\ Len(pe[<<r, c>>].I.P) \in Nat /\ Len(pe[<<r, c>>].I.M) \in Nat
                 /\ IsWire(O_DataOut(pe[<<r, c>>]))
                 /\ Len(O_DataOut(pe[<<r, c>>])) \in 0 .. 1
           /\ \A c \in ColNo : Load(acc[c]) \in Nat
<1>1. ASSUME NEW r \in RowNo, NEW c \in ColNo
      PROVE  /\ Len(pe[<<r, c>>].O) \in Nat /\ Held(pe[<<r, c>>].MAC) \in Nat
             /\ Len(pe[<<r, c>>].W.P) \in Nat /\ Len(pe[<<r, c>>].W.M) \in Nat
             /\ Len(pe[<<r, c>>].I.P) \in Nat /\ Len(pe[<<r, c>>].I.M) \in Nat
             /\ IsWire(O_DataOut(pe[<<r, c>>]))
             /\ Len(O_DataOut(pe[<<r, c>>])) \in 0 .. 1
  <2>1. CellOK(pe[<<r, c>>])
    BY DEF CellsOK
  <2> DEFINE cell == pe[<<r, c>>]
  <2>2. CellOK(cell)
    BY <2>1
  <2> HIDE DEF cell
  <2>3. MAC_Stages \in Nat \ {0} /\ IsPipe(cell.MAC, MAC_Stages)
    BY <2>2, CellSizes DEF CellOK
  <2>4. Held(cell.MAC) \in Nat /\ IsWire(O_DataOut(cell))
    BY <2>3, FullIs, PipeLen DEF O_DataOut
  <2>5. Len(O_DataOut(cell)) \in 0 .. 1
    BY <2>4, WireIs
  <2>6. /\ IsQueue(cell.O) /\ IsQueue(cell.W.P) /\ IsQueue(cell.W.M)
        /\ IsQueue(cell.I.P) /\ IsQueue(cell.I.M)
    BY <2>2 DEF CellOK, SideOK
  <2>7. /\ Len(cell.O) \in Nat /\ Len(cell.W.P) \in Nat /\ Len(cell.W.M) \in Nat
        /\ Len(cell.I.P) \in Nat /\ Len(cell.I.M) \in Nat
    BY <2>6, QueueIs
  <2> QED BY <2>4, <2>5, <2>7 DEF cell
<1>2. ASSUME NEW c \in ColNo PROVE Load(acc[c]) \in Nat
  <2>1. SumOK(acc[c])
    BY DEF CellsOK
  <2> DEFINE a == acc[c]
  <2>2. SumOK(a)
    BY <2>1
  <2> HIDE DEF a
  <2>3. /\ Len(a.Ready) \in Nat /\ Len(a.Out) \in Nat /\ Held(a.Sums) \in Nat
        /\ a.Counter \in Nat /\ NOPCount \in Nat
    BY <2>2, QueueIs, FullIs, CellSizes DEF SumOK
  <2>4. NOPCount * (Held(a.Sums) + Len(a.Out)) \in Nat
    BY <2>3
  <2>5. Load(a) \in Nat
    BY <2>3, <2>4 DEF Load
  <2> QED BY <2>5 DEF a
<1> QED BY <1>1, <1>2

\* A clock keeps the flow of partial outputs down the columns.
LEMMA ColumnClock ==
    ASSUME CellsOK(pe, acc), NEW send, NEW read \in BOOLEAN, Clocked(send, read),
           NEW x, NEW y, Sends(send, x, y), AddressesOK(x),
           NEW iss, NEW popped, Counted(iss, popped), ColumnFlow(pe, acc, x, iss, popped)
    PROVE  ColumnFlow(pe', acc', y, Issued(iss), Popped(popped, read))
<1> DEFINE j == Issued(iss)
           p == Popped(popped, read)
<1> SUFFICES ASSUME NEW c \in ColNo
             PROVE  /\ Len(pe'[<<0, c>>].O) + j[<<0, c>>] <= Share(Before(3, y), Cols, c)
                    /\ \A r \in RowNo \ {0} :
                          Len(pe'[<<r, c>>].O) + j[<<r, c>>] + Held(pe'[<<r - 1, c>>].MAC)
                             <= j[<<r - 1, c>>]
                    /\ Load(acc'[c]) + NOPCount * p[c] + Held(pe'[<<LastRow, c>>].MAC)
                          <= j[<<LastRow, c>>]
  BY DEF ColumnFlow
<1>1. IsWire(send[1]) /\ IsWire(send[2]) /\ IsWire(send[3])
  BY DEF Sends
<1>2. \A r \in RowNo : /\ iss[<<r, c>>] \in Nat /\ One(Issues(r, c)) \in Nat
                       /\ j[<<r, c>>] = iss[<<r, c>>] + One(Issues(r, c))
  <2>1. \A fact : One(fact) \in Nat
    BY DEF One
  <2> QED BY <2>1, CountedNext
<1> HIDE DEF j
<1>3. \A r \in RowNo :
        /\ Len(pe'[<<r, c>>].O) = Len(pe[<<r, c>>].O) - One(Issues(r, c))
                                     + Len(O_Taken(pe[<<r, c>>], O_In(r, c, send)))
        /\ Held(pe'[<<r, c>>].MAC) = Held(pe[<<r, c>>].MAC) - Len(O_DataOut(pe[<<r, c>>]))
                                        + One(Issues(r, c))
        /\ Len(pe[<<r, c>>].O) \in Nat /\ Held(pe[<<r, c>>].MAC) \in Nat
        /\ IsWire(O_DataOut(pe[<<r, c>>])) /\ Len(O_DataOut(pe[<<r, c>>])) \in 0 .. 1
  BY <1>1, CellClock, Numbers
<1>4. Len(pe'[<<0, c>>].O) + j[<<0, c>>] <= Share(Before(3, y), Cols, c)
  <2> DEFINE wire == O_In(0, c, send)
             taken == Len(O_Taken(pe[<<0, c>>], wire))
  <2>1. wire = To(send[3], Output_Write_Address = c)
    BY DEF O_In
  <2>2. /\ IsWire(wire) /\ Share(Before(3, x), Cols, c) \in Nat
        /\ Share(Before(3, y), Cols, c) = Share(Before(3, x), Cols, c) + Len(wire)
    <3>1. c \in 0 .. Cols - 1 /\ Cols \in Nat \ {0} /\ 3 \in 1 .. 3
      BY Sizes DEF ColNo
    <3>2. Output_Write_Address = Before(3, x) % Cols
      BY DEF AddressesOK
    <3> QED BY <2>1, <3>1, <3>2, SentTo
  <2>3. taken \in 0 .. Len(wire) /\ Len(wire) \in Nat
    BY <2>2, TakenIs, WireIs
  <2>4. Len(pe[<<0, c>>].O) + iss[<<0, c>>] <= Share(Before(3, x), Cols, c)
    BY DEF ColumnFlow
  <2>5. /\ Len(pe'[<<0, c>>].O) = Len(pe[<<0, c>>].O) - One(Issues(0, c)) + taken
        /\ Len(pe[<<0, c>>].O) \in Nat
        /\ iss[<<0, c>>] \in Nat /\ One(Issues(0, c)) \in Nat
        /\ j[<<0, c>>] = iss[<<0, c>>] + One(Issues(0, c))
    BY <1>2, <1>3, Sizes
  <2> DEFINE l == Len(wire)
             a == Len(pe[<<0, c>>].O)
             b == Len(pe'[<<0, c>>].O)
             i == iss[<<0, c>>]
             k == j[<<0, c>>]
             m == One(Issues(0, c))
             s == Share(Before(3, x), Cols, c)
             t == Share(Before(3, y), Cols, c)
  <2>6. /\ l \in Nat /\ taken \in 0 .. l /\ a \in Nat /\ i \in Nat /\ m \in Nat /\ s \in Nat
        /\ t = s + l /\ b = a - m + taken /\ k = i + m /\ a + i <= s
    BY <2>2, <2>3, <2>4, <2>5
  <2> HIDE DEF taken, l, a, b, i, k, m, s, t
  <2>7. b + k <= t
    BY ONLY <2>6
  <2> QED BY <2>7 DEF b, k, t
<1>5. ASSUME NEW r \in RowNo \ {0}
      PROVE  Len(pe'[<<r, c>>].O) + j[<<r, c>>] + Held(pe'[<<r - 1, c>>].MAC) <= j[<<r - 1, c>>]
  <2> DEFINE up == r - 1
             wire == O_In(r, c, send)
             taken == Len(O_Taken(pe[<<r, c>>], wire))
  <2>1. r \in RowNo /\ up \in RowNo
    BY Sizes
  <2>2. wire = O_DataOut(pe[<<up, c>>])
    BY DEF O_In
  <2>3. Len(pe[<<r, c>>].O) + iss[<<r, c>>] + Held(pe[<<up, c>>].MAC) <= iss[<<up, c>>]
    BY DEF ColumnFlow
  <2> HIDE DEF up
  <2>4. /\ Len(wire) \in 0 .. 1 /\ taken \in 0 .. Len(wire)
        /\ Held(pe'[<<up, c>>].MAC) = Held(pe[<<up, c>>].MAC) - Len(wire) + One(Issues(up, c))
        /\ Held(pe[<<up, c>>].MAC) \in Nat
    BY <1>3, <2>1, <2>2, TakenIs
  <2>5. /\ Len(pe'[<<r, c>>].O) = Len(pe[<<r, c>>].O) - One(Issues(r, c)) + taken
        /\ Len(pe[<<r, c>>].O) \in Nat
    BY <1>3, <2>1
  <2>6. /\ iss[<<r, c>>] \in Nat /\ One(Issues(r, c)) \in Nat
        /\ j[<<r, c>>] = iss[<<r, c>>] + One(Issues(r, c))
        /\ iss[<<up, c>>] \in Nat /\ One(Issues(up, c)) \in Nat
        /\ j[<<up, c>>] = iss[<<up, c>>] + One(Issues(up, c))
    BY <1>2, <2>1
  <2> DEFINE l == Len(wire)
             a == Len(pe[<<r, c>>].O)
             b == Len(pe'[<<r, c>>].O)
             h == Held(pe[<<up, c>>].MAC)
             g == Held(pe'[<<up, c>>].MAC)
             i == iss[<<r, c>>]
             k == j[<<r, c>>]
             m == One(Issues(r, c))
             iu == iss[<<up, c>>]
             ku == j[<<up, c>>]
             mu == One(Issues(up, c))
  <2>7. /\ l \in Nat /\ taken \in 0 .. l /\ a \in Nat /\ h \in Nat
        /\ i \in Nat /\ m \in Nat /\ iu \in Nat /\ mu \in Nat
        /\ b = a - m + taken /\ k = i + m /\ ku = iu + mu /\ g = h - l + mu
        /\ a + i + h <= iu
    BY <2>3, <2>4, <2>5, <2>6
  <2> HIDE DEF taken, l, a, b, h, g, i, k, m, iu, ku, mu
  <2>8. b + k + g <= ku
    BY ONLY <2>7
  <2> QED BY <2>8 DEF up, b, k, g, ku
<1>6. Load(acc'[c]) + NOPCount * p[c] + Held(pe'[<<LastRow, c>>].MAC) <= j[<<LastRow, c>>]
  <2> DEFINE wire == O_DataOut(pe[<<LastRow, c>>])
             taken == Len(ACC_Taken(acc[c], wire))
             pop == One(Pops(c, read))
  <2>1. LastRow \in RowNo /\ NOPCount \in Nat
    BY Sizes
  <2>2. /\ Load(acc'[c]) = Load(acc[c]) + taken - NOPCount * pop
        /\ taken \in 0 .. Len(wire) /\ Load(acc[c]) \in Nat
    BY SumClock, Numbers
  <2>3. /\ Len(wire) \in 0 .. 1 /\ Held(pe[<<LastRow, c>>].MAC) \in Nat
        /\ Held(pe'[<<LastRow, c>>].MAC) = Held(pe[<<LastRow, c>>].MAC) - Len(wire)
                                             + One(Issues(LastRow, c))
    BY <1>3, <2>1
  <2>4. p[c] = popped[c] + pop /\ popped[c] \in Nat /\ pop \in Nat
    <3>1. pop \in Nat
      BY DEF One
    <3> QED BY <3>1, CountedNext
  <2>5. Load(acc[c]) + NOPCount * popped[c] + Held(pe[<<LastRow, c>>].MAC) <= iss[<<LastRow, c>>]
    BY DEF ColumnFlow
  <2>6. /\ iss[<<LastRow, c>>] \in Nat /\ One(Issues(LastRow, c)) \in Nat
        /\ j[<<LastRow, c>>] = iss[<<LastRow, c>>] + One(Issues(LastRow, c))
    BY <1>2, <2>1
  <2> HIDE DEF taken, wire, pop, p
  <2>7. NOPCount * p[c] = NOPCount * popped[c] + NOPCount * pop
    BY <2>1, <2>4
  <2> DEFINE np == NOPCount * pop
             nq == NOPCount * popped[c]
             nr == NOPCount * p[c]
  <2>8. /\ np \in Nat /\ nq \in Nat /\ nr = nq + np
        /\ Load(acc'[c]) = Load(acc[c]) + taken - np
        /\ Load(acc[c]) + nq + Held(pe[<<LastRow, c>>].MAC) <= iss[<<LastRow, c>>]
    BY <2>1, <2>2, <2>4, <2>5, <2>7
  <2> HIDE DEF np, nq, nr
  <2>9. Load(acc[c]) \in Nat /\ taken \in 0 .. Len(wire)
    BY <2>2
  <2>10. Load(acc'[c]) + nr + Held(pe'[<<LastRow, c>>].MAC) <= j[<<LastRow, c>>]
    BY ONLY <2>3, <2>6, <2>8, <2>9
  <2> QED BY <2>10 DEF nr
<1> QED BY <1>4, <1>5, <1>6

\* A word leaves the waiting buffer of a cell exactly when the next one takes it.
LEMMA Handed ==
    ASSUME NEW from, SideOK(from), NEW to
    PROVE  /\ Len(Taken(to, DataOut(from))) = One(from.P # << >> /\ DataInRdy(to))
           /\ IsWire(DataOut(from))
<1>1. IsQueue(from.P)
  BY DEF SideOK
<1>2. IsWire(Head1(from.P)) /\ (Head1(from.P) # Nothing <=> from.P # << >>)
  BY <1>1, QueueIs
<1>3. Len(Head1(from.P)) = One(from.P # << >>)
  <2> DEFINE w == Head1(from.P)
  <2>1. IsWire(w) /\ (w # Nothing <=> from.P # << >>)
    BY <1>2
  <2> HIDE DEF w
  <2>2. Len(w) = One(from.P # << >>)
    BY <2>1, WireIs DEF One
  <2> QED BY <2>2 DEF w
<1>4. CASE DataInRdy(to)
  BY <1>2, <1>3, <1>4 DEF Taken, DataOut, One
<1>5. CASE ~DataInRdy(to)
  BY <1>2, <1>5, NothingIs DEF Taken, DataOut, One
<1> QED BY <1>4, <1>5

\* A clock keeps the flow of weights along the rows.
LEMMA WeightClock ==
    ASSUME CellsOK(pe, acc), NEW send, NEW read \in BOOLEAN, Clocked(send, read),
           NEW x, NEW y, Sends(send, x, y), AddressesOK(x),
           NEW iss, NEW popped, Counted(iss, popped), WeightFlow(pe, x, iss)
    PROVE  WeightFlow(pe', y, Issued(iss))
<1> DEFINE j == Issued(iss)
<1> SUFFICES ASSUME NEW r \in RowNo
             PROVE  /\ WeightsIn(pe', j, r, 0) <= Share(Before(1, y), Rows, r)
                    /\ \A c \in ColNo \ {0} :
                          WeightsIn(pe', j, r, c) + Len(pe'[<<r, c - 1>>].W.P)
                             <= WeightsIn(pe', j, r, c - 1)
  BY DEF WeightFlow
<1>1. IsWire(send[1]) /\ IsWire(send[2]) /\ IsWire(send[3])
  BY DEF Sends
<1> DEFINE taken(c) == Len(Taken(pe[<<r, c>>].W, W_In(r, c, send)))
<1>2. ASSUME NEW c \in ColNo
      PROVE  /\ WeightsIn(pe', j, r, c) = WeightsIn(pe, iss, r, c) + taken(c)
             /\ WeightsIn(pe, iss, r, c) \in Nat /\ taken(c) \in Nat
             /\ Len(pe'[<<r, c>>].W.P) = Len(pe[<<r, c>>].W.P)
                    - One(pe[<<r, c>>].W.P # << >> /\ W_OutRdy(r, c)) + taken(c)
             /\ Len(pe[<<r, c>>].W.P) \in Nat
  <2> DEFINE a == Len(pe[<<r, c>>].W.M)
             b == Len(pe'[<<r, c>>].W.M)
             i == iss[<<r, c>>]
             k == j[<<r, c>>]
             m == One(Issues(r, c))
             t == taken(c)
  <2>1. i \in Nat /\ m \in Nat /\ k = i + m
    <3>1. m \in Nat
      BY DEF One
    <3> QED BY <3>1, CountedNext
  <2>2. b = a - m + t /\ a \in Nat
    BY <1>1, CellClock, Numbers
  <2>3. t \in Nat
    <3>1. IsWire(W_In(r, c, send))
      BY <1>1, WiresAre
    <3>2. \A n : n \in 0 .. Len(W_In(r, c, send)) => n \in Nat
      OBVIOUS
    <3> QED BY <3>1, <3>2, TakenIs
  <2>4. /\ Len(pe'[<<r, c>>].W.P) = Len(pe[<<r, c>>].W.P)
                    - One(pe[<<r, c>>].W.P # << >> /\ W_OutRdy(r, c)) + t
        /\ Len(pe[<<r, c>>].W.P) \in Nat
    BY <1>1, CellClock, Numbers
  <2>5. WeightsIn(pe', j, r, c) = k + b /\ WeightsIn(pe, iss, r, c) = i + a
    BY DEF WeightsIn
  <2> HIDE DEF a, b, i, k, m, t
  <2>6. k + b = i + a + t /\ i + a \in Nat
    BY ONLY <2>1, <2>2, <2>3
  <2> QED BY <2>3, <2>4, <2>5, <2>6 DEF t
<1>3. WeightsIn(pe', j, r, 0) <= Share(Before(1, y), Rows, r)
  <2> DEFINE wire == W_In(r, 0, send)
             t == taken(0)
             l == Len(wire)
             s == Share(Before(1, x), Rows, r)
             u == Share(Before(1, y), Rows, r)
             v == WeightsIn(pe, iss, r, 0)
             w == WeightsIn(pe', j, r, 0)
  <2>1. wire = To(send[1], Kernel_Address = r)
    BY DEF W_In
  <2>2. IsWire(wire) /\ s \in Nat /\ u = s + l
    <3>1. r \in 0 .. Rows - 1 /\ Rows \in Nat \ {0} /\ 1 \in 1 .. 3
      BY Sizes DEF RowNo
    <3>2. Kernel_Address = Before(1, x) % Rows
      BY DEF AddressesOK
    <3> QED BY <2>1, <3>1, <3>2, SentTo
  <2>3. t \in 0 .. l /\ l \in Nat
    BY <2>2, TakenIs, WireIs
  <2>4. w = v + t /\ v \in Nat /\ v <= s
    BY <1>2, Sizes DEF WeightFlow
  <2> HIDE DEF t, l, s, u, v, w
  <2>5. w <= u
    BY ONLY <2>2, <2>3, <2>4
  <2> QED BY <2>5 DEF u, w
<1>4. ASSUME NEW c \in ColNo \ {0}
      PROVE  WeightsIn(pe', j, r, c) + Len(pe'[<<r, c - 1>>].W.P) <= WeightsIn(pe', j, r, c - 1)
  <2> DEFINE d == c - 1
  <2>1. c \in ColNo /\ d \in ColNo /\ d # LastCol /\ d + 1 = c
    <3>1. c \in Int
      BY DEF ColNo
    <3> QED BY <3>1, Sizes
  <2>2. WeightsIn(pe, iss, r, c) + Len(pe[<<r, d>>].W.P) <= WeightsIn(pe, iss, r, d)
    BY DEF WeightFlow
  <2>3. W_In(r, c, send) = DataOut(pe[<<r, d>>].W)
    BY DEF W_In
  <2> HIDE DEF d
  <2>4. W_OutRdy(r, d) = DataInRdy(pe[<<r, c>>].W)
    <3>1. DataInRdy(pe[<<r, c>>].W) \in BOOLEAN /\ W_OutRdy(r, d) \in BOOLEAN
      BY DEF DataInRdy, W_OutRdy
    <3> QED BY <2>1, <3>1 DEF W_OutRdy
  <2>5. SideOK(pe[<<r, d>>].W)
    BY <2>1 DEF CellsOK, CellOK
  <2>6. taken(c) = One(pe[<<r, d>>].W.P # << >> /\ W_OutRdy(r, d))
    BY <2>3, <2>4, <2>5, Handed
  <2> DEFINE t == taken(c)
             u == taken(d)
             v == WeightsIn(pe, iss, r, c)
             w == WeightsIn(pe', j, r, c)
             vd == WeightsIn(pe, iss, r, d)
             wd == WeightsIn(pe', j, r, d)
             a == Len(pe[<<r, d>>].W.P)
             b == Len(pe'[<<r, d>>].W.P)
  <2>7. w = v + t /\ v \in Nat /\ t \in Nat
    BY <1>2, <2>1
  <2>8. wd = vd + u /\ vd \in Nat /\ u \in Nat /\ b = a - t + u /\ a \in Nat
    BY <1>2, <2>1, <2>6
  <2>9. v + a <= vd
    BY <2>2
  <2> HIDE DEF t, u, v, w, vd, wd, a, b
  <2>10. w + b <= wd
    BY ONLY <2>7, <2>8, <2>9
  <2> QED BY <2>10 DEF w, b, wd, d
<1> QED BY <1>3, <1>4

\* A clock keeps the flow of image words along the diagonals.
LEMMA ImageClock ==
    ASSUME CellsOK(pe, acc), NEW send, NEW read \in BOOLEAN, Clocked(send, read),
           NEW x, NEW y, Sends(send, x, y), AddressesOK(x),
           NEW iss, NEW popped, Counted(iss, popped), ImageFlow(pe, x, iss)
    PROVE  ImageFlow(pe', y, Issued(iss))
<1> DEFINE j == Issued(iss)
<1>1. IsWire(send[1]) /\ IsWire(send[2]) /\ IsWire(send[3])
  BY DEF Sends
<1> DEFINE taken(r, c) == Len(Taken(pe[<<r, c>>].I, I_In(r, c, send)))
<1>2. ASSUME NEW r \in RowNo, NEW c \in ColNo
      PROVE  /\ ImagesIn(pe', j, r, c) = ImagesIn(pe, iss, r, c) + taken(r, c)
             /\ ImagesIn(pe, iss, r, c) \in Nat /\ taken(r, c) \in Nat
             /\ Len(pe'[<<r, c>>].I.P) = Len(pe[<<r, c>>].I.P)
                    - One(pe[<<r, c>>].I.P # << >> /\ I_OutRdy(r, c)) + taken(r, c)
             /\ Len(pe[<<r, c>>].I.P) \in Nat
  <2> DEFINE a == Len(pe[<<r, c>>].I.M)
             b == Len(pe'[<<r, c>>].I.M)
             i == iss[<<r, c>>]
             k == j[<<r, c>>]
             m == One(Issues(r, c))
             t == taken(r, c)
  <2>1. i \in Nat /\ m \in Nat /\ k = i + m
    <3>1. m \in Nat
      BY DEF One
    <3> QED BY <3>1, CountedNext
  <2>2. b = a - m + t /\ a \in Nat
    BY <1>1, CellClock, Numbers
  <2>3. t \in Nat
    <3>1. IsWire(I_In(r, c, send))
      BY <1>1, WiresAre
    <3>2. \A n : n \in 0 .. Len(I_In(r, c, send)) => n \in Nat
      OBVIOUS
    <3> QED BY <3>1, <3>2, TakenIs
  <2>4. /\ Len(pe'[<<r, c>>].I.P) = Len(pe[<<r, c>>].I.P)
                    - One(pe[<<r, c>>].I.P # << >> /\ I_OutRdy(r, c)) + t
        /\ Len(pe[<<r, c>>].I.P) \in Nat
    BY <1>1, CellClock, Numbers
  <2>5. ImagesIn(pe', j, r, c) = k + b /\ ImagesIn(pe, iss, r, c) = i + a
    BY DEF ImagesIn
  <2> HIDE DEF a, b, i, k, m, t
  <2>6. k + b = i + a + t /\ i + a \in Nat
    BY ONLY <2>1, <2>2, <2>3
  <2> QED BY <2>3, <2>4, <2>5, <2>6 DEF t
<1>3. ASSUME NEW r \in RowNo, NEW c \in ColNo, r = 0 \/ c = LastCol
      PROVE  ImagesIn(pe', j, r, c) <= Share(Before(2, y), Images, r + c)
  <2> DEFINE wire == I_In(r, c, send)
             t == taken(r, c)
             l == Len(wire)
             s == Share(Before(2, x), Images, r + c)
             u == Share(Before(2, y), Images, r + c)
             v == ImagesIn(pe, iss, r, c)
             w == ImagesIn(pe', j, r, c)
  <2>1. wire = To(send[2], Input_Address = r + c)
    BY <1>3 DEF I_In
  <2>2. IsWire(wire) /\ s \in Nat /\ u = s + l
    <3>1. r + c \in 0 .. Images - 1 /\ Images \in Nat \ {0} /\ 2 \in 1 .. 3
      BY Sizes, ImagesIs
    <3>2. Input_Address = Before(2, x) % Images
      BY DEF AddressesOK
    <3> DEFINE d == r + c
    <3>3. d \in 0 .. Images - 1
      BY <3>1
    <3> HIDE DEF d
    <3>4. IsWire(To(send[2], Input_Address = d))
      BY <3>1, <3>2, <3>3, SentTo
    <3>5. Share(Before(2, x), Images, d) \in Nat
      BY <3>1, <3>2, <3>3, SentTo
    <3>6. Share(Before(2, y), Images, d) =
            Share(Before(2, x), Images, d) + Len(To(send[2], Input_Address = d))
      BY <3>1, <3>2, <3>3, SentTo
    <3> QED BY <2>1, <3>4, <3>5, <3>6, Zenon DEF d
  <2>3. t \in 0 .. l /\ l \in Nat
    BY <2>2, TakenIs, WireIs
  <2>4. w = v + t /\ v \in Nat /\ v <= s
    BY <1>2, <1>3 DEF ImageFlow
  <2> HIDE DEF t, l, s, u, v, w
  <2>5. w <= u
    BY ONLY <2>2, <2>3, <2>4
  <2> QED BY <2>5 DEF u, w
<1>4. ASSUME NEW r \in RowNo, NEW c \in ColNo, ~(r = 0 \/ c = LastCol)
      PROVE  ImagesIn(pe', j, r, c) + Len(pe'[<<r - 1, c + 1>>].I.P) <= ImagesIn(pe', j, r - 1, c + 1)
  <2> DEFINE q == r - 1
             d == c + 1
  <2>1. q \in RowNo /\ d \in ColNo /\ q # LastRow /\ d # 0 /\ q + 1 = r /\ d - 1 = c
    BY <1>4, Sizes DEF RowNo, ColNo
  <2>2. ImagesIn(pe, iss, r, c) + Len(pe[<<q, d>>].I.P) <= ImagesIn(pe, iss, q, d)
    BY <1>4 DEF ImageFlow
  <2>3. I_In(r, c, send) = DataOut(pe[<<q, d>>].I)
    BY <1>4 DEF I_In
  <2> HIDE DEF q, d
  <2>4. I_OutRdy(q, d) = DataInRdy(pe[<<r, c>>].I)
    <3>1. DataInRdy(pe[<<r, c>>].I) \in BOOLEAN /\ I_OutRdy(q, d) \in BOOLEAN
      BY DEF DataInRdy, I_OutRdy
    <3> QED BY <2>1, <3>1 DEF I_OutRdy
  <2>5. SideOK(pe[<<q, d>>].I)
    BY <2>1 DEF CellsOK, CellOK
  <2>6. taken(r, c) = One(pe[<<q, d>>].I.P # << >> /\ I_OutRdy(q, d))
    BY <2>3, <2>4, <2>5, Handed
  <2> DEFINE t == taken(r, c)
             u == taken(q, d)
             v == ImagesIn(pe, iss, r, c)
             w == ImagesIn(pe', j, r, c)
             vd == ImagesIn(pe, iss, q, d)
             wd == ImagesIn(pe', j, q, d)
             a == Len(pe[<<q, d>>].I.P)
             b == Len(pe'[<<q, d>>].I.P)
  <2>7. w = v + t /\ v \in Nat /\ t \in Nat
    BY <1>2
  <2>8. wd = vd + u /\ vd \in Nat /\ u \in Nat /\ b = a - t + u /\ a \in Nat
    BY <1>2, <2>1, <2>6
  <2>9. v + a <= vd
    BY <2>2
  <2> HIDE DEF t, u, v, w, vd, wd, a, b
  <2>10. w + b <= wd
    BY ONLY <2>7, <2>8, <2>9
  <2> QED BY <2>10 DEF w, b, wd, q, d
<1> HIDE DEF j
<1>5. ImageFlow(pe', y, j)
  BY <1>3, <1>4, Zenon DEF ImageFlow
<1> QED BY <1>5 DEF j

-----------------------------------------------------------------------------
(* The sums that the program has read. *)

ReadSums(popped) == {p \in ColNo \X Nat : p[2] < popped[p[1]]}

ReadFlow(x, popped) ==
    /\ IsFiniteSet(ReadSums(popped)) /\ Cardinality(ReadSums(popped)) = Before(4, x)
    /\ Before(4, x) >= Cols * Groups => \A c \in ColNo : popped[c] >= Groups

\* At first nothing is read.
LEMMA ReadSumsNone ==
    ASSUME NEW popped, \A c \in ColNo : popped[c] = 0
    PROVE  IsFiniteSet(ReadSums(popped)) /\ Cardinality(ReadSums(popped)) = 0
<1>1. ReadSums(popped) = {}
  BY DEF ReadSums
<1> QED BY <1>1, FS_EmptySet

\* One more sum of one column is read.
LEMMA ReadSumsOne ==
    ASSUME NEW popped \in [ColNo -> Nat], NEW after \in [ColNo -> Nat], NEW a \in ColNo,
           \A c \in ColNo : after[c] = popped[c] + One(c = a),
           IsFiniteSet(ReadSums(popped))
    PROVE  /\ IsFiniteSet(ReadSums(after))
           /\ Cardinality(ReadSums(after)) = Cardinality(ReadSums(popped)) + 1
<1> DEFINE S == ReadSums(popped)
           new == <<a, popped[a]>>
<1>1. ReadSums(after) = S \cup {new} /\ new \notin S
  <2>1. ASSUME NEW c \in ColNo, NEW k \in Nat
        PROVE  <<c, k>> \in ReadSums(after) <=> <<c, k>> \in S \cup {new}
    <3>1. <<c, k>> \in ReadSums(after) <=> k < after[c]
      BY DEF ReadSums
    <3>2. <<c, k>> \in S <=> k < popped[c]
      BY DEF ReadSums
    <3>3. <<c, k>> = new <=> c = a /\ k = popped[a]
      OBVIOUS
    <3>4. k < after[c] <=> k < popped[c] \/ (c = a /\ k = popped[c])
      BY DEF One
    <3> HIDE DEF S, new
    <3> QED BY <3>1, <3>2, <3>3, <3>4
  <2>2. ReadSums(after) \subseteq ColNo \X Nat /\ S \cup {new} \subseteq ColNo \X Nat
    BY DEF ReadSums
  <2>3. new \notin S
    BY DEF ReadSums
  <2> HIDE DEF S, new
  <2> QED BY <2>1, <2>2, <2>3
<1> HIDE DEF S, new
<1> QED BY <1>1, FS_AddElement DEF S

\* As many sums as the columns have at most: each column has all of them.
LEMMA ReadSumsFull ==
    ASSUME NEW popped \in [ColNo -> Nat], NEW m \in Nat, \A c \in ColNo : popped[c] <= m,
           IsFiniteSet(ReadSums(popped)), Cardinality(ReadSums(popped)) >= Cols * m,
           NEW c \in ColNo
    PROVE  popped[c] = m
<1> DEFINE F == ColNo \X (0 .. m - 1)
<1>1. IsFiniteSet(ColNo) /\ Cardinality(ColNo) = Cols
  <2>1. Cols \in Nat \ {0}
    BY Sizes
  <2>2. 0 \in Int /\ Cols - 1 \in Int /\ ~(0 > Cols - 1) /\ (Cols - 1) - 0 + 1 = Cols
    BY <2>1
  <2> QED BY <2>2, FS_Interval DEF ColNo
<1>2. IsFiniteSet(0 .. m - 1) /\ Cardinality(0 .. m - 1) = m
  <2>1. 0 \in Int /\ m - 1 \in Int /\ (IF 0 > m - 1 THEN 0 ELSE (m - 1) - 0 + 1) = m
    OBVIOUS
  <2> QED BY <2>1, FS_Interval
<1>3. IsFiniteSet(F) /\ Cardinality(F) = Cols * m
  BY <1>1, <1>2, FS_Product
<1>4. ReadSums(popped) \in SUBSET F
  BY DEF ReadSums
<1>5. ReadSums(popped) = F
  <2>1. Cardinality(ReadSums(popped)) \in Nat /\ Cardinality(F) \in Nat
    BY <1>3, FS_CardinalityType
  <2> HIDE DEF F
  <2>2. Cardinality(ReadSums(popped)) <= Cardinality(F)
    BY <1>3, <1>4, FS_Subset
  <2>3. Cardinality(F) = Cardinality(ReadSums(popped))
    BY <1>3, <2>1, <2>2
  <2> QED BY <1>3, <1>4, <2>3, FS_Subset
<1>6. CASE m = 0
  BY <1>6
<1>7. CASE m # 0
  <2>1. <<c, m - 1>> \in ReadSums(popped)
    BY <1>5, <1>7
  <2>2. m - 1 < popped[c]
    BY <2>1 DEF ReadSums
  <2> QED BY <2>2
<1> QED BY <1>6, <1>7

-----------------------------------------------------------------------------
(* What the flow says of one column. *)

\* A common factor is divided out.
LEMMA Smaller ==
    ASSUME NEW d \in Nat \ {0}, NEW a \in Int, NEW b \in Int, d * a <= d * b
    PROVE  a <= b
<1> SUFFICES ASSUME a > b PROVE FALSE
  OBVIOUS
<1>1. PICK t \in Nat : a = b + 1 + t
  <2>1. a - b - 1 \in Nat /\ a = b + 1 + (a - b - 1)
    OBVIOUS
  <2> QED BY <2>1
<1>2. d * a = d * b + d + d * t /\ d * t \in Nat /\ d * b \in Int
  BY <1>1
<1> QED BY <1>2

\* The load of an accumulator, in words and in sums.
LEMMA LoadIs ==
    ASSUME NEW cells, NEW sums, CellsOK(cells, sums), NEW c \in ColNo
    PROVE  LET a == sums[c]
               ready == Len(a.Ready) + a.Counter
               held == Held(a.Sums) + Len(a.Out)
           IN  /\ Len(a.Ready) \in Nat /\ a.Counter \in Nat
               /\ Held(a.Sums) \in Nat /\ Len(a.Out) \in Nat
               /\ ready \in Nat /\ held \in Nat /\ Load(a) = ready + NOPCount * held
<1> DEFINE a == sums[c]
<1>1. SumOK(a)
  BY DEF CellsOK
<1> HIDE DEF a
<1>2. /\ Len(a.Ready) \in Nat /\ Len(a.Out) \in Nat /\ Held(a.Sums) \in Nat
      /\ a.Counter \in Nat
  BY <1>1, QueueIs, FullIs, CellSizes DEF SumOK
<1>3. Load(a) = Len(a.Ready) + a.Counter + NOPCount * (Held(a.Sums) + Len(a.Out))
  BY DEF Load
<1> QED BY <1>2, <1>3 DEF a

\* The lengths in any cells, not only in those of the state.
LEMMA CellNumbers ==
    ASSUME NEW cells, NEW sums, CellsOK(cells, sums), NEW r \in RowNo, NEW c \in ColNo
    PROVE  /\ Len(cells[<<r, c>>].O) \in Nat /\ Held(cells[<<r, c>>].MAC) \in Nat
           /\ Len(cells[<<r, c>>].W.P) \in Nat /\ Len(cells[<<r, c>>].W.M) \in Nat
           /\ Len(cells[<<r, c>>].I.P) \in Nat /\ Len(cells[<<r, c>>].I.M) \in Nat
<1> DEFINE cell == cells[<<r, c>>]
<1>1. CellOK(cell)
  BY DEF CellsOK
<1> HIDE DEF cell
<1>2. MAC_Stages \in Nat \ {0} /\ IsPipe(cell.MAC, MAC_Stages)
  BY <1>1, CellSizes DEF CellOK
<1>3. Held(cell.MAC) \in Nat
  BY <1>2, FullIs
<1>4. /\ IsQueue(cell.O) /\ IsQueue(cell.W.P) /\ IsQueue(cell.W.M)
      /\ IsQueue(cell.I.P) /\ IsQueue(cell.I.M)
  BY <1>1 DEF CellOK, SideOK
<1>5. /\ Len(cell.O) \in Nat /\ Len(cell.W.P) \in Nat /\ Len(cell.W.M) \in Nat
      /\ Len(cell.I.P) \in Nat /\ Len(cell.I.M) \in Nat
  BY <1>4, QueueIs
<1> QED BY <1>3, <1>5 DEF cell

\* Down a column, a cell has issued no more than the one above it.
LEMMA Down ==
    ASSUME NEW cells, NEW sums, CellsOK(cells, sums), NEW x \in Here,
           NEW iss, NEW popped, Counted(iss, popped), ColumnFlow(cells, sums, x, iss, popped),
           NEW c \in ColNo, NEW r \in RowNo
    PROVE  iss[<<LastRow, c>>] <= iss[<<r, c>>] /\ iss[<<r, c>>] <= Share(Before(3, x), Cols, c)
<1> DEFINE i(q) == iss[<<q, c>>]
           share == Share(Before(3, x), Cols, c)
<1>1. \A q \in RowNo : i(q) \in Nat
  BY DEF Counted
<1>2. \A q \in RowNo \ {0} : i(q) <= i(q - 1)
  <2> SUFFICES ASSUME NEW q \in RowNo \ {0} PROVE i(q) <= i(q - 1)
    OBVIOUS
  <2> DEFINE up == q - 1
  <2>1. up \in RowNo /\ q \in RowNo
    BY Sizes
  <2>2. Len(cells[<<q, c>>].O) + i(q) + Held(cells[<<up, c>>].MAC) <= i(up)
    BY DEF ColumnFlow
  <2>3. Len(cells[<<q, c>>].O) \in Nat /\ Held(cells[<<up, c>>].MAC) \in Nat
    BY <2>1, CellNumbers
  <2>4. i(q) \in Nat /\ i(up) \in Nat
    BY <1>1, <2>1
  <2> DEFINE l == Len(cells[<<q, c>>].O)
             h == Held(cells[<<up, c>>].MAC)
  <2> HIDE DEF l, h, i, up
  <2>5. i(q) <= i(up)
    BY <2>2, <2>3, <2>4 DEF l, h
  <2> QED BY <2>5 DEF up
<1>3. share \in Nat /\ i(0) <= share
  <2>1. 3 \in Kinds /\ c \in 0 .. Cols - 1 /\ Cols \in Nat \ {0} /\ 0 \in RowNo
    BY Sizes DEF Kinds, ColNo
  <2>2. Before(3, x) \in Nat
    BY <2>1, BeforeIs
  <2>3. share \in Nat
    BY <2>1, <2>2, ShareStep
  <2>4. Len(cells[<<0, c>>].O) + i(0) <= share
    BY DEF ColumnFlow
  <2>5. Len(cells[<<0, c>>].O) \in Nat /\ i(0) \in Nat
    BY <1>1, <2>1, CellNumbers
  <2> DEFINE l == Len(cells[<<0, c>>].O)
  <2> HIDE DEF l, i, share
  <2> QED BY <2>3, <2>4, <2>5 DEF l
<1> HIDE DEF i, share
<1>4. Rows \in Nat \ {0} /\ RowNo = 0 .. Rows - 1 /\ LastRow = Rows - 1
  BY Sizes DEF RowNo, LastRow
<1>5. i(r) <= share
  <2> DEFINE S == {q \in Nat : q \in RowNo => i(q) <= share}
  <2>1. 0 \in S
    BY <1>3
  <2>2. ASSUME NEW q \in Nat, q \in S PROVE q + 1 \in S
    <3> SUFFICES ASSUME q + 1 \in RowNo PROVE i(q + 1) <= share
      OBVIOUS
    <3>1. q \in RowNo /\ q + 1 \in RowNo \ {0} /\ (q + 1) - 1 = q
      BY <1>4
    <3>2. i(q + 1) <= i(q) /\ i(q) <= share
      BY <1>2, <2>2, <3>1
    <3>3. i(q + 1) \in Nat /\ i(q) \in Nat
      BY <1>1, <3>1
    <3> QED BY <1>3, <3>2, <3>3
  <2> HIDE DEF S
  <2>3. Nat \subseteq S
    BY <2>1, <2>2, Induction
  <2>4. r \in S
    BY <1>4, <2>3
  <2> QED BY <2>4 DEF S
<1>6. i(LastRow) <= i(r)
  <2> DEFINE S == {q \in Nat : LastRow - q \in RowNo => i(LastRow) <= i(LastRow - q)}
  <2>1. 0 \in S
    <3>1. LastRow - 0 = LastRow /\ LastRow \in RowNo
      BY <1>4
    <3>2. i(LastRow) \in Nat
      BY <1>1, <3>1
    <3> QED BY <3>1, <3>2
  <2>2. ASSUME NEW q \in Nat, q \in S PROVE q + 1 \in S
    <3> DEFINE u == LastRow - (q + 1)
               v == LastRow - q
    <3> SUFFICES ASSUME u \in RowNo PROVE i(LastRow) <= i(u)
      OBVIOUS
    <3>1. v \in RowNo \ {0} /\ v \in RowNo /\ v - 1 = u /\ LastRow \in RowNo
      BY <1>4
    <3>2. i(LastRow) <= i(v)
      BY <2>2, <3>1
    <3> HIDE DEF u, v
    <3>3. i(v) <= i(u)
      BY <1>2, <3>1
    <3>4. i(LastRow) \in Nat /\ i(v) \in Nat /\ i(u) \in Nat
      BY <1>1, <3>1
    <3> QED BY <3>2, <3>3, <3>4
  <2> HIDE DEF S
  <2>3. Nat \subseteq S
    BY <2>1, <2>2, Induction
  <2>4. LastRow - r \in Nat /\ LastRow - (LastRow - r) = r
    BY <1>4
  <2>5. LastRow - r \in S
    BY <2>3, <2>4
  <2> QED BY <2>4, <2>5 DEF S
<1> QED BY <1>5, <1>6 DEF i, share

\* A column has made and given away no more sums than the words it was sent
\* allow.
LEMMA ColumnBound ==
    ASSUME NEW cells, NEW sums, CellsOK(cells, sums), NEW x \in Here,
           NEW iss, NEW popped, Counted(iss, popped), ColumnFlow(cells, sums, x, iss, popped),
           NEW c \in ColNo, NEW m \in Nat, Before(3, x) <= Cols * (NOPCount * m)
    PROVE  Held(sums[c].Sums) + Len(sums[c].Out) + popped[c] <= m
<1> DEFINE share == Share(Before(3, x), Cols, c)
           last == iss[<<LastRow, c>>]
           mac == Held(cells[<<LastRow, c>>].MAC)
           load == Load(sums[c])
           p == popped[c]
           ready == Len(sums[c].Ready) + sums[c].Counter
           held == Held(sums[c].Sums) + Len(sums[c].Out)
<1>1. /\ NOPCount \in Nat \ {0} /\ Cols \in Nat \ {0} /\ LastRow \in RowNo
      /\ c \in 0 .. Cols - 1 /\ 3 \in Kinds
  BY Sizes DEF ColNo, Kinds
<1>2. share \in Nat /\ share <= NOPCount * m
  <2>1. Before(3, x) \in Nat
    BY <1>1, BeforeIs
  <2>2. NOPCount * m \in Nat
    BY <1>1
  <2> QED BY <1>1, <2>1, <2>2, ShareStep, ShareBound
<1>3. last \in Nat /\ p \in Nat /\ last <= share
  <2>1. last \in Nat /\ p \in Nat
    BY <1>1 DEF Counted
  <2> QED BY <1>1, <2>1, Down
<1>4. mac \in Nat /\ load + NOPCount * p + mac <= last
  BY <1>1, CellNumbers DEF ColumnFlow
<1>5. load = ready + NOPCount * held /\ ready \in Nat /\ held \in Nat
  BY LoadIs
<1>6. p \in Nat /\ held \in Nat /\ m \in Nat
  BY <1>3, <1>5
<1> HIDE DEF share, last, mac, load, p, ready, held
<1>7. NOPCount * (held + p) <= NOPCount * m
  <2>1. NOPCount * (held + p) = NOPCount * held + NOPCount * p
    BY <1>1, <1>6
  <2>2. NOPCount * held \in Nat /\ NOPCount * p \in Nat /\ NOPCount * m \in Nat
    BY <1>1, <1>6
  <2> DEFINE nh == NOPCount * held
             np == NOPCount * p
             nm == NOPCount * m
             nhp == NOPCount * (held + p)
  <2>3. /\ nh \in Nat /\ np \in Nat /\ nm \in Nat /\ nhp = nh + np
        /\ load = ready + nh /\ load + np + mac <= last /\ share <= nm
    BY <1>2, <1>4, <1>5, <2>1, <2>2
  <2>4. share \in Nat /\ last \in Nat /\ last <= share /\ mac \in Nat /\ ready \in Nat
    BY <1>2, <1>3, <1>4, <1>5
  <2> HIDE DEF nh, np, nm, nhp
  <2>5. nhp <= nm
    BY ONLY <2>3, <2>4
  <2> QED BY <2>5 DEF nhp, nm
<1>8. held + p <= m
  <2>1. held + p \in Int /\ m \in Int
    BY <1>6
  <2> QED BY <1>1, <1>7, <2>1, Smaller
<1> QED BY <1>8 DEF held, p

-----------------------------------------------------------------------------
(* The invariant of the array: the flow, for some count of what it has done. *)

Flow(cells, sums, x, iss, popped) ==
    /\ Counted(iss, popped)
    /\ ColumnFlow(cells, sums, x, iss, popped)
    /\ WeightFlow(cells, x, iss)
    /\ ImageFlow(cells, x, iss)
    /\ ReadFlow(x, popped)

ArrayInv ==
    /\ pc \in Here
    /\ CellsOK(pe, acc)
    /\ AddressesOK(pc)
    /\ Output_Read_Address \in ColNo
    /\ \E iss, popped : Flow(pe, acc, pc, iss, popped)

\* All instructions of each kind.
LEMMA TotalIs ==
    /\ Total(1) = Rows * (NOPCount * AllGroups)
    /\ Total(2) = Images * (NOPCount * AllGroups)
    /\ Total(3) = Cols * (NOPCount * AllGroups)
    /\ Total(4) = Cols * AllGroups
    /\ AllGroups \in Nat /\ NOPCount * AllGroups \in Nat
<1>1. AllGroups \in Nat /\ Cols * AllGroups \in Nat /\ NOPCount * AllGroups \in Nat
  BY GroupsIs, Sizes
<1>2. Sent(AllGroups, Cols * AllGroups) =
        Counts(Rows * (NOPCount * AllGroups), Images * (NOPCount * AllGroups),
               Cols * (NOPCount * AllGroups), Cols * AllGroups)
  BY <1>1, SentIs
<1>3. /\ Rows * (NOPCount * AllGroups) \in Nat
      /\ Images * (NOPCount * AllGroups) \in Nat
      /\ Cols * (NOPCount * AllGroups) \in Nat
  BY <1>1, Sizes, ImagesIs
<1> DEFINE a == Rows * (NOPCount * AllGroups)
           b == Images * (NOPCount * AllGroups)
           c == Cols * (NOPCount * AllGroups)
           d == Cols * AllGroups
           all == Sent(AllGroups, Cols * AllGroups)
<1>4. Total(1) = all[1] /\ Total(2) = all[2] /\ Total(3) = all[3] /\ Total(4) = all[4]
  BY DEF Total
<1>5. all = Counts(a, b, c, d) /\ a \in Nat /\ b \in Nat /\ c \in Nat /\ d \in Nat
  BY <1>1, <1>2, <1>3
<1> HIDE DEF a, b, c, d, all
<1>6. all[1] = a /\ all[2] = b /\ all[3] = c /\ all[4] = d
  BY <1>5 DEF Counts, Kinds
<1> QED BY <1>1, <1>4, <1>6 DEF a, b, c, d

-----------------------------------------------------------------------------
(* A reset empties everything. *)

\* An array that holds nothing is at the beginning of the program.
LEMMA ResetFlow ==
    ASSUME NEW cells, NEW sums, NEW iss, NEW popped, Counted(iss, popped),
           \A r \in RowNo, c \in ColNo : cells[<<r, c>>] = PEReset /\ iss[<<r, c>>] = 0,
           \A c \in ColNo : sums[c] = ACCReset /\ popped[c] = 0
    PROVE  CellsOK(cells, sums) /\ Flow(cells, sums, 1, iss, popped)
<1>1. /\ CellSizes /\ 0 \in Nat /\ 1 \in Kinds /\ 2 \in Kinds /\ 3 \in Kinds /\ 4 \in Kinds
  BY CellSizes DEF Kinds
<1>2. Before(1, 1) = 0 /\ Before(2, 1) = 0 /\ Before(3, 1) = 0 /\ Before(4, 1) = 0
  BY <1>1, BeforeIs
<1>3. /\ IsPipe(Pipe(MAC_Stages), MAC_Stages) /\ Held(Pipe(MAC_Stages)) = 0
      /\ IsPipe(Pipe(ADD_Stages), ADD_Stages) /\ Held(Pipe(ADD_Stages)) = 0
  BY CellSizes, PipeIs, FS_EmptySet DEF Held
<1>4. IsQueue(<< >>) /\ Len(<< >>) = 0
  <2>1. << >> \in Seq({})
    OBVIOUS
  <2> QED BY <2>1 DEF IsQueue
<1>5. \A r \in RowNo, c \in ColNo :
         /\ cells[<<r, c>>] = PEReset /\ iss[<<r, c>>] = 0
  OBVIOUS
<1>6. \A c \in ColNo : sums[c] = ACCReset /\ popped[c] = 0
  OBVIOUS
<1>7. /\ CellOK(PEReset)
      /\ Len(PEReset.O) = 0 /\ Held(PEReset.MAC) = 0
      /\ Len(PEReset.W.P) = 0 /\ Len(PEReset.W.M) = 0
      /\ Len(PEReset.I.P) = 0 /\ Len(PEReset.I.M) = 0
  <2>1. /\ PEReset.O = << >> /\ PEReset.MAC = Pipe(MAC_Stages)
        /\ PEReset.W = SideReset /\ PEReset.I = SideReset
        /\ SideReset.P = << >> /\ SideReset.M = << >>
    BY DEF PEReset, SideReset
  <2>2. SideOK(SideReset)
    BY <1>4, <2>1 DEF SideOK
  <2>3. CellOK(PEReset)
    BY <1>3, <1>4, <2>1, <2>2 DEF CellOK
  <2> QED BY <1>3, <1>4, <2>1, <2>3
<1>8. SumOK(ACCReset) /\ Load(ACCReset) = 0
  <2>1. /\ ACCReset.Ready = << >> /\ ACCReset.Out = << >>
        /\ ACCReset.Sums = Pipe(ADD_Stages) /\ ACCReset.Counter = 0
    BY DEF ACCReset
  <2>2. 0 \in 0 .. NOPCount - 1 /\ NOPCount * (0 + 0) = 0
    BY CellSizes
  <2>3. SumOK(ACCReset)
    BY <1>3, <1>4, <2>1, <2>2 DEF SumOK
  <2>4. Load(ACCReset) = 0
    BY <1>3, <1>4, <2>1, <2>2 DEF Load
  <2> QED BY <2>3, <2>4
<1>9. CellsOK(cells, sums)
  BY <1>5, <1>6, <1>7, <1>8 DEF CellsOK
<1>10. \A r \in RowNo, c \in ColNo :
         /\ Len(cells[<<r, c>>].O) = 0 /\ Held(cells[<<r, c>>].MAC) = 0
         /\ Len(cells[<<r, c>>].W.P) = 0 /\ Len(cells[<<r, c>>].W.M) = 0
         /\ Len(cells[<<r, c>>].I.P) = 0 /\ Len(cells[<<r, c>>].I.M) = 0
         /\ iss[<<r, c>>] = 0
  BY <1>5, <1>7
<1>11. \A c \in ColNo : Load(sums[c]) = 0 /\ popped[c] = 0
  BY <1>6, <1>8
<1>12. 0 \in RowNo /\ 0 \in ColNo /\ LastRow \in RowNo
  BY Sizes
<1>13. Counted(iss, popped)
  OBVIOUS
<1>14. ColumnFlow(cells, sums, 1, iss, popped)
  <2> SUFFICES ASSUME NEW c \in ColNo
      PROVE  /\ Len(cells[<<0, c>>].O) + iss[<<0, c>>] <= Share(Before(3, 1), Cols, c)
             /\ \A r \in RowNo \ {0} :
                   Len(cells[<<r, c>>].O) + iss[<<r, c>>] + Held(cells[<<r - 1, c>>].MAC) <= iss[<<r - 1, c>>]
             /\ Load(sums[c]) + NOPCount * popped[c] + Held(cells[<<LastRow, c>>].MAC) <= iss[<<LastRow, c>>]
    BY DEF ColumnFlow
  <2>1. Share(Before(3, 1), Cols, c) = 0
    BY <1>2, Sizes, ShareNone DEF ColNo
  <2>2. Len(cells[<<0, c>>].O) + iss[<<0, c>>] <= Share(Before(3, 1), Cols, c)
    BY <1>10, <1>12, <2>1
  <2>3. ASSUME NEW r \in RowNo \ {0}
        PROVE  Len(cells[<<r, c>>].O) + iss[<<r, c>>] + Held(cells[<<r - 1, c>>].MAC) <= iss[<<r - 1, c>>]
    <3>1. r \in RowNo /\ r - 1 \in RowNo
      BY Sizes
    <3> QED BY <1>10, <3>1
  <2>4. Load(sums[c]) + NOPCount * popped[c] + Held(cells[<<LastRow, c>>].MAC) <= iss[<<LastRow, c>>]
    <3>1. NOPCount * popped[c] = 0
      BY <1>11, Sizes
    <3> QED BY <1>10, <1>11, <1>12, <3>1
  <2> QED BY <2>2, <2>3, <2>4
<1>15. \A r \in RowNo, c \in ColNo :
          WeightsIn(cells, iss, r, c) = 0 /\ ImagesIn(cells, iss, r, c) = 0
  <2> SUFFICES ASSUME NEW r \in RowNo, NEW c \in ColNo
               PROVE  WeightsIn(cells, iss, r, c) = 0 /\ ImagesIn(cells, iss, r, c) = 0
    OBVIOUS
  <2>1. /\ Len(cells[<<r, c>>].W.M) = 0 /\ Len(cells[<<r, c>>].I.M) = 0
        /\ iss[<<r, c>>] = 0
    BY <1>10
  <2> QED BY ONLY <2>1 DEF WeightsIn, ImagesIn
<1>16. WeightFlow(cells, 1, iss)
  <2> SUFFICES ASSUME NEW r \in RowNo
      PROVE  /\ WeightsIn(cells, iss, r, 0) <= Share(Before(1, 1), Rows, r)
             /\ \A c \in ColNo \ {0} :
                   WeightsIn(cells, iss, r, c) + Len(cells[<<r, c - 1>>].W.P) <= WeightsIn(cells, iss, r, c - 1)
    BY DEF WeightFlow
  <2>1. Share(Before(1, 1), Rows, r) = 0
    BY <1>2, Sizes, ShareNone DEF RowNo
  <2>2. WeightsIn(cells, iss, r, 0) <= Share(Before(1, 1), Rows, r)
    BY <1>15, <2>1, Sizes
  <2>3. ASSUME NEW c \in ColNo \ {0}
        PROVE  WeightsIn(cells, iss, r, c) + Len(cells[<<r, c - 1>>].W.P) <= WeightsIn(cells, iss, r, c - 1)
    <3>1. c \in ColNo /\ c - 1 \in ColNo
      BY Sizes
    <3> QED BY <1>10, <1>15, <3>1
  <2> QED BY <2>2, <2>3
<1>17. ImageFlow(cells, 1, iss)
  <2> SUFFICES ASSUME NEW r \in RowNo, NEW c \in ColNo
      PROVE  IF r = 0 \/ c = LastCol
             THEN ImagesIn(cells, iss, r, c) <= Share(Before(2, 1), Images, r + c)
             ELSE ImagesIn(cells, iss, r, c) + Len(cells[<<r - 1, c + 1>>].I.P)
                     <= ImagesIn(cells, iss, r - 1, c + 1)
    BY DEF ImageFlow
  <2>1. CASE r = 0 \/ c = LastCol
    <3>1. Share(Before(2, 1), Images, r + c) = 0
      BY <1>2, Sizes, ImagesIs, ShareNone
    <3> QED BY <1>15, <2>1, <3>1
  <2>2. CASE ~(r = 0 \/ c = LastCol)
    <3>1. r - 1 \in RowNo /\ c + 1 \in ColNo
      BY <2>2, Sizes
    <3>2. ImagesIn(cells, iss, r, c) + Len(cells[<<r - 1, c + 1>>].I.P)
                     <= ImagesIn(cells, iss, r - 1, c + 1)
      BY <1>10, <1>15, <3>1
    <3> QED BY <2>2, <3>2
  <2> QED BY <2>1, <2>2
<1>18. ReadFlow(1, popped)
  <2>1. IsFiniteSet(ReadSums(popped)) /\ Cardinality(ReadSums(popped)) = Before(4, 1)
    BY <1>2, <1>11, ReadSumsNone
  <2>2. ~(Before(4, 1) >= Cols * Groups)
    <3>1. Cols * Groups \in Nat \ {0}
      BY Sizes, GroupsIs
    <3> QED BY <1>2, <3>1
  <2> QED BY <2>1, <2>2 DEF ReadFlow
<1> QED BY <1>9, <1>13, <1>14, <1>16, <1>17, <1>18 DEF Flow

\* Resetting the array and going back to the first instruction.
LEMMA ResetInv ==
    /\ (Init /\ pc = 1) => ArrayInv
    /\ (Reset /\ pc' = 1) => ArrayInv'
<1> DEFINE cells == [rc \in RowNo \X ColNo |-> PEReset]
           sums == [c \in ColNo |-> ACCReset]
           iss == [rc \in RowNo \X ColNo |-> 0]
           popped == [c \in ColNo |-> 0]
<1>1. CellsOK(cells, sums) /\ Flow(cells, sums, 1, iss, popped)
  <2>1. Counted(iss, popped)
    BY DEF Counted
  <2>2. \A r \in RowNo, c \in ColNo : cells[<<r, c>>] = PEReset /\ iss[<<r, c>>] = 0
    OBVIOUS
  <2>3. \A c \in ColNo : sums[c] = ACCReset /\ popped[c] = 0
    OBVIOUS
  <2> HIDE DEF cells, sums, iss, popped
  <2> QED BY <2>1, <2>2, <2>3, ResetFlow
<1>2. 1 \in Here /\ 0 \in ColNo
  BY BeforeIs, Sizes DEF Here
<1>3. 0 = Before(1, 1) % Rows /\ 0 = Before(2, 1) % Images /\ 0 = Before(3, 1) % Cols
  <2>1. Before(1, 1) = 0 /\ Before(2, 1) = 0 /\ Before(3, 1) = 0
    BY BeforeIs DEF Kinds
  <2>2. 0 % Rows = 0 /\ 0 % Cols = 0 /\ 0 % Images = 0
    BY Sizes, ImagesIs
  <2> QED BY <2>1, <2>2
<1>4. ASSUME Init, pc = 1 PROVE ArrayInv
  <2>1. pe = cells /\ acc = sums /\ Output_Read_Address = 0
    BY <1>4 DEF Init
  <2>2. AddressesOK(pc)
    BY <1>3, <1>4 DEF Init, AddressesOK
  <2> HIDE DEF cells, sums, iss, popped
  <2> QED BY <1>1, <1>2, <1>4, <2>1, <2>2 DEF ArrayInv
<1>5. ASSUME Reset, pc' = 1 PROVE ArrayInv'
  <2>1. pe' = cells /\ acc' = sums /\ Output_Read_Address' = 0
    BY <1>5 DEF Reset
  <2>2. AddressesOK(pc)'
    BY <1>3, <1>5 DEF Reset, AddressesOK
  <2> HIDE DEF cells, sums, iss, popped
  <2> QED BY <1>1, <1>2, <1>5, <2>1, <2>2 DEF ArrayInv
<1> QED BY <1>4, <1>5

\* What an instruction puts on the wires.
Sending(n, start, word) == [k \in 1 .. 3 |-> To(<<word>>, n = k /\ (start \/ k = 4))]

\* The instruction n sends at most one word, on the wire of its kind.
LEMMA ClockIs ==
    ASSUME NEW n \in 0 .. 4, NEW start \in BOOLEAN, NEW word, Clock(n, start, word)
    PROVE  LET send == Sending(n, start, word)
           IN  /\ Clocked(send, n = 4)
               /\ \A k \in 1 .. 3 : IsWire(send[k]) /\ Len(send[k]) = One(n = k /\ start)
               /\ Kernel_Address' = Counter(Kernel_Address, n = 1 /\ start, Rows)
               /\ Input_Address' = Counter(Input_Address, n = 2 /\ start, Images)
               /\ Output_Write_Address' = Counter(Output_Write_Address, n = 3 /\ start, Cols)
               /\ Output_Read_Address' = ReadAddress(n = 4)
<1>1. (n = 4 /\ (start \/ 4 = 4)) = (n = 4)
  OBVIOUS
<1>2. /\ (n = 1 /\ (start \/ 1 = 4)) = (n = 1 /\ start)
      /\ (n = 2 /\ (start \/ 2 = 4)) = (n = 2 /\ start)
      /\ (n = 3 /\ (start \/ 3 = 4)) = (n = 3 /\ start)
  OBVIOUS
<1>3. Clocked(Sending(n, start, word), n = 4)
  BY <1>1, Zenon DEF Clock, Clocked, Sending
<1>4. /\ Kernel_Address' = Counter(Kernel_Address, n = 1 /\ start, Rows)
      /\ Input_Address' = Counter(Input_Address, n = 2 /\ start, Images)
      /\ Output_Write_Address' = Counter(Output_Write_Address, n = 3 /\ start, Cols)
      /\ Output_Read_Address' = ReadAddress(n = 4)
  BY <1>1, <1>2, Zenon DEF Clock
<1>5. ASSUME NEW k \in 1 .. 3
      PROVE  /\ IsWire(Sending(n, start, word)[k])
             /\ Len(Sending(n, start, word)[k]) = One(n = k /\ start)
  <2>1. Sending(n, start, word)[k] = To(<<word>>, n = k /\ start)
    BY DEF Sending
  <2>2. IsWire(<<word>>) /\ Len(<<word>>) = 1
    BY DEF IsWire
  <2>3. IsWire(Nothing) /\ Len(Nothing) = 0
    BY NothingIs
  <2>4. CASE n = k /\ start
    <3>1. To(<<word>>, n = k /\ start) = <<word>> /\ One(n = k /\ start) = 1
      BY <2>4 DEF To, One
    <3> QED BY <2>1, <2>2, <3>1
  <2>5. CASE ~(n = k /\ start)
    <3>1. To(<<word>>, n = k /\ start) = Nothing /\ One(n = k /\ start) = 0
      BY <2>5 DEF To, One
    <3> QED BY <2>1, <2>3, <3>1
  <2> QED BY <2>4, <2>5
<1> QED BY <1>3, <1>4, <1>5

\* An address counts the words sent to it.
LEMMA CounterStep ==
    ASSUME NEW size \in Nat \ {0}, NEW q \in Nat, NEW en \in BOOLEAN
    PROVE  Counter(q % size, en, size) = (q + One(en)) % size
<1>1. 0 \in 0 .. size - 1
  OBVIOUS
<1>2. (q + 1) % size = ((q % size) + 1) % size
  BY <1>1, ShareStep
<1>3. CASE en
  BY <1>2, <1>3 DEF Counter, One
<1>4. CASE ~en
  BY <1>4 DEF Counter, One
<1> QED BY <1>3, <1>4

\* The read address stays in the array.
LEMMA ReadAddressIs ==
    ASSUME Output_Read_Address \in ColNo, NEW read \in BOOLEAN
    PROVE  ReadAddress(read) \in ColNo
<1>1. Cols \in Nat \ {0} /\ 0 \in ColNo
  BY Sizes
<1>2. (Output_Read_Address + 1) % Cols \in 0 .. Cols - 1
  <2>1. Output_Read_Address + 1 \in Nat
    BY <1>1 DEF ColNo
  <2> QED BY <1>1, <2>1, DivMod
<1> QED BY <1>1, <1>2 DEF ReadAddress, Counter, ColNo

\* At most one sum is read in a clock, that of the column addressed.
LEMMA ReadClock ==
    ASSUME NEW cells, NEW sums, CellsOK(cells, sums), Output_Read_Address \in ColNo,
           NEW x \in Here, NEW y \in Here, NEW read \in BOOLEAN,
           NEW iss, NEW popped, Counted(iss, popped), ReadFlow(x, popped),
           NEW iss2, Counted(iss2, Popped(popped, read)),
           ColumnFlow(cells, sums, y, iss2, Popped(popped, read)),
           Before(4, y) = Before(4, x)
                            + One(read /\ ACC_DataOutValid(acc[Output_Read_Address])),
           read => Before(3, y) = Before(3, x)
    PROVE  ReadFlow(y, Popped(popped, read))
<1> DEFINE after == Popped(popped, read)
           taken == read /\ ACC_DataOutValid(acc[Output_Read_Address])
<1>1. popped \in [ColNo -> Nat] /\ after \in [ColNo -> Nat]
  BY DEF Counted
<1>2. \A c \in ColNo : after[c] = popped[c] + One(taken /\ c = Output_Read_Address)
  <2> SUFFICES ASSUME NEW c \in ColNo
               PROVE  after[c] = popped[c] + One(taken /\ c = Output_Read_Address)
    OBVIOUS
  <2>1. after[c] = popped[c] + One(Pops(c, read))
    BY DEF Popped
  <2>2. Pops(c, read) = (taken /\ c = Output_Read_Address)
    <3>1. Pops(c, read) <=> (taken /\ c = Output_Read_Address)
      BY DEF Pops, ACC_DataOutRdy
    <3> QED BY <3>1 DEF Pops, ACC_DataOutRdy, ACC_DataOutValid
  <2> QED BY <2>1, <2>2
<1>3. /\ IsFiniteSet(ReadSums(popped)) /\ Cardinality(ReadSums(popped)) = Before(4, x)
      /\ Before(4, x) >= Cols * Groups => \A c \in ColNo : popped[c] >= Groups
  BY DEF ReadFlow
<1>4. /\ Before(4, x) \in Nat /\ Before(4, y) \in Nat /\ Before(3, x) \in Nat
      /\ Before(3, x) <= Cols * (NOPCount * Groups) \/ Before(4, x) >= Cols * Groups
  BY BeforeIs DEF Kinds
<1>5. Before(4, y) = Before(4, x) + One(taken)
  OBVIOUS
<1>6. taken => read
  OBVIOUS
<1>7. taken \in BOOLEAN
  BY DEF ACC_DataOutValid
<1> HIDE DEF after, taken
<1>8. IsFiniteSet(ReadSums(after)) /\ Cardinality(ReadSums(after)) = Before(4, y)
  <2>1. CASE taken
    <3>1. \A c \in ColNo : after[c] = popped[c] + One(c = Output_Read_Address)
      BY <1>2, <2>1
    <3>2. /\ IsFiniteSet(ReadSums(after))
          /\ Cardinality(ReadSums(after)) = Cardinality(ReadSums(popped)) + 1
      BY <1>1, <1>3, <3>1, ReadSumsOne
    <3>3. One(taken) = 1
      BY <2>1 DEF One
    <3> QED BY <1>3, <1>5, <3>2, <3>3
  <2>2. CASE ~taken
    <3>1. \A c \in ColNo : after[c] = popped[c]
      <4>1. One(FALSE) = 0
        BY DEF One
      <4>2. \A c \in ColNo : (taken /\ c = Output_Read_Address) = FALSE
        BY <2>2
      <4>3. \A c \in ColNo : after[c] = popped[c] + 0 /\ popped[c] \in Nat
        BY <1>1, <1>2, <4>1, <4>2
      <4> QED BY <4>3
    <3>2. after = popped
      BY <1>1, <3>1
    <3>3. One(taken) = 0
      BY <2>2 DEF One
    <3> QED BY <1>3, <1>4, <1>5, <3>2, <3>3
  <2> QED BY <2>1, <2>2
<1>9. ASSUME Before(4, y) >= Cols * Groups, NEW c \in ColNo
      PROVE  after[c] >= Groups
  <2>1. after[c] >= popped[c] /\ after[c] \in Nat /\ popped[c] \in Nat
    <3>1. after[c] \in Nat /\ popped[c] \in Nat
      BY <1>1
    <3>2. One(taken /\ c = Output_Read_Address) \in Nat
      BY DEF One
    <3> QED BY <1>2, <3>1, <3>2
  <2>2. Groups \in Nat /\ Cols \in Nat /\ Cols * Groups \in Nat
    BY GroupsIs, Sizes
  <2>3. CASE Before(4, x) >= Cols * Groups
    BY <1>3, <2>1, <2>2, <2>3
  <2>4. CASE ~(Before(4, x) >= Cols * Groups)
    <3>1. taken
      <4>1. ~taken => Before(4, y) = Before(4, x)
        BY <1>4, <1>5 DEF One
      <4> QED BY <1>9, <2>4, <4>1
    <3>2. Before(3, y) <= Cols * (NOPCount * Groups)
      BY <1>4, <1>6, <2>4, <3>1
    <3>3. ASSUME NEW d \in ColNo PROVE after[d] <= Groups
      <4>1. Held(sums[d].Sums) + Len(sums[d].Out) + after[d] <= Groups
        BY <2>2, <3>2, ColumnBound DEF after
      <4>2. /\ Held(sums[d].Sums) \in Nat /\ Len(sums[d].Out) \in Nat
        BY LoadIs
      <4>3. after[d] \in Nat
        BY <1>1
      <4> QED BY <2>2, <4>1, <4>2, <4>3
    <3>4. Cardinality(ReadSums(after)) >= Cols * Groups
      BY <1>8, <1>9
    <3>5. after[c] = Groups
      BY <1>1, <1>8, <2>2, <3>3, <3>4, ReadSumsFull
    <3> QED BY <2>2, <3>5
  <2> QED BY <2>3, <2>4
<1> QED BY <1>8, <1>9 DEF ReadFlow, after

\* A clock keeps the invariant, whatever instruction it carries, if the place in
\* the program moves on by the words it sends and the sum it reads.
LEMMA ClockInv ==
    ASSUME ArrayInv, NEW n \in 0 .. 4, NEW start \in BOOLEAN, NEW word,
           Clock(n, start, word), pc' \in Here,
           \A k \in 1 .. 3 : Before(k, pc') = Before(k, pc) + One(n = k /\ start),
           Before(4, pc') = Before(4, pc)
                              + One(n = 4 /\ ACC_DataOutValid(acc[Output_Read_Address]))
    PROVE  ArrayInv'
<1> DEFINE send == Sending(n, start, word)
           read == n = 4
           y == pc'
<1>1. PICK iss, popped : Flow(pe, acc, pc, iss, popped)
  BY DEF ArrayInv
<1>2. /\ pc \in Here /\ CellsOK(pe, acc) /\ AddressesOK(pc) /\ Output_Read_Address \in ColNo
      /\ Counted(iss, popped) /\ ColumnFlow(pe, acc, pc, iss, popped)
      /\ WeightFlow(pe, pc, iss) /\ ImageFlow(pe, pc, iss) /\ ReadFlow(pc, popped)
  BY <1>1 DEF ArrayInv, Flow
<1>3. /\ Clocked(send, read)
      /\ \A k \in 1 .. 3 : IsWire(send[k]) /\ Len(send[k]) = One(n = k /\ start)
      /\ Kernel_Address' = Counter(Kernel_Address, n = 1 /\ start, Rows)
      /\ Input_Address' = Counter(Input_Address, n = 2 /\ start, Images)
      /\ Output_Write_Address' = Counter(Output_Write_Address, n = 3 /\ start, Cols)
      /\ Output_Read_Address' = ReadAddress(read)
  BY ClockIs
<1>4. read \in BOOLEAN /\ 1 \in 1 .. 3 /\ 2 \in 1 .. 3 /\ 3 \in 1 .. 3
  OBVIOUS
<1>5. /\ Before(1, pc) \in Nat /\ Before(2, pc) \in Nat /\ Before(3, pc) \in Nat
  BY <1>2, BeforeIs DEF Kinds
<1>6. Sends(send, pc, y)
  <2>1. \A k \in 1 .. 3 : Before(k, y) = Before(k, pc) + Len(send[k])
    BY <1>3
  <2>2. IsWire(send[1]) /\ IsWire(send[2]) /\ IsWire(send[3])
    BY <1>3, <1>4
  <2> HIDE DEF send
  <2> QED BY <1>2, <2>1, <2>2 DEF Sends
<1>7. AddressesOK(pc)'
  <2>1. Kernel_Address' = Before(1, y) % Rows
    <3>1. Kernel_Address = Before(1, pc) % Rows /\ Rows \in Nat \ {0}
      BY <1>2, Sizes DEF AddressesOK
    <3> DEFINE en == n = 1 /\ start
               q == Before(1, pc)
               after == Before(1, y)
    <3>2. after = q + One(en) /\ q \in Nat /\ en \in BOOLEAN
      BY <1>4, <1>5
    <3>3. Kernel_Address' = Counter(Kernel_Address, en, Rows) /\ Kernel_Address = q % Rows
      BY <1>3, <3>1
    <3> HIDE DEF en, q, after
    <3>4. Counter(q % Rows, en, Rows) = (q + One(en)) % Rows
      BY <3>1, <3>2, CounterStep
    <3>5. Kernel_Address' = after % Rows
      BY <3>2, <3>3, <3>4, Zenon
    <3> QED BY <3>5 DEF after
  <2>2. Input_Address' = Before(2, y) % Images
    <3>1. Input_Address = Before(2, pc) % Images /\ Images \in Nat \ {0}
      BY <1>2, ImagesIs DEF AddressesOK
    <3> DEFINE en == n = 2 /\ start
               q == Before(2, pc)
               after == Before(2, y)
    <3>2. after = q + One(en) /\ q \in Nat /\ en \in BOOLEAN
      BY <1>4, <1>5
    <3>3. Input_Address' = Counter(Input_Address, en, Images) /\ Input_Address = q % Images
      BY <1>3, <3>1
    <3> HIDE DEF en, q, after
    <3>4. Counter(q % Images, en, Images) = (q + One(en)) % Images
      BY <3>1, <3>2, CounterStep
    <3>5. Input_Address' = after % Images
      BY <3>2, <3>3, <3>4, Zenon
    <3> QED BY <3>5 DEF after
  <2>3. Output_Write_Address' = Before(3, y) % Cols
    <3>1. Output_Write_Address = Before(3, pc) % Cols /\ Cols \in Nat \ {0}
      BY <1>2, Sizes DEF AddressesOK
    <3> DEFINE en == n = 3 /\ start
               q == Before(3, pc)
               after == Before(3, y)
    <3>2. after = q + One(en) /\ q \in Nat /\ en \in BOOLEAN
      BY <1>4, <1>5
    <3>3. Output_Write_Address' = Counter(Output_Write_Address, en, Cols) /\ Output_Write_Address = q % Cols
      BY <1>3, <3>1
    <3> HIDE DEF en, q, after
    <3>4. Counter(q % Cols, en, Cols) = (q + One(en)) % Cols
      BY <3>1, <3>2, CounterStep
    <3>5. Output_Write_Address' = after % Cols
      BY <3>2, <3>3, <3>4, Zenon
    <3> QED BY <3>5 DEF after
  <2> QED BY <2>1, <2>2, <2>3 DEF AddressesOK
<1>8. Output_Read_Address' \in ColNo
  BY <1>2, <1>3, <1>4, ReadAddressIs
<1>9. read => Before(3, y) = Before(3, pc)
  <2>1. read => One(n = 3 /\ start) = 0
    BY DEF One
  <2> QED BY <1>4, <1>5, <2>1
<1>10. Before(4, y) = Before(4, pc) + One(read /\ ACC_DataOutValid(acc[Output_Read_Address]))
  OBVIOUS
<1> HIDE DEF send, read, y
<1>11. CellsOK(pe', acc')
  BY <1>2, <1>3, <1>4, CellsClock
<1> DEFINE iss2 == Issued(iss)
           popped2 == Popped(popped, read)
<1>12. Counted(iss2, popped2)
  BY <1>2, CountedNext
<1>13. ColumnFlow(pe', acc', y, iss2, popped2)
  BY <1>2, <1>3, <1>4, <1>6, ColumnClock
<1>14. WeightFlow(pe', y, iss2)
  BY <1>2, <1>3, <1>4, <1>6, WeightClock
<1>15. ImageFlow(pe', y, iss2)
  BY <1>2, <1>3, <1>4, <1>6, ImageClock
<1>16. ReadFlow(y, popped2)
  <2>1. y \in Here
    BY DEF y
  <2> QED BY <1>2, <1>4, <1>9, <1>10, <1>11, <1>12, <1>13, <2>1, ReadClock
<1>17. Flow(pe', acc', y, iss2, popped2)
  <2> HIDE DEF iss2, popped2
  <2> QED BY <1>12, <1>13, <1>14, <1>15, <1>16 DEF Flow
<1>18. \E i2, p2 : Flow(pe', acc', pc', i2, p2)
  BY <1>17 DEF y
<1> QED BY <1>7, <1>8, <1>11, <1>18 DEF ArrayInv

-----------------------------------------------------------------------------
\* The next instruction of a program that has not finished.
LEMMA NextIs ==
    ASSUME pc \in Here, ~Finished
    PROVE  /\ pc + 1 \in Here
           /\ \E kind \in Kinds :
                /\ Program[pc].n = kind
                /\ \A other \in Kinds :
                      Before(other, pc + 1) = Before(other, pc) + One(other = kind)
<1>1. Len(Program) \in Nat
  BY BeforeIs
<1>2. pc \in 1 .. Len(Program) /\ pc + 1 \in Here
  BY <1>1 DEF Here, Finished
<1>3. PICK kind \in Kinds :
          /\ Program[pc] = Instr(kind, Before(kind, pc))
          /\ \A other \in Kinds :
                Before(other, pc + 1) = Before(other, pc) + (IF other = kind THEN 1 ELSE 0)
  BY <1>2, BeforeIs
<1>4. Program[pc].n = kind
  BY <1>3 DEF Instr
<1> QED BY <1>2, <1>3, <1>4 DEF One

\* A clock of the array in which the program executes instruction n, or waits for
\* it, or does nothing (0).
Valid == ACC_DataOutValid(acc[Output_Read_Address])

Instructs(n, start, word) ==
    /\ Clock(n, start, word) /\ pc' \in Here
    /\ \A k \in 1 .. 3 : Before(k, pc') = Before(k, pc) + One(n = k /\ start)
    /\ Before(4, pc') = Before(4, pc) + One(n = 4 /\ Valid)
    /\ n \in 1 .. 3 /\ start => ~Finished /\ Program[pc].n = n /\ word = dataa
    /\ n = 4 => ~Finished /\ Program[pc].n = 4
    /\ Tile_Output' = IF n = 4 /\ Valid /\ Program[pc].at # Zeros
                      THEN [Tile_Output EXCEPT ![Program[pc].at] = Result[1]] ELSE Tile_Output

\* Every step but a restart is such a clock.
LEMMA Instructed ==
    ASSUME pc \in Here, CellsOK(pe, acc), Output_Read_Address \in ColNo, Send \/ Read \/ Idle
    PROVE  \E n \in 0 .. 4, start \in BOOLEAN : \E word : Instructs(n, start, word)
<1>1. \A kind \in Kinds : Before(kind, pc) \in Nat
  BY BeforeIs
<1>2. 1 \in Kinds /\ 2 \in Kinds /\ 3 \in Kinds /\ 4 \in Kinds /\ \A k \in 1 .. 3 : k \in Kinds
  BY DEF Kinds
<1>3. CASE Send
  <2>1. /\ ~Finished /\ Program[pc].n # 4 /\ pc' = pc + 1 /\ Tile_Output' = Tile_Output
        /\ Clock(Program[pc].n, TRUE, dataa)
    BY <1>3 DEF Send
  <2>2. PICK kind \in Kinds :
            /\ pc + 1 \in Here /\ Program[pc].n = kind
            /\ \A other \in Kinds :
                  Before(other, pc + 1) = Before(other, pc) + One(other = kind)
    BY <2>1, NextIs
  <2>3. kind \in 0 .. 4 /\ kind # 4
    BY <2>1, <2>2 DEF Kinds
  <2> DEFINE start == TRUE
             word == dataa
  <2>4. start \in BOOLEAN /\ start /\ Clock(kind, start, word) /\ word = dataa
    BY <2>1, <2>2, Zenon
  <2> HIDE DEF start, word
  <2>5. \A k \in 1 .. 3 : Before(k, pc') = Before(k, pc) + One(kind = k /\ start)
    <3> SUFFICES ASSUME NEW k \in 1 .. 3
                 PROVE  Before(k, pc') = Before(k, pc) + One(kind = k /\ start)
      OBVIOUS
    <3>1. One(kind = k /\ start) = One(k = kind)
      BY <2>4 DEF One
    <3> QED BY <1>2, <2>1, <2>2, <3>1
  <2>6. Before(4, pc') = Before(4, pc) + One(kind = 4 /\ Valid)
    <3>1. One(kind = 4 /\ Valid) = One(4 = kind)
      BY <2>3 DEF One
    <3> QED BY <1>2, <2>1, <2>2, <3>1
  <2>7. Instructs(kind, start, word)
    BY <2>1, <2>2, <2>3, <2>4, <2>5, <2>6 DEF Instructs
  <2> QED BY <2>3, <2>4, <2>7
<1>4. CASE Read
  <2>1. /\ ~Finished /\ Program[pc].n = 4 /\ Clock(4, FALSE, Zero)
        /\ Done(4, FALSE) => /\ pc' = pc + 1
                             /\ Tile_Output' =
                                   IF Program[pc].at = Zeros THEN Tile_Output
                                   ELSE [Tile_Output EXCEPT ![Program[pc].at] = Result[1]]
        /\ ~Done(4, FALSE) => pc' = pc /\ Tile_Output' = Tile_Output
    BY <1>4 DEF Read
  <2>2. PICK kind \in Kinds :
            /\ pc + 1 \in Here /\ Program[pc].n = kind
            /\ \A other \in Kinds :
                  Before(other, pc + 1) = Before(other, pc) + One(other = kind)
    BY <2>1, NextIs
  <2>3. kind = 4
    BY <2>1, <2>2
  <2>4. Done(4, FALSE) <=> Valid
    <3>1. SumOK(acc[Output_Read_Address])
      BY DEF CellsOK
    <3>2. IsQueue(acc[Output_Read_Address].Out)
      BY <3>1 DEF SumOK
    <3>3. Head1(acc[Output_Read_Address].Out) # Nothing <=> acc[Output_Read_Address].Out # << >>
      BY <3>2, QueueIs
    <3> QED BY <3>3 DEF Done, Result, ACC_DataOut, ACC_DataOutValid, Valid
  <2>5. \A k \in 1 .. 3 : Before(k, pc + 1) = Before(k, pc)
    <3>1. \A k \in 1 .. 3 : One(k = 4) = 0
      BY DEF One
    <3> QED BY <1>1, <1>2, <2>2, <2>3, <3>1
  <2>6. Before(4, pc + 1) = Before(4, pc) + 1
    <3>1. One(4 = 4) = 1
      BY DEF One
    <3> QED BY <1>2, <2>2, <2>3, <3>1
  <2> DEFINE n == 4
             start == FALSE
  <2>7. n \in 0 .. 4 /\ n = 4 /\ start \in BOOLEAN /\ ~start
    OBVIOUS
  <2>8. Clock(n, start, Zero)
    BY <2>1, Zenon
  <2> HIDE DEF n, start
  <2>9. pc' = (IF Valid THEN pc + 1 ELSE pc) /\ pc' \in Here
    BY <2>1, <2>2, <2>4
  <2>10. Before(4, pc') = Before(4, pc) + One(n = 4 /\ Valid)
    BY <1>1, <1>2, <2>6, <2>7, <2>9 DEF One
  <2>11. \A k \in 1 .. 3 : Before(k, pc') = Before(k, pc) + One(n = k /\ start)
    BY <1>1, <1>2, <2>5, <2>7, <2>9 DEF One
  <2>12. Tile_Output' = IF n = 4 /\ Valid /\ Program[pc].at # Zeros
                        THEN [Tile_Output EXCEPT ![Program[pc].at] = Result[1]] ELSE Tile_Output
    BY <2>1, <2>4, <2>7, Zenon
  <2>13. Instructs(n, start, Zero)
    BY <2>1, <2>7, <2>8, <2>9, <2>10, <2>11, <2>12 DEF Instructs
  <2> QED BY <2>7, <2>13
<1>5. CASE Idle
  <2>1. Clock(0, FALSE, Zero) /\ pc' = pc /\ Tile_Output' = Tile_Output
    BY <1>5 DEF Idle
  <2> DEFINE n == 0
             start == FALSE
  <2>2. n \in 0 .. 4 /\ n # 4 /\ start \in BOOLEAN /\ ~start
    OBVIOUS
  <2>3. Clock(n, start, Zero)
    BY <2>1, Zenon
  <2> HIDE DEF n, start
  <2>4. /\ \A k \in 1 .. 3 : Before(k, pc') = Before(k, pc) + One(n = k /\ start)
        /\ Before(4, pc') = Before(4, pc) + One(n = 4 /\ Valid)
    BY <1>1, <1>2, <2>1, <2>2 DEF One
  <2>5. Instructs(n, start, Zero)
    BY <2>1, <2>2, <2>3, <2>4 DEF Instructs
  <2> QED BY <2>2, <2>5
<1> QED BY <1>3, <1>4, <1>5

\* Every step of the program and the array keeps the invariant.
LEMMA ArrayStep ==
    ASSUME ArrayInv, [Next]_vars
    PROVE  ArrayInv'
<1>1. CASE Send \/ Read \/ Idle
  <2>1. pc \in Here /\ CellsOK(pe, acc) /\ Output_Read_Address \in ColNo
    BY DEF ArrayInv
  <2>2. PICK n \in 0 .. 4, start \in BOOLEAN : \E word : Instructs(n, start, word)
    BY <1>1, <2>1, Instructed
  <2>3. PICK word : Instructs(n, start, word)
    BY <2>2
  <2> QED BY <2>3, ClockInv DEF Instructs, Valid
<1>2. CASE Restart
  BY <1>2, ResetInv DEF Restart
<1>3. CASE UNCHANGED vars
  BY <1>3 DEF vars, array, ArrayInv, AddressesOK
<1> QED BY <1>1, <1>2, <1>3 DEF Next, Instruction

\* The invariant holds throughout.
LEMMA ArrayInvHolds == Spec => []ArrayInv
<1>1. Start => ArrayInv
  BY ResetInv DEF Start
<1>2. ArrayInv /\ [Next]_vars => ArrayInv'
  BY ArrayStep
<1> QED BY <1>1, <1>2, PTL DEF Spec

-----------------------------------------------------------------------------
(* What the invariant says of the accumulators and of a finished call. *)

\* A column has never more sums than groups that were sent and not read.
LEMMA SumsFindRoomInv ==
    ASSUME Groups <= ACCBufferSize, ArrayInv
    PROVE  SumsFindRoom
<1> SUFFICES ASSUME NEW c \in ColNo, Exit(acc[c].Sums) # Nothing
             PROVE  Len(acc[c].Out) < ACCBufferSize
  BY DEF SumsFindRoom
<1>1. PICK iss, popped : Flow(pe, acc, pc, iss, popped)
  BY DEF ArrayInv
<1>2. /\ pc \in Here /\ CellsOK(pe, acc) /\ Counted(iss, popped)
      /\ ColumnFlow(pe, acc, pc, iss, popped) /\ ReadFlow(pc, popped)
  BY <1>1 DEF ArrayInv, Flow
<1> DEFINE held == Held(acc[c].Sums)
           out == Len(acc[c].Out)
<1>3. held \in Nat /\ out \in Nat /\ held >= 1
  <2>1. held \in Nat /\ out \in Nat
    BY <1>2, LoadIs
  <2>2. IsPipe(acc[c].Sums, ADD_Stages)
    BY <1>2 DEF CellsOK, SumOK
  <2> QED BY <2>1, <2>2, CellSizes, FullIs
<1>4. popped[c] \in Nat
  BY <1>2 DEF Counted
<1>5. /\ Groups \in Nat /\ AllGroups \in Nat /\ AllGroups <= Groups + 1
      /\ ACCBufferSize \in Nat \ {0}
  BY GroupsIs, CellSizes
<1>6. CASE Before(3, pc) <= Cols * (NOPCount * Groups)
  <2>1. held + out + popped[c] <= Groups
    BY <1>2, <1>5, <1>6, ColumnBound
  <2> HIDE DEF held, out
  <2>2. out < ACCBufferSize
    BY <1>3, <1>4, <1>5, <2>1
  <2> QED BY <2>2 DEF out
<1>7. CASE Before(4, pc) >= Cols * Groups
  <2>1. popped[c] >= Groups
    BY <1>2, <1>7 DEF ReadFlow
  <2>2. Before(3, pc) <= Cols * (NOPCount * AllGroups)
    BY <1>2, BeforeIs, TotalIs DEF Kinds
  <2>3. held + out + popped[c] <= AllGroups
    BY <1>2, <1>5, <2>2, ColumnBound
  <2> HIDE DEF held, out
  <2>4. out < ACCBufferSize
    BY <1>3, <1>4, <1>5, <2>1, <2>3
  <2> QED BY <2>4 DEF out
<1> QED BY <1>2, <1>6, <1>7, BeforeIs

\* Weights go right and image words go down: no cell has had more of them than
\* the edge of the array was sent.
LEMMA WeightsBound ==
    ASSUME NEW cells, NEW sums, CellsOK(cells, sums), NEW x \in Here,
           NEW iss, NEW popped, Counted(iss, popped), WeightFlow(cells, x, iss),
           NEW m \in Nat, Before(1, x) <= Rows * m, NEW r \in RowNo, NEW c \in ColNo
    PROVE  WeightsIn(cells, iss, r, c) \in Nat /\ WeightsIn(cells, iss, r, c) <= m
<1> DEFINE w(d) == WeightsIn(cells, iss, r, d)
           P(d) == Len(cells[<<r, d>>].W.P)
<1>1. \A d \in ColNo : w(d) \in Nat /\ P(d) \in Nat
  <2> SUFFICES ASSUME NEW d \in ColNo PROVE w(d) \in Nat /\ P(d) \in Nat
    OBVIOUS
  <2>1. Len(cells[<<r, d>>].W.M) \in Nat /\ P(d) \in Nat
    BY CellNumbers
  <2>2. iss[<<r, d>>] \in Nat
    BY DEF Counted
  <2> QED BY <2>1, <2>2 DEF WeightsIn
<1>2. w(0) <= m
  <2>1. w(0) <= Share(Before(1, x), Rows, r)
    BY DEF WeightFlow
  <2>2. Before(1, x) \in Nat
    BY BeforeIs DEF Kinds
  <2>3. Rows \in Nat \ {0} /\ r \in 0 .. Rows - 1 /\ 0 \in ColNo
    BY Sizes DEF RowNo
  <2>4. Share(Before(1, x), Rows, r) \in Nat /\ Share(Before(1, x), Rows, r) <= m
    BY <2>2, <2>3, ShareStep, ShareBound
  <2> HIDE DEF w, P
  <2>5. w(0) \in Nat
    BY <1>1, <2>3
  <2> QED BY <2>1, <2>4, <2>5
<1>3. \A d \in ColNo \ {0} : w(d) + P(d - 1) <= w(d - 1)
  BY DEF WeightFlow
<1>4. /\ \A d \in ColNo : d \in Nat
      /\ \A d \in Nat : d + 1 \in ColNo => d \in ColNo /\ d + 1 \in ColNo \ {0} /\ (d + 1) - 1 = d
  BY Sizes DEF ColNo
<1> HIDE DEF w, P
<1> DEFINE S == {d \in Nat : d \in ColNo => w(d) <= m}
<1>5. 0 \in S
  BY <1>2
<1>6. ASSUME NEW d \in Nat, d \in S PROVE d + 1 \in S
  <2> SUFFICES ASSUME d + 1 \in ColNo PROVE w(d + 1) <= m
    OBVIOUS
  <2>1. d \in ColNo /\ d + 1 \in ColNo \ {0} /\ d + 1 \in ColNo /\ (d + 1) - 1 = d
    BY <1>4
  <2>2. w(d + 1) + P(d) <= w(d)
    BY <1>3, <2>1
  <2>3. w(d) <= m
    BY <1>6, <2>1
  <2>4. w(d + 1) \in Nat /\ P(d) \in Nat /\ w(d) \in Nat
    BY <1>1, <2>1
  <2> QED BY <2>2, <2>3, <2>4
<1> HIDE DEF S
<1>7. Nat \subseteq S
  BY <1>5, <1>6, Induction
<1>8. c \in S
  BY <1>4, <1>7
<1> QED BY <1>1, <1>8 DEF S, w

\* Image words go down and left, and no cell has had more of them either.
LEMMA ImagesBound ==
    ASSUME NEW cells, NEW sums, CellsOK(cells, sums), NEW x \in Here,
           NEW iss, NEW popped, Counted(iss, popped), ImageFlow(cells, x, iss),
           NEW m \in Nat, Before(2, x) <= Images * m, NEW r \in RowNo, NEW c \in ColNo
    PROVE  ImagesIn(cells, iss, r, c) \in Nat /\ ImagesIn(cells, iss, r, c) <= m
<1> DEFINE i(q, d) == ImagesIn(cells, iss, q, d)
           P(q, d) == Len(cells[<<q, d>>].I.P)
<1>1. \A q \in RowNo, d \in ColNo : i(q, d) \in Nat /\ P(q, d) \in Nat
  <2> SUFFICES ASSUME NEW q \in RowNo, NEW d \in ColNo PROVE i(q, d) \in Nat /\ P(q, d) \in Nat
    OBVIOUS
  <2>1. Len(cells[<<q, d>>].I.M) \in Nat /\ P(q, d) \in Nat
    BY CellNumbers
  <2>2. iss[<<q, d>>] \in Nat
    <3>1. iss \in [RowNo \X ColNo -> Nat]
      BY DEF Counted
    <3> QED BY ONLY <3>1
  <2>3. P(q, d) \in Nat
    BY <2>1
  <2> DEFINE M == Len(cells[<<q, d>>].I.M)
             s == iss[<<q, d>>]
  <2>4. i(q, d) = s + M /\ s \in Nat /\ M \in Nat
    BY <2>1, <2>2 DEF ImagesIn
  <2> HIDE DEF i, P, M, s
  <2> QED BY <2>3, <2>4
<1>2. \A q \in RowNo, d \in ColNo : q = 0 \/ d = LastCol => i(q, d) <= m
  <2> SUFFICES ASSUME NEW q \in RowNo, NEW d \in ColNo, q = 0 \/ d = LastCol
               PROVE  i(q, d) <= m
    OBVIOUS
  <2>1. i(q, d) <= Share(Before(2, x), Images, q + d)
    BY DEF ImageFlow
  <2>2. Before(2, x) \in Nat
    BY BeforeIs DEF Kinds
  <2>3. Images \in Nat \ {0} /\ q + d \in 0 .. Images - 1
    BY Sizes, ImagesIs
  <2>4. Share(Before(2, x), Images, q + d) \in Nat /\ Share(Before(2, x), Images, q + d) <= m
    BY <2>2, <2>3, ShareStep, ShareBound
  <2>5. i(q, d) \in Nat
    BY <1>1
  <2> HIDE DEF i
  <2> QED BY <2>1, <2>4, <2>5
<1>3. \A q \in RowNo, d \in ColNo :
         ~(q = 0 \/ d = LastCol) => i(q, d) + P(q - 1, d + 1) <= i(q - 1, d + 1)
  BY DEF ImageFlow
<1>4. /\ \A q \in RowNo : q \in Nat
      /\ \A q \in Nat : q + 1 \in RowNo => q \in RowNo /\ q + 1 # 0 /\ (q + 1) - 1 = q
      /\ \A d \in ColNo : d # LastCol => d + 1 \in ColNo
  BY Sizes DEF RowNo
<1> HIDE DEF i, P
<1> DEFINE S == {q \in Nat : q \in RowNo => \A d \in ColNo : i(q, d) <= m}
<1>5. 0 \in S
  BY <1>2
<1>6. ASSUME NEW q \in Nat, q \in S PROVE q + 1 \in S
  <2> SUFFICES ASSUME q + 1 \in RowNo, NEW d \in ColNo PROVE i(q + 1, d) <= m
    OBVIOUS
  <2>1. q \in RowNo /\ q + 1 # 0 /\ (q + 1) - 1 = q
    BY <1>4
  <2>2. CASE d = LastCol
    BY <1>2, <2>2
  <2>3. CASE d # LastCol
    <3>1. d + 1 \in ColNo
      BY <1>4, <2>3
    <3>2. i(q + 1, d) + P(q, d + 1) <= i(q, d + 1)
      BY <1>3, <2>1, <2>3
    <3>3. i(q, d + 1) <= m
      BY <1>6, <2>1, <3>1
    <3>4. i(q + 1, d) \in Nat /\ P(q, d + 1) \in Nat /\ i(q, d + 1) \in Nat
      BY <1>1, <2>1, <3>1
    <3> QED BY <3>2, <3>3, <3>4
  <2> QED BY <2>2, <2>3
<1> HIDE DEF S
<1>7. Nat \subseteq S
  BY <1>5, <1>6, Induction
<1>8. r \in S
  BY <1>4, <1>7
<1> QED BY <1>1, <1>8 DEF S, i

\* A pipeline that holds nothing is a cleared one.
LEMMA PipeEmpty ==
    ASSUME NEW stages \in Nat \ {0}, NEW pipe, IsPipe(pipe, stages), Held(pipe) = 0
    PROVE  pipe = Pipe(stages)
<1>1. IsFiniteSet(Full(pipe))
  BY FullIs
<1>2. Full(pipe) = {}
  BY <1>1, FS_EmptySet DEF Held
<1>3. DOMAIN pipe = 1 .. stages
  BY PipeLen
<1>4. \A s \in 1 .. stages : pipe[s] = Nothing
  BY <1>2, <1>3 DEF Full
<1>5. pipe = [s \in 1 .. stages |-> pipe[s]]
  BY DEF IsPipe
<1> QED BY <1>4, <1>5 DEF Pipe

\* When everything is sent and read, every cell has multiplied as often as its
\* column was sent a word, and every count of the flow is exact.
LEMMA FinishedColumns ==
    ASSUME ArrayInv, Finished
    PROVE  \E iss, popped :
              /\ Flow(pe, acc, pc, iss, popped)
              /\ \A c \in ColNo :
                    /\ Load(acc[c]) = 0
                    /\ \A r \in RowNo :
                          /\ iss[<<r, c>>] = NOPCount * AllGroups
                          /\ Len(pe[<<r, c>>].O) = 0 /\ Held(pe[<<r, c>>].MAC) = 0
<1>1. PICK iss, popped : Flow(pe, acc, pc, iss, popped)
  BY DEF ArrayInv
<1>2. /\ pc \in Here /\ CellsOK(pe, acc) /\ Counted(iss, popped)
      /\ ColumnFlow(pe, acc, pc, iss, popped) /\ ReadFlow(pc, popped)
  BY <1>1 DEF ArrayInv, Flow
<1> DEFINE m == NOPCount * AllGroups
<1>3. pc = Len(Program) + 1 /\ Before(3, pc) = Cols * m /\ Before(4, pc) = Cols * AllGroups
  <2>1. pc = Len(Program) + 1
    BY <1>2, BeforeIs DEF Finished, Here
  <2> QED BY <2>1, BeforeIs, TotalIs DEF Kinds
<1>4. m \in Nat /\ AllGroups \in Nat
  BY TotalIs
<1>5. \A c \in ColNo : popped[c] = AllGroups
  <2>1. popped \in [ColNo -> Nat]
    BY <1>2 DEF Counted
  <2>2. ASSUME NEW c \in ColNo PROVE popped[c] <= AllGroups
    <3>1. Before(3, pc) \in Nat /\ Before(3, pc) <= Cols * (NOPCount * AllGroups)
      BY <1>2, <1>3, BeforeIs DEF Kinds
    <3>2. Held(acc[c].Sums) + Len(acc[c].Out) + popped[c] <= AllGroups
      BY <1>2, <1>4, <3>1, ColumnBound
    <3>3. Held(acc[c].Sums) \in Nat /\ Len(acc[c].Out) \in Nat
      BY <1>2, LoadIs
    <3>4. popped[c] \in Nat
      BY <2>1
    <3> QED BY <1>4, <3>2, <3>3, <3>4
  <2>3. /\ IsFiniteSet(ReadSums(popped))
        /\ Cardinality(ReadSums(popped)) >= Cols * AllGroups
    <3>1. IsFiniteSet(ReadSums(popped)) /\ Cardinality(ReadSums(popped)) = Before(4, pc)
      BY <1>2 DEF ReadFlow
    <3>2. Cols * AllGroups \in Nat
      BY <1>4, Sizes
    <3> QED BY <1>3, <3>1, <3>2
  <2> QED BY <1>4, <2>1, <2>2, <2>3, ReadSumsFull
<1> HIDE DEF m
<1>6. ASSUME NEW c \in ColNo
      PROVE  /\ Load(acc[c]) = 0
             /\ \A r \in RowNo : /\ iss[<<r, c>>] = m
                                 /\ Len(pe[<<r, c>>].O) = 0 /\ Held(pe[<<r, c>>].MAC) = 0
  <2> DEFINE i(r) == iss[<<r, c>>]
             O(r) == Len(pe[<<r, c>>].O)
             mac(r) == Held(pe[<<r, c>>].MAC)
             load == Load(acc[c])
  <2>1. \A r \in RowNo : i(r) \in Nat /\ O(r) \in Nat /\ mac(r) \in Nat
    <3> SUFFICES ASSUME NEW r \in RowNo PROVE i(r) \in Nat /\ O(r) \in Nat /\ mac(r) \in Nat
      OBVIOUS
    <3>1. iss \in [RowNo \X ColNo -> Nat]
      BY <1>2 DEF Counted
    <3>2. iss[<<r, c>>] \in Nat
      BY <3>1
    <3>3. O(r) \in Nat /\ mac(r) \in Nat
      BY <1>2, CellNumbers
    <3> HIDE DEF O, mac
    <3> QED BY <3>2, <3>3
  <2>2. load \in Nat
    <3> DEFINE a == Len(acc[c].Ready) + acc[c].Counter
               b == Held(acc[c].Sums) + Len(acc[c].Out)
    <3>1. a \in Nat /\ b \in Nat /\ load = a + NOPCount * b
      BY <1>2, LoadIs
    <3> HIDE DEF a, b, load
    <3>2. NOPCount \in Nat
      BY Sizes
    <3>3. NOPCount * b \in Nat
      BY <3>1, <3>2
    <3> QED BY <3>1, <3>3
  <2>3. load + m + mac(LastRow) <= i(LastRow)
    <3>1. Load(acc[c]) + NOPCount * popped[c] + Held(pe[<<LastRow, c>>].MAC) <= iss[<<LastRow, c>>]
      BY <1>2 DEF ColumnFlow
    <3> QED BY <1>5, <3>1 DEF m
  <2>4. Share(Before(3, pc), Cols, c) \in Nat /\ Share(Before(3, pc), Cols, c) <= m
    <3>1. Before(3, pc) \in Nat /\ Before(3, pc) <= Cols * m
      BY <1>2, <1>3, BeforeIs DEF Kinds
    <3> QED BY <1>4, <3>1, Sizes, ShareStep, ShareBound DEF ColNo
  <2>5. O(0) + i(0) <= Share(Before(3, pc), Cols, c)
    BY <1>2 DEF ColumnFlow
  <2>6. \A r \in RowNo \ {0} : O(r) + i(r) + mac(r - 1) <= i(r - 1)
    BY <1>2 DEF ColumnFlow
  <2>7. \A r \in RowNo : i(LastRow) <= i(r) /\ i(r) <= Share(Before(3, pc), Cols, c)
    BY <1>2, Down
  <2>8. /\ 0 \in RowNo /\ LastRow \in RowNo
        /\ \A r \in RowNo : r # 0 => r \in RowNo \ {0} /\ r - 1 \in RowNo
        /\ \A r \in RowNo : r # LastRow => r + 1 \in RowNo \ {0} /\ (r + 1) - 1 = r
    BY Sizes DEF RowNo
  <2> HIDE DEF i, O, mac, load
  <2>9. \A r \in RowNo : i(r) = m
    <3> SUFFICES ASSUME NEW r \in RowNo PROVE i(r) = m
      OBVIOUS
    <3>1. i(LastRow) \in Nat /\ mac(LastRow) \in Nat /\ i(r) \in Nat
      BY <2>1, <2>8
    <3>2. i(LastRow) <= i(r) /\ i(r) <= Share(Before(3, pc), Cols, c)
      BY <2>7
    <3> QED BY <1>4, <2>2, <2>3, <2>4, <3>1, <3>2
  <2>10. load = 0 /\ mac(LastRow) = 0
    <3>1. i(LastRow) = m /\ mac(LastRow) \in Nat
      BY <2>1, <2>8, <2>9
    <3> QED BY <1>4, <2>2, <2>3, <3>1
  <2>11. ASSUME NEW r \in RowNo PROVE O(r) = 0 /\ mac(r) = 0
    <3>1. O(r) \in Nat /\ mac(r) \in Nat
      BY <2>1
    <3>2. O(r) = 0
      <4>1. CASE r = 0
        <5>1. i(0) = m
          BY <2>8, <2>9
        <5>2. O(0) \in Nat
          BY <3>1, <4>1
        <5>3. O(0) = 0
          BY <1>4, <2>4, <2>5, <5>1, <5>2
        <5> QED BY <4>1, <5>3
      <4>2. CASE r # 0
        <5>1. O(r) + i(r) + mac(r - 1) <= i(r - 1) /\ mac(r - 1) \in Nat
          BY <2>1, <2>6, <2>8, <4>2
        <5>2. i(r) = m /\ i(r - 1) = m
          BY <2>8, <2>9, <4>2
        <5> QED BY <1>4, <3>1, <5>1, <5>2
      <4> QED BY <4>1, <4>2
    <3>3. mac(r) = 0
      <4>1. CASE r = LastRow
        BY <2>10, <4>1
      <4>2. CASE r # LastRow
        <5>1. r + 1 \in RowNo \ {0} /\ r + 1 \in RowNo /\ (r + 1) - 1 = r
          BY <2>8, <4>2
        <5>2. O(r + 1) + i(r + 1) + mac(r) <= i(r)
          BY <2>6, <5>1
        <5>3. O(r + 1) \in Nat /\ i(r + 1) = m /\ i(r) = m
          BY <2>1, <2>9, <5>1
        <5> QED BY <1>4, <3>1, <5>2, <5>3
      <4> QED BY <4>1, <4>2
    <3> QED BY <3>2, <3>3
  <2> QED BY <2>9, <2>10, <2>11 DEF i, O, mac, load
<1> QED BY <1>1, <1>6 DEF m

\* No word is left in the array: all of them have been used or dropped.
LEMMA FinishedArray ==
    ASSUME ArrayInv, Finished
    PROVE  /\ \A r \in RowNo, c \in ColNo :
                 /\ pe[<<r, c>>].O = << >> /\ pe[<<r, c>>].MAC = Pipe(MAC_Stages)
                 /\ pe[<<r, c>>].W.M = << >> /\ pe[<<r, c>>].I.M = << >>
                 /\ c # LastCol => pe[<<r, c>>].W.P = << >>
                 /\ r # LastRow /\ c # 0 => pe[<<r, c>>].I.P = << >>
           /\ \A c \in ColNo :
                 /\ acc[c].Ready = << >> /\ acc[c].Counter = 0
                 /\ acc[c].Sums = Pipe(ADD_Stages) /\ acc[c].Out = << >>
<1> DEFINE m == NOPCount * AllGroups
<1>1. PICK iss, popped :
          /\ Flow(pe, acc, pc, iss, popped)
          /\ \A c \in ColNo :
                /\ Load(acc[c]) = 0
                /\ \A r \in RowNo :
                      /\ iss[<<r, c>>] = m
                      /\ Len(pe[<<r, c>>].O) = 0 /\ Held(pe[<<r, c>>].MAC) = 0
  BY FinishedColumns
<1>2. /\ pc \in Here /\ CellsOK(pe, acc) /\ Counted(iss, popped)
      /\ WeightFlow(pe, pc, iss) /\ ImageFlow(pe, pc, iss)
  BY <1>1 DEF ArrayInv, Flow
<1>3. m \in Nat /\ NOPCount \in Nat \ {0}
  BY TotalIs, Sizes
<1>4. Before(1, pc) <= Rows * m /\ Before(2, pc) <= Images * m
  BY <1>2, BeforeIs, TotalIs DEF Kinds
<1> HIDE DEF m
<1>5. ASSUME NEW r \in RowNo, NEW c \in ColNo
      PROVE  /\ pe[<<r, c>>].O = << >> /\ pe[<<r, c>>].MAC = Pipe(MAC_Stages)
             /\ pe[<<r, c>>].W.M = << >> /\ pe[<<r, c>>].I.M = << >>
             /\ WeightsIn(pe, iss, r, c) = m /\ ImagesIn(pe, iss, r, c) = m
  <2> DEFINE cell == pe[<<r, c>>]
  <2>1. CellOK(cell)
    BY <1>2 DEF CellsOK
  <2> HIDE DEF cell
  <2>2. /\ IsQueue(cell.O) /\ IsQueue(cell.W.M) /\ IsQueue(cell.I.M)
        /\ IsPipe(cell.MAC, MAC_Stages)
    BY <2>1 DEF CellOK, SideOK
  <2>3. Len(cell.O) = 0 /\ Held(cell.MAC) = 0 /\ iss[<<r, c>>] = m
    BY <1>1 DEF cell
  <2>4. cell.O = << >> /\ cell.MAC = Pipe(MAC_Stages)
    BY <2>2, <2>3, QueueIs, PipeEmpty, CellSizes
  <2>5. WeightsIn(pe, iss, r, c) <= m /\ ImagesIn(pe, iss, r, c) <= m
    BY <1>2, <1>3, <1>4, WeightsBound, ImagesBound
  <2> DEFINE w == Len(cell.W.M)
             i == Len(cell.I.M)
  <2>6. WeightsIn(pe, iss, r, c) = m + w /\ ImagesIn(pe, iss, r, c) = m + i
    BY <2>3 DEF WeightsIn, ImagesIn, cell
  <2>7. w \in Nat /\ i \in Nat
    BY <2>2, QueueIs
  <2>8. w = 0 /\ i = 0
    <3> HIDE DEF w, i
    <3>1. m + w <= m /\ m + i <= m
      BY <2>5, <2>6
    <3> QED BY <1>3, <2>7, <3>1
  <2>9. cell.W.M = << >> /\ cell.I.M = << >>
    BY <2>2, <2>8, QueueIs
  <2>10. WeightsIn(pe, iss, r, c) = m /\ ImagesIn(pe, iss, r, c) = m
    BY <1>3, <2>6, <2>8
  <2> QED BY <2>4, <2>9, <2>10 DEF cell
<1>6. ASSUME NEW r \in RowNo, NEW c \in ColNo, c # LastCol
      PROVE  pe[<<r, c>>].W.P = << >>
  <2>1. c + 1 \in ColNo \ {0} /\ c + 1 \in ColNo /\ (c + 1) - 1 = c
    <3>1. c + 1 \in ColNo /\ c + 1 # 0
      BY <1>6, Sizes
    <3>2. c \in Int
      BY Sizes DEF ColNo
    <3> QED BY <3>1, <3>2
  <2>2. WeightsIn(pe, iss, r, c + 1) + Len(pe[<<r, c>>].W.P) <= WeightsIn(pe, iss, r, c)
    BY <1>2, <2>1 DEF WeightFlow
  <2>3. WeightsIn(pe, iss, r, c + 1) = m /\ WeightsIn(pe, iss, r, c) = m
    BY <1>5, <2>1
  <2>4. IsQueue(pe[<<r, c>>].W.P)
    BY <1>2 DEF CellsOK, CellOK, SideOK
  <2> DEFINE q == pe[<<r, c>>].W.P
  <2>5. IsQueue(q) /\ m + Len(q) <= m
    BY <2>2, <2>3, <2>4
  <2> HIDE DEF q
  <2>6. q = << >>
    <3>1. Len(q) \in Nat /\ (Len(q) = 0 <=> q = << >>)
      BY <2>5, QueueIs
    <3> QED BY <1>3, <2>5, <3>1
  <2> QED BY <2>6 DEF q
<1>7. ASSUME NEW r \in RowNo, NEW c \in ColNo, r # LastRow, c # 0
      PROVE  pe[<<r, c>>].I.P = << >>
  <2>1. /\ r + 1 \in RowNo /\ r + 1 # 0 /\ (r + 1) - 1 = r
        /\ c - 1 \in ColNo /\ c - 1 # LastCol /\ (c - 1) + 1 = c
    BY <1>7, Sizes DEF ColNo, RowNo
  <2>2. ImagesIn(pe, iss, r + 1, c - 1) + Len(pe[<<r, c>>].I.P) <= ImagesIn(pe, iss, r, c)
    <3>1. ~(r + 1 = 0 \/ c - 1 = LastCol)
      BY <2>1
    <3>2. ImagesIn(pe, iss, r + 1, c - 1) + Len(pe[<<(r + 1) - 1, (c - 1) + 1>>].I.P)
             <= ImagesIn(pe, iss, (r + 1) - 1, (c - 1) + 1)
      BY <1>2, <2>1, <3>1 DEF ImageFlow
    <3> QED BY <2>1, <3>2
  <2>3. ImagesIn(pe, iss, r + 1, c - 1) = m /\ ImagesIn(pe, iss, r, c) = m
    BY <1>5, <2>1
  <2>4. IsQueue(pe[<<r, c>>].I.P)
    BY <1>2 DEF CellsOK, CellOK, SideOK
  <2> DEFINE q == pe[<<r, c>>].I.P
  <2>5. IsQueue(q) /\ m + Len(q) <= m
    BY <2>2, <2>3, <2>4
  <2> HIDE DEF q
  <2>6. q = << >>
    <3>1. Len(q) \in Nat /\ (Len(q) = 0 <=> q = << >>)
      BY <2>5, QueueIs
    <3> QED BY <1>3, <2>5, <3>1
  <2> QED BY <2>6 DEF q
<1>8. ASSUME NEW c \in ColNo
      PROVE  /\ acc[c].Ready = << >> /\ acc[c].Counter = 0
             /\ acc[c].Sums = Pipe(ADD_Stages) /\ acc[c].Out = << >>
  <2> DEFINE a == acc[c]
             ready == Len(a.Ready)
             held == Held(a.Sums)
             out == Len(a.Out)
             load == Load(a)
  <2>1. SumOK(a)
    BY <1>2 DEF CellsOK
  <2>2. /\ ready \in Nat /\ a.Counter \in Nat /\ held \in Nat /\ out \in Nat
        /\ load = (ready + a.Counter) + NOPCount * (held + out)
    BY <1>2, LoadIs
  <2>3. load = 0
    BY <1>1
  <2> DEFINE k == a.Counter
  <2>4. ready = 0 /\ k = 0 /\ held = 0 /\ out = 0
    <3> DEFINE b == NOPCount * (held + out)
    <3>1. b \in Nat
      BY <1>3, <2>2
    <3>2. ready = 0 /\ k = 0 /\ b = 0
      <4>1. ready \in Nat /\ k \in Nat /\ (ready + k) + b = 0
        BY <2>2, <2>3
      <4> HIDE DEF ready, k, b
      <4> QED BY <3>1, <4>1
    <3>3. held + out = 0
      <4> DEFINE s == held + out
      <4>1. s \in Nat
        BY <2>2
      <4>2. NOPCount * s = 0
        BY <3>2
      <4>3. NOPCount * s <= NOPCount * 0
        BY <1>3, <4>2
      <4> HIDE DEF s
      <4>4. s <= 0
        BY <1>3, <4>1, <4>3, Smaller
      <4>5. s = 0
        BY <4>1, <4>4
      <4> QED BY <4>5 DEF s
    <3>4. held = 0 /\ out = 0
      <4>1. held \in Nat /\ out \in Nat
        BY <2>2
      <4> HIDE DEF held, out
      <4> QED BY <3>3, <4>1
    <3> QED BY <3>2, <3>4
  <2> HIDE DEF a
  <2>5. IsQueue(a.Ready) /\ IsQueue(a.Out) /\ IsPipe(a.Sums, ADD_Stages)
    BY <2>1 DEF SumOK
  <2>6. a.Ready = << >> /\ a.Out = << >>
    BY <2>4, <2>5, QueueIs
  <2>7. a.Sums = Pipe(ADD_Stages)
    BY <2>4, <2>5, PipeEmpty, CellSizes
  <2> QED BY <2>4, <2>6, <2>7 DEF a
<1> QED BY <1>5, <1>6, <1>7, <1>8

\* The state of a finished call.
LEMMA FinishedClean ==
    ASSUME ArrayInv, ReadAddressInStep
    PROVE  NothingLeftBehind
<1> SUFFICES ASSUME Finished
             PROVE  /\ Kernel_Address = 0 /\ Input_Address = 0
                    /\ Output_Write_Address = 0 /\ Output_Read_Address = 0
  BY FinishedArray DEF NothingLeftBehind
<1>1. pc \in Here /\ AddressesOK(pc)
  BY DEF ArrayInv
<1>2. pc = Len(Program) + 1
  BY <1>1, BeforeIs DEF Finished, Here
<1> DEFINE m == NOPCount * AllGroups
<1>3. /\ Before(1, pc) = Rows * m /\ Before(2, pc) = Images * m
      /\ Before(3, pc) = Cols * m /\ Before(4, pc) = Cols * AllGroups
  BY <1>2, BeforeIs, TotalIs DEF Kinds
<1>4. m \in Nat /\ AllGroups \in Nat
  BY TotalIs
<1> HIDE DEF m
<1>5. ASSUME NEW d \in Nat \ {0}, NEW q \in Nat
      PROVE  (d * q) % d = 0
  <2>1. 0 \in 0 .. d - 1 /\ d * q + 0 = d * q
    OBVIOUS
  <2>2. (d * q + 0) % d = 0
    BY <2>1, Element
  <2> QED BY <2>1, <2>2
<1>6. (Rows * m) % Rows = 0 /\ (Cols * m) % Cols = 0 /\ (Cols * AllGroups) % Cols = 0
  BY <1>4, <1>5, Sizes
<1>7. (Images * m) % Images = 0
  BY <1>4, <1>5, ImagesIs
<1>8. /\ Kernel_Address = Before(1, pc) % Rows /\ Input_Address = Before(2, pc) % Images
      /\ Output_Write_Address = Before(3, pc) % Cols
  BY <1>1 DEF AddressesOK
<1>9. Output_Read_Address = Before(4, pc) % Cols
  <2>1. ReadsBefore[pc] = Before(4, pc)
    BY <1>1 DEF ReadsBefore, Here
  <2> QED BY <2>1 DEF ReadAddressInStep
<1> QED BY <1>3, <1>6, <1>7, <1>8, <1>9
-----------------------------------------------------------------------------
(***************************************************************************)
(* Timelines.  at[b] is the clock at which something happens to block b;   *)
(* no two blocks are closer than the sends of a block.                     *)
(***************************************************************************)
Times == [Nat -> Nat]
Paced(at) == \A b, d \in Nat : at[b + d] >= at[b] + BlockLen * d

\* How many have happened before clock t.
Past(at, t, n) == n \in Nat /\ \A b \in Nat : b < n <=> at[b] < t

\* A wire or pipeline stage that carries word[b] at clock at[b] and nothing else.
Shows(wire, word, at, t) ==
    /\ \A b \in Nat : at[b] = t => wire = <<word[b]>>
    /\ (\A b \in Nat : at[b] # t) => wire = Nothing

\* The words from lo to before hi, oldest first.
Slice(word, lo, hi) == [k \in 1 .. hi - lo |-> word[lo + k - 1]]

\* A buffer that word[b] is in from clock come[b], and leaves after clock gone[b].
Waits(q, word, come, gone, t) ==
    \E lo, hi \in Nat : /\ Past(gone, t, lo) /\ Past(come, t + 1, hi) /\ lo <= hi
                        /\ q = Slice(word, lo, hi)

\* A block has a word at least.
LEMMA BlockLenIs == BlockLen \in Nat \ {0} /\ BlockLen > Images /\ BlockLen >= Rows + Cols
BY ImagesIs, ArrayAssumption DEF BlockLen

\* Later blocks come later.
LEMMA PacedIs ==
    ASSUME NEW at \in Times, Paced(at)
    PROVE  /\ \A b \in Nat : at[b] \in Nat
           /\ \A b \in Nat : at[b + 1] >= at[b] + BlockLen
           /\ \A a, b \in Nat : a < b => at[b] >= at[a] + BlockLen
           /\ \A a, b \in Nat : at[a] <= at[b] <=> a <= b
<1>1. \A b \in Nat : at[b] \in Nat
  BY DEF Times
<1>2. ASSUME NEW a \in Nat, NEW b \in Nat, a < b PROVE at[b] >= at[a] + BlockLen
  <2>1. b - a - 1 \in Nat /\ b - a \in Nat /\ a + (b - a) = b
    BY <1>2
  <2>2. at[a + (b - a)] >= at[a] + BlockLen * (b - a)
    BY <2>1 DEF Paced
  <2>3. BlockLen * (b - a) = BlockLen + BlockLen * (b - a - 1) /\ BlockLen * (b - a - 1) \in Nat
    BY <2>1, BlockLenIs
  <2> QED BY <1>1, <2>1, <2>2, <2>3, BlockLenIs
<1>3. \A b \in Nat : at[b + 1] >= at[b] + BlockLen
  BY <1>2
<1>4. ASSUME NEW a \in Nat, NEW b \in Nat PROVE at[a] <= at[b] <=> a <= b
  BY <1>1, <1>2, BlockLenIs
<1> QED BY <1>1, <1>2, <1>3, <1>4

\* One clock on, at most one more has happened.
LEMMA PastStep ==
    ASSUME NEW at \in Times, Paced(at), NEW t \in Nat, NEW n, Past(at, t, n)
    PROVE  /\ n \in Nat /\ at[n] \in Nat /\ at[n] >= t
           /\ \A b \in Nat : at[b] = t => b = n
           /\ Past(at, t + 1, n + One(at[n] = t))
<1>1. n \in Nat /\ \A b \in Nat : b < n <=> at[b] < t
  BY DEF Past
<1>2. \A b \in Nat : at[b] \in Nat
  BY DEF Times
<1>3. \A a, b \in Nat : at[a] <= at[b] <=> a <= b
  BY PacedIs
<1>4. at[n] >= t
  BY <1>1, <1>2
<1>5. \A b \in Nat : at[b] = t => b = n
  BY <1>1, <1>2, <1>3, <1>4
<1>6. Past(at, t + 1, n + One(at[n] = t))
  <2>1. CASE at[n] = t
    <3>1. One(at[n] = t) = 1
      BY <2>1 DEF One
    <3>2. \A b \in Nat : b < n + 1 <=> at[b] < t + 1
      BY <1>1, <1>2, <1>3, <2>1
    <3> QED BY <1>1, <3>1, <3>2 DEF Past
  <2>2. CASE at[n] # t
    <3>1. One(at[n] = t) = 0
      BY <2>2 DEF One
    <3>2. \A b \in Nat : b < n <=> at[b] < t + 1
      BY <1>1, <1>2, <1>5, <2>2
    <3> QED BY <1>1, <3>1, <3>2 DEF Past
  <2> QED BY <2>1, <2>2
<1> QED BY <1>1, <1>2, <1>4, <1>5, <1>6

\* There is one number of those that have happened.
LEMMA PastOnce ==
    ASSUME NEW at, NEW t, NEW m, NEW n, Past(at, t, m), Past(at, t, n)
    PROVE  m = n
<1>1. m \in Nat /\ n \in Nat /\ \A b \in Nat : b < n <=> b < m
  BY DEF Past
<1>2. n < n <=> n < m
  BY <1>1
<1>3. m < n <=> m < m
  BY <1>1
<1> QED BY <1>1, <1>2, <1>3

\* What a wire carries, as a word of the next block.
LEMMA ShowsIs ==
    ASSUME NEW at \in Times, Paced(at), NEW t \in Nat, NEW n, Past(at, t, n),
           NEW wire, NEW word, Shows(wire, word, at, t)
    PROVE  /\ wire = IF at[n] = t THEN <<word[n]>> ELSE Nothing
           /\ IsWire(wire) /\ (wire # Nothing <=> at[n] = t)
<1>1. n \in Nat /\ \A b \in Nat : at[b] = t => b = n
  BY PastStep
<1>2. wire = IF at[n] = t THEN <<word[n]>> ELSE Nothing
  BY <1>1 DEF Shows
<1> QED BY <1>2 DEF IsWire, Nothing

\* A slice is a queue.
LEMMA SliceIs ==
    ASSUME NEW word, NEW lo \in Nat, NEW hi \in Nat, lo <= hi
    PROVE  /\ IsQueue(Slice(word, lo, hi)) /\ Len(Slice(word, lo, hi)) = hi - lo
           /\ Slice(word, lo, hi) # << >> <=> lo < hi
           /\ lo < hi => Head(Slice(word, lo, hi)) = word[lo]
<1> DEFINE q == Slice(word, lo, hi)
           S == {word[b] : b \in Nat}
<1>1. hi - lo \in Nat
  OBVIOUS
<1>2. \A k \in 1 .. hi - lo : lo + k - 1 \in Nat /\ word[lo + k - 1] \in S
  OBVIOUS
<1>3. q = [k \in 1 .. hi - lo |-> word[lo + k - 1]]
  BY DEF Slice
<1> HIDE DEF q, S
<1>4. q \in Seq(S) /\ Len(q) = hi - lo
  <2>1. q \in [1 .. hi - lo -> S]
    BY <1>2, <1>3
  <2> QED BY <1>1, <2>1
<1>5. q # << >> <=> lo < hi
  BY <1>4, EmptySeq
<1>6. lo < hi => Head(q) = word[lo]
  <2>1. ASSUME lo < hi PROVE q[1] = word[lo]
    BY <1>3, <2>1
  <2>2. q # << >> => Head(q) = q[1]
    BY <1>4
  <2> QED BY <1>5, <2>1, <2>2
<1> QED BY <1>4, <1>5, <1>6 DEF q, IsQueue

\* Two queues of the same words are the same.
LEMMA SameQueue ==
    ASSUME NEW p, IsQueue(p), NEW q, IsQueue(q), Len(p) = Len(q),
           \A k \in 1 .. Len(p) : p[k] = q[k]
    PROVE  p = q
<1>1. PICK S : p \in Seq(S)
  BY DEF IsQueue
<1>2. PICK T : q \in Seq(T)
  BY DEF IsQueue
<1>3. p \in Seq(S \cup T) /\ q \in Seq(S \cup T)
  BY <1>1, <1>2, SeqMonotonic
<1> QED BY <1>3, SeqEqual

\* The words of a queue after a clock.
LEMMA QueueWords ==
    ASSUME NEW q, IsQueue(q), NEW offer, IsWire(offer), NEW pop \in BOOLEAN, pop => q # << >>
    PROVE  LET after == Step(q, offer, pop)
           IN  /\ IsQueue(after) /\ Len(after) = Len(q) - One(pop) + Len(offer)
               /\ \A k \in 1 .. Len(q) - One(pop) : after[k] = q[k + One(pop)]
               /\ offer # Nothing => after[Len(after)] = offer[1]
BY StepIs DEF One

\* A buffer loses its oldest word and takes the next one.
LEMMA SliceStep ==
    ASSUME NEW word, NEW lo \in Nat, NEW hi \in Nat, lo <= hi,
           NEW pop \in BOOLEAN, pop => lo < hi, NEW more \in BOOLEAN
    PROVE  Step(Slice(word, lo, hi), IF more THEN <<word[hi]>> ELSE Nothing, pop)
             = Slice(word, lo + One(pop), hi + One(more))
<1> DEFINE q == Slice(word, lo, hi)
           offer == IF more THEN <<word[hi]>> ELSE Nothing
           out == One(pop)
           in == One(more)
           after == Step(q, offer, pop)
           new == Slice(word, lo + out, hi + in)
<1>1. IsQueue(q) /\ Len(q) = hi - lo /\ (pop => q # << >>)
  BY SliceIs
<1>2. IsWire(offer) /\ Len(offer) = in /\ (more => offer # Nothing /\ offer[1] = word[hi])
  <2>1. CASE more
    BY <2>1 DEF IsWire, Nothing, One
  <2>2. CASE ~more
    BY <2>2, NothingIs DEF One
  <2> QED BY <2>1, <2>2
<1>3. out \in Nat /\ in \in Nat /\ lo + out <= hi /\ hi <= hi + in
  BY DEF One
<1>4. /\ IsQueue(new) /\ Len(new) = (hi + in) - (lo + out)
      /\ \A k \in 1 .. (hi + in) - (lo + out) : new[k] = word[lo + out + k - 1]
  <2> DEFINE l == lo + out
             h == hi + in
  <2>1. l \in Nat /\ h \in Nat /\ l <= h
    BY <1>3
  <2> HIDE DEF l, h
  <2>2. IsQueue(Slice(word, l, h)) /\ Len(Slice(word, l, h)) = h - l
    BY <2>1, SliceIs
  <2>3. \A k \in 1 .. h - l : Slice(word, l, h)[k] = word[l + k - 1]
    BY DEF Slice
  <2>4. new = Slice(word, l, h) /\ (hi + in) - (lo + out) = h - l /\ lo + out = l
    BY DEF l, h
  <2> HIDE DEF new, in, out
  <2> QED BY <2>2, <2>3, <2>4
<1>5. \A k \in 1 .. hi - lo : q[k] = word[lo + k - 1]
  BY DEF Slice
<1>6. /\ IsQueue(after) /\ Len(after) = Len(q) - out + Len(offer)
      /\ \A k \in 1 .. Len(q) - out : after[k] = q[k + out]
      /\ offer # Nothing => after[Len(after)] = offer[1]
  <2> HIDE DEF q, offer
  <2> QED BY <1>1, <1>2, QueueWords
<1>7. in \in {0, 1} /\ (in = 1 <=> more) /\ out \in {0, 1}
  BY DEF One
<1> HIDE DEF q, offer, after, new, in, out
<1>8. Len(after) = (hi + in) - (lo + out) /\ Len(after) = Len(new)
  BY <1>1, <1>2, <1>3, <1>4, <1>6
<1>9. ASSUME NEW k \in 1 .. Len(after) PROVE after[k] = new[k]
  <2>1. CASE k <= hi - lo - out
    <3>1. k + out \in 1 .. hi - lo /\ k \in 1 .. Len(q) - out /\ k \in Nat
      BY <1>1, <1>3, <1>8, <2>1
    <3>2. after[k] = word[lo + (k + out) - 1]
      BY <1>5, <1>6, <3>1
    <3>3. lo + (k + out) - 1 = lo + out + k - 1
      BY <1>3, <3>1
    <3> QED BY <1>4, <1>8, <3>2, <3>3
  <2>2. CASE ~(k <= hi - lo - out)
    <3>1. more /\ k = Len(after) /\ lo + out + k - 1 = hi
      BY <1>3, <1>7, <1>8, <2>2
    <3> QED BY <1>2, <1>4, <1>6, <1>8, <3>1
  <2> QED BY <2>1, <2>2
<1>10. after = new
  BY <1>4, <1>6, <1>8, <1>9, SameQueue
<1> QED BY <1>10 DEF after, new, q, offer, in, out

\* A buffer at a clock: what is offered comes in, what is due leaves.
LEMMA WaitsStep ==
    ASSUME NEW come \in Times, Paced(come), NEW gone \in Times, Paced(gone),
           \A b \in Nat : come[b] <= gone[b],
           NEW t \in Nat, NEW q, NEW word, Waits(q, word, come, gone, t),
           NEW offer, Shows(offer, word, come, t + 1),
           NEW pop \in BOOLEAN, pop <=> \E b \in Nat : gone[b] = t
    PROVE  Waits(Step(q, offer, pop), word, come, gone, t + 1)
<1>1. PICK lo, hi \in Nat : /\ Past(gone, t, lo) /\ Past(come, t + 1, hi) /\ lo <= hi
                            /\ q = Slice(word, lo, hi)
  BY DEF Waits
<1> DEFINE more == come[hi] = t + 1
<1>2. /\ gone[lo] \in Nat /\ gone[lo] >= t
      /\ \A b \in Nat : gone[b] = t => b = lo
      /\ Past(gone, t + 1, lo + One(gone[lo] = t))
  BY <1>1, PastStep
<1>3. pop = (gone[lo] = t)
  BY <1>1, <1>2
<1>4. /\ Past(come, t + 1 + 1, hi + One(more))
      /\ offer = IF more THEN <<word[hi]>> ELSE Nothing
  BY <1>1, PastStep, ShowsIs
<1>5. pop => lo < hi
  <2>1. ASSUME pop PROVE come[lo] < t + 1
    <3>1. come[lo] <= gone[lo] /\ come[lo] \in Nat
      BY <1>1 DEF Times
    <3> QED BY <1>2, <1>3, <2>1, <3>1
  <2> QED BY <1>1, <2>1 DEF Past
<1>6. more \in BOOLEAN
  OBVIOUS
<1> HIDE DEF more
<1>7. Step(q, offer, pop) = Slice(word, lo + One(pop), hi + One(more))
  BY <1>1, <1>4, <1>5, <1>6, SliceStep
<1>8. lo + One(pop) \in Nat /\ hi + One(more) \in Nat /\ lo + One(pop) <= hi + One(more)
  BY <1>1, <1>5, <1>6 DEF One
<1>9. Past(gone, t + 1, lo + One(pop))
  BY <1>2, <1>3
<1> QED BY <1>4, <1>7, <1>8, <1>9 DEF Waits
-----------------------------------------------------------------------------
(***************************************************************************)
(* A processing element on schedule.  Block b's weight comes at p.W[b], its *)
(* image word at p.I[b], its partial output at p.O[b], and the MAC unit    *)
(* takes them at p.at[b], the clock when all three are there.              *)
(***************************************************************************)
CellPlan(p) ==
    /\ p.W \in Times /\ p.I \in Times /\ p.O \in Times /\ p.at \in Times
    /\ Paced(p.W) /\ Paced(p.I) /\ Paced(p.O) /\ Paced(p.at)
    /\ \A b \in Nat :
          /\ p.W[b] <= p.at[b] /\ p.I[b] <= p.at[b] /\ p.O[b] <= p.at[b]
          /\ p.at[b] = p.W[b] \/ p.at[b] = p.I[b] \/ p.at[b] = p.O[b]
          /\ p.at[b] + 1 < p.W[b + PEBufferSize] /\ p.at[b] + 1 < p.I[b + PEBufferSize]
          /\ p.at[b] < p.O[b + 1]
          /\ p.v[b] = FPADD(FPMUL(p.w[b], p.i[b]), p.o[b])

SideShows(side, word, come, gone, t) ==
    Shows(side.P, word, come, t) /\ Waits(side.M, word, come, gone, t)

CellShows(cell, p, t) ==
    /\ SideShows(cell.W, p.w, p.W, p.at, t)
    /\ SideShows(cell.I, p.i, p.I, p.at, t)
    /\ Waits(cell.O, p.o, p.O, p.at, t)
    /\ \A k \in 1 .. MAC_Stages : Shows(cell.MAC[k], p.v, p.at, t - k)

\* A buffer that empties before the words that would overfill it come.
LEMMA SideRoom ==
    ASSUME PEBufferSize >= 2, NEW come \in Times, Paced(come), NEW gone \in Times, Paced(gone),
           \A b \in Nat : gone[b] + 1 < come[b + PEBufferSize],
           NEW t \in Nat, NEW word, NEW side, SideShows(side, word, come, gone, t),
           NEW b \in Nat, come[b] = t + 1
    PROVE  DataInRdy(side)
<1>1. PICK lo, hi \in Nat : /\ Past(gone, t, lo) /\ Past(come, t + 1, hi) /\ lo <= hi
                            /\ side.M = Slice(word, lo, hi)
  BY DEF SideShows, Waits
<1>2. b = hi
  BY <1>1, PastStep
<1>3. PEBufferSize \in Nat
  BY CellSizes
<1>4. hi - lo < PEBufferSize
  <2> SUFFICES ASSUME hi - lo >= PEBufferSize PROVE FALSE
    BY <1>1, <1>3
  <2> DEFINE a == hi - PEBufferSize
  <2>1. a \in Nat /\ a >= lo /\ a + PEBufferSize = hi
    BY <1>1, <1>3
  <2> HIDE DEF a
  <2>2. gone[a] + 1 < t + 1
    BY <1>2, <2>1
  <2>3. gone[a] \in Nat
    BY <2>1 DEF Times
  <2>4. a < lo
    BY <1>1, <2>1, <2>2, <2>3 DEF Past
  <2> QED BY <1>1, <2>1, <2>4
<1>5. Len(side.M) = hi - lo
  <2>1. Len(Slice(word, lo, hi)) = hi - lo
    BY <1>1, SliceIs
  <2> QED BY <1>1, <2>1
<1>6. Len(side.P) \in {0, 1}
  <2>1. IsWire(side.P)
    BY DEF SideShows, Shows, IsWire
  <2> QED BY <2>1, WireIs
<1>7. Len(side.P) < PEBufferSize
  <2>1. 0 < PEBufferSize /\ 1 < PEBufferSize
    BY <1>3
  <2> QED BY <1>6, <2>1, Zenon
<1>8. Len(side.M) < PEBufferSize
  BY <1>4, <1>5, Zenon
<1> QED BY <1>7, <1>8, Zenon DEF DataInRdy

\* A weight or image word stays one clock before the neighbour takes it, and
\* before the MAC unit until it is due.
LEMMA SideOnTime ==
    ASSUME NEW come \in Times, Paced(come), NEW gone \in Times, Paced(gone),
           \A b \in Nat : come[b] <= gone[b],
           NEW t \in Nat, NEW word, NEW side, SideShows(side, word, come, gone, t),
           NEW offer, Shows(offer, word, come, t + 1),
           \A b \in Nat : come[b] = t + 1 => DataInRdy(side),
           NEW rdy \in BOOLEAN, side.P # << >> => rdy,
           NEW mac \in BOOLEAN, mac <=> \E b \in Nat : gone[b] = t
    PROVE  SideShows(SideClock(side, offer, rdy, mac), word, come, gone, t + 1)
<1> DEFINE taken == Taken(side, offer)
           pop == side.P # << >> /\ rdy
           after == SideClock(side, offer, rdy, mac)
<1>1. after.P = Step(side.P, taken, pop) /\ after.M = Step(side.M, taken, mac)
  BY DEF SideClock, Taken
<1>2. taken = offer
  <2>1. CASE \E b \in Nat : come[b] = t + 1
    BY <2>1 DEF Taken
  <2>2. CASE \A b \in Nat : come[b] # t + 1
    BY <2>2 DEF Taken, Shows
  <2> QED BY <2>1, <2>2
<1>3. Step(side.P, taken, pop) = offer
  <2>1. IsWire(side.P) /\ IsWire(offer)
    BY DEF SideShows, Shows, IsWire
  <2>2. Step(side.P, offer, pop) = << >> \o offer
    <3>1. CASE side.P = << >>
      BY <3>1 DEF Step
    <3>2. CASE side.P # << >>
      <4>1. PICK x : side.P = <<x>>
        BY <2>1, <3>2 DEF IsWire, Nothing
      <4>2. Tail(<<x>>) = << >>
        OBVIOUS
      <4> QED BY <3>2, <4>1, <4>2 DEF Step
    <3> QED BY <3>1, <3>2
  <2>3. << >> \o offer = offer
    <3>1. PICK S : offer \in Seq(S)
      BY <2>1, WireIs DEF IsQueue
    <3> QED BY <3>1, ConcatEmptySeq
  <2> QED BY <1>2, <2>2, <2>3
<1>4. Waits(Step(side.M, offer, mac), word, come, gone, t + 1)
  <2>1. Waits(side.M, word, come, gone, t)
    BY DEF SideShows
  <2> QED BY <2>1, WaitsStep
<1> HIDE DEF taken, pop, after
<1>5. SideShows(after, word, come, gone, t + 1)
  BY <1>1, <1>2, <1>3, <1>4 DEF SideShows
<1> QED BY <1>5 DEF after

\* The MAC unit takes the words of block b at p.at[b], and always finds room for
\* a partial output.
LEMMA CellIssues ==
    ASSUME PEBufferSize >= 2, NEW p, CellPlan(p), NEW t \in Nat, NEW cell, CellShows(cell, p, t)
    PROVE  /\ O_DataInRdy(cell)
           /\ Issue(cell, TRUE) <=> \E b \in Nat : p.at[b] = t
           /\ \A b \in Nat : p.at[b] = t => MACResult(cell) = <<p.v[b]>>
<1>1. /\ p.W \in Times /\ p.I \in Times /\ p.O \in Times /\ p.at \in Times
      /\ Paced(p.W) /\ Paced(p.I) /\ Paced(p.O) /\ Paced(p.at)
  BY DEF CellPlan
<1>2. PICK lo, hw \in Nat : /\ Past(p.at, t, lo) /\ Past(p.W, t + 1, hw) /\ lo <= hw
                            /\ cell.W.M = Slice(p.w, lo, hw)
  BY DEF CellShows, SideShows, Waits
<1>3. PICK hi \in Nat : /\ Past(p.I, t + 1, hi) /\ lo <= hi
                        /\ cell.I.M = Slice(p.i, lo, hi)
  <2>1. PICK l, h \in Nat : /\ Past(p.at, t, l) /\ Past(p.I, t + 1, h) /\ l <= h
                            /\ cell.I.M = Slice(p.i, l, h)
    BY DEF CellShows, SideShows, Waits
  <2>2. l = lo
    BY <1>2, <2>1, PastOnce
  <2> QED BY <2>1, <2>2
<1>4. PICK ho \in Nat : /\ Past(p.O, t + 1, ho) /\ lo <= ho
                        /\ cell.O = Slice(p.o, lo, ho)
  <2>1. PICK l, h \in Nat : /\ Past(p.at, t, l) /\ Past(p.O, t + 1, h) /\ l <= h
                            /\ cell.O = Slice(p.o, l, h)
    BY DEF CellShows, Waits
  <2>2. l = lo
    BY <1>2, <2>1, PastOnce
  <2> QED BY <2>1, <2>2
<1>5. /\ p.at[lo] \in Nat /\ p.at[lo] >= t /\ \A b \in Nat : p.at[b] = t => b = lo
  BY <1>1, <1>2, PastStep
<1>6. /\ p.W[lo] \in Nat /\ p.I[lo] \in Nat /\ p.O[lo] \in Nat
      /\ p.W[lo] <= p.at[lo] /\ p.I[lo] <= p.at[lo] /\ p.O[lo] <= p.at[lo]
      /\ p.at[lo] = p.W[lo] \/ p.at[lo] = p.I[lo] \/ p.at[lo] = p.O[lo]
      /\ p.at[lo] < p.O[lo + 1] /\ p.O[lo + 1] \in Nat
      /\ p.v[lo] = FPADD(FPMUL(p.w[lo], p.i[lo]), p.o[lo])
  <2>1. lo \in Nat /\ lo + 1 \in Nat
    BY <1>2
  <2>2. p.W[lo] \in Nat /\ p.I[lo] \in Nat /\ p.O[lo] \in Nat /\ p.O[lo + 1] \in Nat
    BY <1>1, <2>1 DEF Times
  <2> QED BY <2>1, <2>2 DEF CellPlan
<1>7. /\ lo < hw <=> p.W[lo] < t + 1
      /\ lo < hi <=> p.I[lo] < t + 1
      /\ lo < ho <=> p.O[lo] < t + 1
      /\ lo + 1 < ho <=> p.O[lo + 1] < t + 1
  BY <1>2, <1>3, <1>4 DEF Past
<1>8. O_DataInRdy(cell)
  <2>1. ~(lo + 1 < ho)
    BY <1>5, <1>6, <1>7
  <2>2. Len(cell.O) = ho - lo
    <3>1. Len(Slice(p.o, lo, ho)) = ho - lo
      BY <1>4, SliceIs
    <3> QED BY <1>4, <3>1
  <2> QED BY <1>4, <2>1, <2>2, CellSizes DEF O_DataInRdy
<1>9. /\ cell.W.M # << >> <=> lo < hw
      /\ cell.I.M # << >> <=> lo < hi
      /\ cell.O # << >> <=> lo < ho
  <2>1. Slice(p.w, lo, hw) # << >> <=> lo < hw
    BY <1>2, SliceIs
  <2>2. Slice(p.i, lo, hi) # << >> <=> lo < hi
    BY <1>3, SliceIs
  <2>3. Slice(p.o, lo, ho) # << >> <=> lo < ho
    BY <1>4, SliceIs
  <2> QED BY <1>2, <1>3, <1>4, <2>1, <2>2, <2>3
<1>10. Issue(cell, TRUE) <=> p.at[lo] = t
  <2>1. lo < hw /\ lo < hi /\ lo < ho <=> p.at[lo] = t
    BY <1>5, <1>6, <1>7
  <2> QED BY <1>9, <2>1 DEF Issue
<1>11. (\E b \in Nat : p.at[b] = t) <=> p.at[lo] = t
  BY <1>5
<1>12. ASSUME NEW b \in Nat, p.at[b] = t PROVE MACResult(cell) = <<p.v[b]>>
  <2>1. b = lo /\ lo < hw /\ lo < hi /\ lo < ho
    BY <1>5, <1>6, <1>7, <1>12
  <2>2. Head(cell.W.M) = p.w[lo] /\ Head(cell.I.M) = p.i[lo] /\ Head(cell.O) = p.o[lo]
    <3>1. Head(Slice(p.w, lo, hw)) = p.w[lo]
      BY <1>2, <2>1, SliceIs
    <3>2. Head(Slice(p.i, lo, hi)) = p.i[lo]
      BY <1>3, <2>1, SliceIs
    <3>3. Head(Slice(p.o, lo, ho)) = p.o[lo]
      BY <1>4, <2>1, SliceIs
    <3> QED BY <1>2, <1>3, <1>4, <3>1, <3>2, <3>3
  <2> QED BY <1>6, <2>1, <2>2 DEF MACResult
<1> QED BY <1>8, <1>10, <1>11, <1>12

\* A cell that is offered its words on time is on time.
LEMMA CellOnTime ==
    ASSUME PEBufferSize >= 2, NEW p, CellPlan(p), NEW t \in Nat, NEW cell, CellOK(cell),
           CellShows(cell, p, t), NEW in,
           Shows(in.W, p.w, p.W, t + 1), Shows(in.I, p.i, p.I, t + 1), Shows(in.O, p.o, p.O, t + 1),
           in.WRdy \in BOOLEAN, in.IRdy \in BOOLEAN,
           cell.W.P # << >> => in.WRdy, cell.I.P # << >> => in.IRdy, in.ORdy = TRUE
    PROVE  CellShows(PEClock(cell, in), p, t + 1)
<1> DEFINE mac == Issue(cell, TRUE)
           after == PEClock(cell, in)
<1>1. /\ p.W \in Times /\ p.I \in Times /\ p.O \in Times /\ p.at \in Times
      /\ Paced(p.W) /\ Paced(p.I) /\ Paced(p.O) /\ Paced(p.at)
      /\ \A b \in Nat : p.W[b] <= p.at[b] /\ p.I[b] <= p.at[b] /\ p.O[b] <= p.at[b]
      /\ \A b \in Nat : p.at[b] + 1 < p.W[b + PEBufferSize]
      /\ \A b \in Nat : p.at[b] + 1 < p.I[b + PEBufferSize]
  BY DEF CellPlan
<1>2. /\ SideShows(cell.W, p.w, p.W, p.at, t) /\ SideShows(cell.I, p.i, p.I, p.at, t)
      /\ Waits(cell.O, p.o, p.O, p.at, t)
      /\ \A k \in 1 .. MAC_Stages : Shows(cell.MAC[k], p.v, p.at, t - k)
  BY DEF CellShows
<1>3. /\ O_DataInRdy(cell) /\ mac \in BOOLEAN
      /\ mac <=> \E b \in Nat : p.at[b] = t
      /\ \A b \in Nat : p.at[b] = t => MACResult(cell) = <<p.v[b]>>
  BY CellIssues DEF Issue
<1>4. /\ after.W = SideClock(cell.W, in.W, in.WRdy, mac)
      /\ after.I = SideClock(cell.I, in.I, in.IRdy, mac)
      /\ after.O = Step(cell.O, in.O, mac)
      /\ after.MAC = Shifted(cell.MAC, IF mac THEN MACResult(cell) ELSE Nothing)
  BY <1>3 DEF PEClock
<1> HIDE DEF mac, after
<1>5. SideShows(after.W, p.w, p.W, p.at, t + 1)
  <2> DEFINE side == cell.W
             come == p.W
             gone == p.at
             word == p.w
             offer == in.W
             rdy == in.WRdy
  <2>1. /\ come \in Times /\ Paced(come) /\ gone \in Times /\ Paced(gone)
        /\ \A b \in Nat : come[b] <= gone[b]
        /\ \A b \in Nat : gone[b] + 1 < come[b + PEBufferSize]
        /\ SideShows(side, word, come, gone, t) /\ Shows(offer, word, come, t + 1)
        /\ rdy \in BOOLEAN /\ (side.P # << >> => rdy)
        /\ mac <=> \E b \in Nat : gone[b] = t
    BY <1>1, <1>2, <1>3
  <2> HIDE DEF side, come, gone, word, offer, rdy
  <2>2. \A b \in Nat : come[b] = t + 1 => DataInRdy(side)
    BY <2>1, SideRoom
  <2>3. SideShows(SideClock(side, offer, rdy, mac), word, come, gone, t + 1)
    BY <1>3, <2>1, <2>2, SideOnTime
  <2> QED BY <1>4, <2>3, Zenon DEF side, come, gone, word, offer, rdy
<1>6. SideShows(after.I, p.i, p.I, p.at, t + 1)
  <2> DEFINE side == cell.I
             come == p.I
             gone == p.at
             word == p.i
             offer == in.I
             rdy == in.IRdy
  <2>1. /\ come \in Times /\ Paced(come) /\ gone \in Times /\ Paced(gone)
        /\ \A b \in Nat : come[b] <= gone[b]
        /\ \A b \in Nat : gone[b] + 1 < come[b + PEBufferSize]
        /\ SideShows(side, word, come, gone, t) /\ Shows(offer, word, come, t + 1)
        /\ rdy \in BOOLEAN /\ (side.P # << >> => rdy)
        /\ mac <=> \E b \in Nat : gone[b] = t
    BY <1>1, <1>2, <1>3
  <2> HIDE DEF side, come, gone, word, offer, rdy
  <2>2. \A b \in Nat : come[b] = t + 1 => DataInRdy(side)
    BY <2>1, SideRoom
  <2>3. SideShows(SideClock(side, offer, rdy, mac), word, come, gone, t + 1)
    BY <1>3, <2>1, <2>2, SideOnTime
  <2> QED BY <1>4, <2>3, Zenon DEF side, come, gone, word, offer, rdy
<1>7. Waits(after.O, p.o, p.O, p.at, t + 1)
  <2> DEFINE q == cell.O
             come == p.O
             gone == p.at
             word == p.o
             offer == in.O
  <2>1. /\ come \in Times /\ Paced(come) /\ gone \in Times /\ Paced(gone)
        /\ \A b \in Nat : come[b] <= gone[b]
        /\ Waits(q, word, come, gone, t) /\ Shows(offer, word, come, t + 1)
        /\ mac <=> \E b \in Nat : gone[b] = t
    BY <1>1, <1>2, <1>3
  <2> HIDE DEF q, come, gone, word, offer
  <2>2. Waits(Step(q, offer, mac), word, come, gone, t + 1)
    BY <1>3, <2>1, WaitsStep
  <2> QED BY <1>4, <2>2, Zenon DEF q, come, gone, word, offer
<1>8. ASSUME NEW k \in 1 .. MAC_Stages PROVE Shows(after.MAC[k], p.v, p.at, (t + 1) - k)
  <2>1. DOMAIN cell.MAC = 1 .. MAC_Stages
    BY PipeLen, CellSizes DEF CellOK
  <2>2. after.MAC[k] = IF k = 1 THEN (IF mac THEN MACResult(cell) ELSE Nothing)
                                ELSE cell.MAC[k - 1]
    BY <1>4, <2>1 DEF Shifted
  <2>3. CASE k = 1
    <3>1. (t + 1) - k = t
      BY <2>3
    <3>2. Shows(after.MAC[k], p.v, p.at, t)
      BY <1>3, <2>2, <2>3 DEF Shows
    <3> QED BY <3>1, <3>2
  <2>4. CASE k # 1
    <3>1. k - 1 \in 1 .. MAC_Stages /\ t - (k - 1) = (t + 1) - k
      BY <2>4, CellSizes
    <3> QED BY <1>2, <2>2, <2>4, <3>1
  <2> QED BY <2>3, <2>4
<1>9. CellShows(after, p, t + 1)
  BY <1>5, <1>6, <1>7, <1>8 DEF CellShows
<1> QED BY <1>9 DEF after
-----------------------------------------------------------------------------
(***************************************************************************)
(* An accumulator on schedule.  Word b comes at come[b], when the sum of   *)
(* the word before it is long out of the adder, and makes run[b] of it.    *)
(***************************************************************************)
Running(word, run) ==
    \A b \in Nat : run[b] = FPADD(word[b], IF b % NOPCount = 0 THEN Zero ELSE run[b - 1])

\* The last word of a group, the sum it makes and the clock it is read at first.
LastOf(g) == NOPCount * g + (NOPCount - 1)
GroupSums(run) == [g \in Nat |-> run[LastOf(g)]]
Closed(come) == [g \in Nat |-> come[LastOf(g)]]
Summed(come) == [g \in Nat |-> Closed(come)[g] + (ADD_Stages + 1)]

\* The sum of word n - 1 is on its way back to be added to word n.
Adding(come, n, t) == n % NOPCount # 0 /\ t <= come[n - 1] + ADD_Stages

AdderShows(a, come, run, n, t) ==
    /\ a.Counter = n % NOPCount
    /\ a.Busy = Adding(come, n, t)
    /\ n % NOPCount # 0 /\ ~Adding(come, n, t) => a.Acc = run[n - 1]
    /\ a.Partials = [k \in 1 .. ADD_Stages |->
                       IF Adding(come, n, t) /\ k = t - come[n - 1] THEN <<run[n - 1]>>
                                                                    ELSE Nothing]

SumShows(a, come, word, run, read, t) ==
    /\ Shows(a.Ready, word, come, t)
    /\ \E n \in Nat : Past(come, t, n) /\ AdderShows(a, come, run, n, t)
    /\ \A k \in 1 .. ADD_Stages : Shows(a.Sums[k], GroupSums(run), Closed(come), t - k)
    /\ \E hi \in Nat : /\ Past(Summed(come), t + 1, hi) /\ read <= hi
                       /\ a.Out = Slice(GroupSums(run), read, hi)

\* Counting words by groups.
LEMMA GroupCount ==
    ASSUME NEW n \in Nat
    PROVE  /\ n % NOPCount \in 0 .. NOPCount - 1
           /\ n % NOPCount # 0 => n - 1 \in Nat
           /\ (n + 1) % NOPCount = IF n % NOPCount = NOPCount - 1 THEN 0 ELSE (n % NOPCount) + 1
           /\ n % NOPCount = NOPCount - 1 <=> \E g \in Nat : n = LastOf(g)
<1> DEFINE a == n \div NOPCount
           x == n % NOPCount
<1>1. NOPCount \in Nat \ {0}
  BY CellSizes
<1>2. a \in Nat /\ x \in 0 .. NOPCount - 1 /\ n = a * NOPCount + x
  BY <1>1, DivMod
<1>3. 0 % NOPCount = 0
  <2>1. 0 = NOPCount * 0 + 0 /\ 0 \in 0 .. NOPCount - 1 /\ 0 \in Int /\ 0 \in Nat
    BY <1>1
  <2> QED BY <1>1, <2>1, QuotientIs
<1>4. \A g \in Nat : LastOf(g) % NOPCount = NOPCount - 1
  <2>1. NOPCount - 1 \in 0 .. NOPCount - 1
    BY <1>1
  <2> QED BY <1>1, <2>1, Element DEF LastOf
<1> HIDE DEF a, x
<1>5. (n + 1) % NOPCount = IF x = NOPCount - 1 THEN 0 ELSE x + 1
  <2>1. a * NOPCount = NOPCount * a /\ NOPCount * a \in Nat /\ NOPCount * (a + 1) = NOPCount * a + NOPCount
    BY <1>1, <1>2
  <2>2. CASE x = NOPCount - 1
    <3>1. n + 1 = NOPCount * (a + 1) + 0 /\ 0 \in 0 .. NOPCount - 1 /\ a + 1 \in Nat
      BY <1>1, <1>2, <2>1, <2>2
    <3> QED BY <1>1, <2>2, <3>1, Element
  <2>3. CASE x # NOPCount - 1
    <3>1. n + 1 = NOPCount * a + (x + 1) /\ x + 1 \in 0 .. NOPCount - 1
      BY <1>1, <1>2, <2>1, <2>3
    <3>2. (NOPCount * a + (x + 1)) % NOPCount = x + 1
      BY <1>1, <1>2, <3>1, Element
    <3> QED BY <2>3, <3>1, <3>2
  <2> QED BY <2>2, <2>3
<1>6. x # 0 => n - 1 \in Nat
  <2>1. a * NOPCount \in Nat
    BY <1>1, <1>2
  <2> QED BY <1>2, <2>1
<1>7. x = NOPCount - 1 <=> \E g \in Nat : n = LastOf(g)
  <2>1. ASSUME x = NOPCount - 1 PROVE n = LastOf(a)
    BY <1>1, <1>2, <2>1 DEF LastOf
  <2>2. ASSUME NEW g \in Nat, n = LastOf(g) PROVE x = NOPCount - 1
    BY <1>4, <2>2 DEF x
  <2> QED BY <1>2, <2>1, <2>2
<1> QED BY <1>2, <1>5, <1>6, <1>7 DEF x

\* The groups of a column are as far apart as its words at least.
LEMMA ClosedPaced ==
    ASSUME NEW come \in Times, Paced(come)
    PROVE  /\ \A g \in Nat : LastOf(g) \in Nat
           /\ Closed(come) \in Times /\ Paced(Closed(come))
           /\ Summed(come) \in Times /\ Paced(Summed(come))
<1>1. NOPCount \in Nat \ {0} /\ ADD_Stages \in Nat
  BY CellSizes
<1>2. \A g \in Nat : LastOf(g) \in Nat
  BY <1>1 DEF LastOf
<1>3. Closed(come) \in Times
  BY <1>2 DEF Closed, Times
<1>4. ASSUME NEW g \in Nat, NEW d \in Nat
      PROVE  Closed(come)[g + d] >= Closed(come)[g] + BlockLen * d
  <2>1. NOPCount * d \in Nat /\ LastOf(g + d) = LastOf(g) + NOPCount * d /\ g + d \in Nat
    <3>1. NOPCount * (g + d) = NOPCount * g + NOPCount * d /\ NOPCount * g \in Nat /\ NOPCount * d \in Nat
      BY <1>1
    <3> QED BY <1>1, <3>1 DEF LastOf
  <2>2. come[LastOf(g + d)] >= come[LastOf(g)] + BlockLen * (NOPCount * d)
    BY <1>2, <2>1 DEF Paced
  <2>3. BlockLen * (NOPCount * d) = BlockLen * d + BlockLen * ((NOPCount - 1) * d)
    BY <1>1, BlockLenIs
  <2>4. BlockLen * ((NOPCount - 1) * d) \in Nat /\ BlockLen * d \in Nat
    <3>1. NOPCount - 1 \in Nat
      BY <1>1
    <3>2. (NOPCount - 1) * d \in Nat
      BY <3>1
    <3> QED BY <3>2, BlockLenIs
  <2>5. come[LastOf(g + d)] \in Nat /\ come[LastOf(g)] \in Nat
    BY <1>2, <2>1 DEF Times
  <2>6. come[LastOf(g + d)] >= come[LastOf(g)] + BlockLen * d
    BY <2>2, <2>3, <2>4, <2>5
  <2> QED BY <2>1, <2>6 DEF Closed
<1>5. Summed(come) \in Times
  BY <1>1, <1>3 DEF Summed, Times
<1>6. ASSUME NEW g \in Nat, NEW d \in Nat
      PROVE  Summed(come)[g + d] >= Summed(come)[g] + BlockLen * d
  <2>1. Closed(come)[g + d] \in Nat /\ Closed(come)[g] \in Nat /\ BlockLen * d \in Nat /\ g + d \in Nat
    BY <1>3, BlockLenIs DEF Times
  <2>2. /\ Summed(come)[g + d] = Closed(come)[g + d] + (ADD_Stages + 1)
        /\ Summed(come)[g] = Closed(come)[g] + (ADD_Stages + 1)
    BY <2>1 DEF Summed
  <2> DEFINE x == Closed(come)[g + d]
             y == Closed(come)[g]
             z == BlockLen * d
  <2>3. x >= y + z /\ x \in Nat /\ y \in Nat /\ z \in Nat
    BY <1>4, <2>1
  <2> HIDE DEF x, y, z
  <2>4. x + (ADD_Stages + 1) >= (y + (ADD_Stages + 1)) + z
    BY <1>1, <2>3
  <2> QED BY <2>2, <2>4 DEF x, y, z
<1> QED BY <1>2, <1>3, <1>4, <1>5, <1>6 DEF Paced

\* The adder takes a word at the clock it comes.
LEMMA AdderIs ==
    ASSUME ADD_Stages < BlockLen, NEW come \in Times, Paced(come), NEW word, NEW run,
           Running(word, run), NEW t \in Nat, NEW n, Past(come, t, n), NEW a,
           Shows(a.Ready, word, come, t), AdderShows(a, come, run, n, t)
    PROVE  LET add == a.Ready # << >> /\ ~a.Busy
           IN  /\ a.Ready # << >> <=> come[n] = t
               /\ add <=> come[n] = t
               /\ come[n] = t => /\ ~Adding(come, n, t)
                                 /\ FPADD(Head(a.Ready), IF a.Counter = 0 THEN Zero ELSE a.Acc) = run[n]
<1>1. n \in Nat /\ come[n] \in Nat /\ come[n] >= t
  BY PastStep
<1>2. a.Ready = IF come[n] = t THEN <<word[n]>> ELSE Nothing
  BY ShowsIs
<1>3. a.Ready # << >> <=> come[n] = t
  BY <1>2 DEF Nothing
<1>4. ASSUME come[n] = t PROVE ~Adding(come, n, t)
  <2> SUFFICES ASSUME n % NOPCount # 0, t <= come[n - 1] + ADD_Stages PROVE FALSE
    BY DEF Adding
  <2>1. n - 1 \in Nat /\ (n - 1) + 1 = n
    BY <1>1, GroupCount
  <2>2. come[n] >= come[n - 1] + BlockLen /\ come[n - 1] \in Nat
    BY <2>1, PacedIs
  <2> QED BY <1>4, <2>2, BlockLenIs, CellSizes
<1>5. a.Busy = Adding(come, n, t) /\ a.Counter = n % NOPCount
  BY DEF AdderShows
<1>6. ASSUME come[n] = t
      PROVE  FPADD(Head(a.Ready), IF a.Counter = 0 THEN Zero ELSE a.Acc) = run[n]
  <2>1. Head(a.Ready) = word[n]
    BY <1>2, <1>6
  <2>2. (IF a.Counter = 0 THEN Zero ELSE a.Acc) = IF n % NOPCount = 0 THEN Zero ELSE run[n - 1]
    BY <1>4, <1>5, <1>6 DEF AdderShows
  <2> QED BY <1>1, <2>1, <2>2 DEF Running
<1> QED BY <1>3, <1>4, <1>5, <1>6

\* A clock of the adder.
LEMMA AdderOnTime ==
    ASSUME ADD_Stages < BlockLen, NEW come \in Times, Paced(come), NEW word, NEW run,
           Running(word, run), NEW t \in Nat, NEW n, Past(come, t, n), NEW a,
           Shows(a.Ready, word, come, t), AdderShows(a, come, run, n, t), NEW offer, NEW rdy
    PROVE  AdderShows(ACCClock(a, offer, rdy), come, run, n + One(come[n] = t), t + 1)
<1> DEFINE after == ACCClock(a, offer, rdy)
           add == a.Ready # << >> /\ ~a.Busy
           last == add /\ LastOfGroup(a)
           back == ~last /\ Exit(a.Partials) # Nothing
           sum == IF add
                  THEN <<FPADD(Head(a.Ready), IF a.Counter = 0 THEN Zero ELSE a.Acc)>>
                  ELSE Nothing
<1>1. /\ after.Partials = IF last THEN Pipe(ADD_Stages) ELSE Shifted(a.Partials, sum)
      /\ after.Counter = IF last THEN 0 ELSE IF add THEN a.Counter + 1 ELSE a.Counter
      /\ after.Acc = IF back THEN Exit(a.Partials)[1] ELSE a.Acc
      /\ after.Busy = IF back \/ last THEN FALSE ELSE IF add THEN TRUE ELSE a.Busy
  BY DEF ACCClock, AddBusy
<1>2. n \in Nat /\ come[n] \in Nat /\ come[n] >= t /\ \A b \in Nat : b < n <=> come[b] < t
  BY PastStep DEF Past
<1>3. /\ add <=> come[n] = t
      /\ come[n] = t => ~Adding(come, n, t)
      /\ come[n] = t => sum = <<run[n]>>
      /\ come[n] # t => sum = Nothing
  BY AdderIs
<1>4. last <=> come[n] = t /\ n % NOPCount = NOPCount - 1
  BY <1>3 DEF LastOfGroup, AdderShows
<1>5. /\ a.Counter = n % NOPCount /\ a.Busy = Adding(come, n, t)
      /\ n % NOPCount # 0 /\ ~Adding(come, n, t) => a.Acc = run[n - 1]
      /\ a.Partials = [k \in 1 .. ADD_Stages |->
                         IF Adding(come, n, t) /\ k = t - come[n - 1] THEN <<run[n - 1]>>
                                                                      ELSE Nothing]
  BY DEF AdderShows
<1>6. ADD_Stages \in Nat \ {0} /\ NOPCount \in Nat \ {0}
  BY CellSizes
<1>7. /\ DOMAIN a.Partials = 1 .. ADD_Stages
      /\ Exit(a.Partials) = IF Adding(come, n, t) /\ ADD_Stages = t - come[n - 1] THEN <<run[n - 1]>>
                                                                               ELSE Nothing
  <2>1. IsPipe(a.Partials, ADD_Stages)
    BY <1>5, Zenon DEF IsPipe, IsWire
  <2>2. DOMAIN a.Partials = 1 .. ADD_Stages /\ Exit(a.Partials) = a.Partials[ADD_Stages]
    BY <1>6, <2>1, PipeLen
  <2>3. ADD_Stages \in 1 .. ADD_Stages
    BY <1>6
  <2> QED BY <1>5, <2>2, <2>3
<1>8. /\ n % NOPCount \in 0 .. NOPCount - 1
      /\ n % NOPCount # 0 => n - 1 \in Nat
      /\ (n + 1) % NOPCount = IF n % NOPCount = NOPCount - 1 THEN 0 ELSE (n % NOPCount) + 1
  BY <1>2, GroupCount
<1>9. n % NOPCount # 0 => come[n - 1] < t /\ come[n - 1] \in Nat
  BY <1>2, <1>8 DEF Times
<1> HIDE DEF after, add, last, back, sum
<1>10. CASE come[n] = t
  <2>1. One(come[n] = t) = 1
    BY <1>10 DEF One
  <2>2. add /\ ~back /\ sum = <<run[n]>> /\ (last <=> n % NOPCount = NOPCount - 1)
    BY <1>3, <1>4, <1>7, <1>10 DEF back
  <2>3. CASE last
    <3>1. (n + 1) % NOPCount = 0
      BY <1>8, <2>2, <2>3
    <3>2. ~Adding(come, n + 1, t + 1)
      BY <3>1 DEF Adding
    <3>3. after.Counter = 0 /\ after.Busy = FALSE /\ after.Partials = Pipe(ADD_Stages)
      BY <1>1, <2>3
    <3>4. after.Partials = [k \in 1 .. ADD_Stages |->
             IF Adding(come, n + 1, t + 1) /\ k = (t + 1) - come[(n + 1) - 1]
             THEN <<run[(n + 1) - 1]>> ELSE Nothing]
      BY <3>2, <3>3 DEF Pipe
    <3>5. Adding(come, n + 1, t + 1) = FALSE
      BY <3>2 DEF Adding
    <3>6. AdderShows(after, come, run, n + 1, t + 1)
      BY <3>1, <3>3, <3>4, <3>5, Zenon DEF AdderShows
    <3> QED BY <2>1, <3>6, Zenon DEF after
  <2>4. CASE ~last
    <3>1. (n + 1) % NOPCount = (n % NOPCount) + 1 /\ (n + 1) % NOPCount # 0
      BY <1>8, <2>2, <2>4
    <3>2. (n + 1) - 1 = n /\ (t + 1) - t = 1
      BY <1>2
    <3>3. Adding(come, n + 1, t + 1) = TRUE
      <4>1. t + 1 <= t + ADD_Stages
        BY <1>6
      <4>2. t + 1 <= come[(n + 1) - 1] + ADD_Stages
        BY <1>10, <3>2, <4>1
      <4> QED BY <3>1, <4>2, Zenon DEF Adding
    <3>4. after.Counter = (n + 1) % NOPCount /\ after.Busy = TRUE
      BY <1>1, <1>5, <2>2, <2>4, <3>1
    <3>5. after.Partials = [k \in 1 .. ADD_Stages |->
             IF Adding(come, n + 1, t + 1) /\ k = (t + 1) - come[(n + 1) - 1]
             THEN <<run[(n + 1) - 1]>> ELSE Nothing]
      <4>1. after.Partials = [k \in 1 .. ADD_Stages |-> IF k = 1 THEN sum ELSE a.Partials[k - 1]]
        BY <1>1, <1>7, <2>4 DEF Shifted
      <4>2. \A k \in 1 .. ADD_Stages : k # 1 => a.Partials[k - 1] = Nothing
        <5> SUFFICES ASSUME NEW k \in 1 .. ADD_Stages, k # 1 PROVE a.Partials[k - 1] = Nothing
          OBVIOUS
        <5>1. k - 1 \in 1 .. ADD_Stages
          BY <1>6
        <5> QED BY <1>3, <1>5, <1>10, <5>1
      <4>3. \A k \in 1 .. ADD_Stages :
               (IF k = 1 THEN sum ELSE a.Partials[k - 1])
                 = IF Adding(come, n + 1, t + 1) /\ k = (t + 1) - come[(n + 1) - 1]
                   THEN <<run[(n + 1) - 1]>> ELSE Nothing
        BY <1>10, <2>2, <3>2, <3>3, <4>2
      <4> QED BY <4>1, <4>3
    <3>6. AdderShows(after, come, run, n + 1, t + 1)
      BY <3>3, <3>4, <3>5, Zenon DEF AdderShows
    <3> QED BY <2>1, <3>6, Zenon DEF after
  <2> QED BY <2>3, <2>4
<1>11. CASE come[n] # t
  <2>1. n + One(come[n] = t) = n
    BY <1>2, <1>11 DEF One
  <2>2. ~add /\ ~last /\ sum = Nothing /\ (back <=> Exit(a.Partials) # Nothing)
    BY <1>3, <1>4, <1>11 DEF back
  <2>3. after.Counter = n % NOPCount
    BY <1>1, <1>5, <2>2
  <2>4. back <=> Adding(come, n, t) /\ ADD_Stages = t - come[n - 1]
    BY <1>7, <2>2 DEF Nothing
  <2>5. Adding(come, n, t + 1) <=> Adding(come, n, t) /\ ~back
    BY <1>6, <1>9, <2>4 DEF Adding
  <2>6. after.Busy = Adding(come, n, t + 1)
    <3>1. CASE back
      BY <1>1, <2>5, <3>1 DEF Adding
    <3>2. CASE ~back
      <4>1. Adding(come, n, t + 1) = Adding(come, n, t)
        BY <2>5, <3>2 DEF Adding
      <4> QED BY <1>1, <1>5, <2>2, <3>2, <4>1
    <3> QED BY <3>1, <3>2
  <2>7. n % NOPCount # 0 /\ ~Adding(come, n, t + 1) => after.Acc = run[n - 1]
    <3>1. CASE back
      <4>1. Exit(a.Partials) = <<run[n - 1]>>
        BY <1>7, <2>4, <3>1
      <4> QED BY <1>1, <3>1, <4>1
    <3>2. CASE ~back
      BY <1>1, <1>5, <2>5, <3>2
    <3> QED BY <3>1, <3>2
  <2>8. after.Partials = [k \in 1 .. ADD_Stages |->
           IF Adding(come, n, t + 1) /\ k = (t + 1) - come[n - 1] THEN <<run[n - 1]>> ELSE Nothing]
    <3>1. after.Partials = [k \in 1 .. ADD_Stages |-> IF k = 1 THEN sum ELSE a.Partials[k - 1]]
      BY <1>1, <1>7, <2>2 DEF Shifted
    <3>2. ASSUME NEW k \in 1 .. ADD_Stages
          PROVE  (IF k = 1 THEN sum ELSE a.Partials[k - 1])
                   = IF Adding(come, n, t + 1) /\ k = (t + 1) - come[n - 1]
                     THEN <<run[n - 1]>> ELSE Nothing
      <4>1. CASE k = 1
        <5>1. ~(Adding(come, n, t + 1) /\ k = (t + 1) - come[n - 1])
          BY <1>9, <4>1 DEF Adding
        <5> QED BY <2>2, <4>1, <5>1
      <4>2. CASE k # 1
        <5>1. k - 1 \in 1 .. ADD_Stages
          BY <1>6, <4>2
        <5>2. a.Partials[k - 1] = IF Adding(come, n, t) /\ k - 1 = t - come[n - 1]
                                  THEN <<run[n - 1]>> ELSE Nothing
          BY <1>5, <5>1
        <5>3. Adding(come, n, t) /\ k - 1 = t - come[n - 1]
                <=> Adding(come, n, t + 1) /\ k = (t + 1) - come[n - 1]
          BY <1>6, <1>9, <5>1 DEF Adding
        <5> QED BY <4>2, <5>2, <5>3
      <4> QED BY <4>1, <4>2
    <3> QED BY <3>1, <3>2
  <2>9. AdderShows(after, come, run, n, t + 1)
    BY <2>3, <2>6, <2>7, <2>8, Zenon DEF AdderShows
  <2> QED BY <2>1, <2>9, Zenon DEF after
<1> QED BY <1>10, <1>11

\* An accumulator that is offered its words on time is on time; it always has
\* room for one.
LEMMA SumOnTime ==
    ASSUME ADD_Stages < BlockLen, ACCBufferSize >= 2, NEW come \in Times, Paced(come),
           NEW word, NEW run, Running(word, run), NEW t \in Nat, NEW a, SumOK(a),
           NEW read \in Nat, SumShows(a, come, word, run, read, t),
           NEW offer, Shows(offer, word, come, t + 1), NEW rdy \in BOOLEAN
    PROVE  /\ ACC_DataInRdy(a)
           /\ SumShows(ACCClock(a, offer, rdy), come, word, run,
                       read + One(ACC_DataOutValid(a) /\ rdy), t + 1)
<1> DEFINE after == ACCClock(a, offer, rdy)
           add == a.Ready # << >> /\ ~a.Busy
           last == add /\ LastOfGroup(a)
           sum == IF add
                  THEN <<FPADD(Head(a.Ready), IF a.Counter = 0 THEN Zero ELSE a.Acc)>>
                  ELSE Nothing
           pop == ACC_DataOutValid(a) /\ rdy
<1>1. PICK n \in Nat : Past(come, t, n) /\ AdderShows(a, come, run, n, t)
  BY DEF SumShows
<1>2. PICK hi \in Nat : /\ Past(Summed(come), t + 1, hi) /\ read <= hi
                        /\ a.Out = Slice(GroupSums(run), read, hi)
  BY DEF SumShows
<1>3. /\ Shows(a.Ready, word, come, t)
      /\ \A k \in 1 .. ADD_Stages : Shows(a.Sums[k], GroupSums(run), Closed(come), t - k)
  BY DEF SumShows
<1>4. IsWire(a.Ready) /\ IsWire(offer)
  BY <1>3 DEF Shows, IsWire
<1>5. ACC_DataInRdy(a)
  <2>1. Len(a.Ready) \in {0, 1}
    BY <1>4, WireIs
  <2>2. 0 < ACCBufferSize /\ 1 < ACCBufferSize
    BY CellSizes
  <2> QED BY <2>1, <2>2, Zenon DEF ACC_DataInRdy
<1>6. /\ after.Ready = Step(a.Ready, offer, add)
      /\ after.Out = Step(a.Out, Exit(a.Sums), pop)
      /\ after.Sums = Shifted(a.Sums, IF last THEN sum ELSE Nothing)
  BY <1>5 DEF ACCClock
<1>7. /\ n \in Nat /\ come[n] \in Nat /\ \A b \in Nat : come[b] = t => b = n
      /\ Past(come, t + 1, n + One(come[n] = t))
  BY <1>1, PastStep
<1>8. /\ a.Ready # << >> <=> come[n] = t
      /\ add <=> come[n] = t
      /\ come[n] = t => sum = <<run[n]>>
  BY <1>1, <1>3, AdderIs
<1>9. last <=> come[n] = t /\ n % NOPCount = NOPCount - 1
  BY <1>1, <1>8 DEF LastOfGroup, AdderShows
<1>10. /\ \A g \in Nat : LastOf(g) \in Nat
       /\ Closed(come) \in Times /\ Paced(Closed(come))
       /\ Summed(come) \in Times /\ Paced(Summed(come))
  BY ClosedPaced
<1>11. pop \in BOOLEAN /\ ADD_Stages \in Nat \ {0}
  BY CellSizes DEF ACC_DataOutValid
<1> HIDE DEF after, add, last, sum, pop
<1>12. Shows(after.Ready, word, come, t + 1)
  <2>1. Step(a.Ready, offer, add) = << >> \o offer
    <3>1. CASE add
      <4>1. PICK x : a.Ready = <<x>>
        BY <1>4, <1>8, <3>1 DEF IsWire, Nothing
      <4>2. Tail(<<x>>) = << >>
        OBVIOUS
      <4> QED BY <3>1, <4>1, <4>2 DEF Step
    <3>2. CASE ~add
      BY <1>8, <3>2 DEF Step
    <3> QED BY <3>1, <3>2
  <2>2. << >> \o offer = offer
    <3>1. PICK S : offer \in Seq(S)
      BY <1>4, WireIs DEF IsQueue
    <3> QED BY <3>1, ConcatEmptySeq
  <2>3. after.Ready = offer
    BY <1>6, <2>1, <2>2
  <2> QED BY <2>3
<1>13. \E m \in Nat : Past(come, t + 1, m) /\ AdderShows(after, come, run, m, t + 1)
  <2>1. AdderShows(after, come, run, n + One(come[n] = t), t + 1)
    BY <1>1, <1>3, AdderOnTime DEF after
  <2>2. n + One(come[n] = t) \in Nat
    BY <1>7 DEF Past
  <2> QED BY <1>7, <2>1, <2>2
<1>14. DOMAIN a.Sums = 1 .. ADD_Stages /\ Exit(a.Sums) = a.Sums[ADD_Stages]
  BY <1>11, PipeLen DEF SumOK
<1>15. ASSUME NEW k \in 1 .. ADD_Stages
       PROVE  Shows(after.Sums[k], GroupSums(run), Closed(come), (t + 1) - k)
  <2>1. after.Sums[k] = IF k = 1 THEN (IF last THEN sum ELSE Nothing) ELSE a.Sums[k - 1]
    BY <1>6, <1>14 DEF Shifted
  <2>2. CASE k = 1
    <3>1. (t + 1) - k = t
      BY <2>2
    <3>2. ASSUME NEW g \in Nat, Closed(come)[g] = t
          PROVE  after.Sums[k] = <<GroupSums(run)[g]>>
      <4>1. n = LastOf(g) /\ come[n] = t
        BY <1>7, <1>10, <3>2 DEF Closed
      <4>2. last
        BY <1>7, <1>9, <4>1, GroupCount
      <4> QED BY <1>8, <2>1, <2>2, <4>1, <4>2 DEF GroupSums
    <3>3. ASSUME \A g \in Nat : Closed(come)[g] # t PROVE after.Sums[k] = Nothing
      <4>1. ~last
        <5> SUFFICES ASSUME last PROVE FALSE
          OBVIOUS
        <5>1. PICK g \in Nat : n = LastOf(g)
          BY <1>7, <1>9, GroupCount
        <5>2. Closed(come)[g] = t
          BY <1>9, <5>1 DEF Closed
        <5> QED BY <3>3, <5>2
      <4> QED BY <2>1, <2>2, <4>1
    <3>4. Shows(after.Sums[k], GroupSums(run), Closed(come), t)
      BY <3>2, <3>3 DEF Shows
    <3> QED BY <3>1, <3>4
  <2>3. CASE k # 1
    <3>1. k - 1 \in 1 .. ADD_Stages /\ t - (k - 1) = (t + 1) - k
      BY <1>11, <2>3
    <3> QED BY <1>3, <2>1, <2>3, <3>1
  <2> QED BY <2>2, <2>3
<1> DEFINE sums == GroupSums(run)
           fin == Summed(come)
           more == fin[hi] = t + 1
<1>16. /\ Past(fin, (t + 1) + 1, hi + One(more)) /\ hi \in Nat /\ hi + One(more) \in Nat
       /\ \A g \in Nat : fin[g] = t + 1 => g = hi
  <2>1. fin \in Times /\ Paced(fin) /\ Past(fin, t + 1, hi) /\ t + 1 \in Nat /\ hi \in Nat
    BY <1>2, <1>10
  <2> HIDE DEF fin
  <2>2. /\ Past(fin, (t + 1) + 1, hi + One(fin[hi] = t + 1))
        /\ \A g \in Nat : fin[g] = t + 1 => g = hi
    BY <2>1, PastStep
  <2>3. hi + One(fin[hi] = t + 1) \in Nat
    BY <2>1 DEF One
  <2> QED BY <2>1, <2>2, <2>3
<1>17. Exit(a.Sums) = IF more THEN <<sums[hi]>> ELSE Nothing
  <2>1. ADD_Stages \in 1 .. ADD_Stages
    BY <1>11
  <2>2. Shows(Exit(a.Sums), sums, Closed(come), t - ADD_Stages)
    BY <1>3, <1>14, <2>1
  <2>3. \A g \in Nat : Closed(come)[g] = t - ADD_Stages <=> fin[g] = t + 1
    <3> SUFFICES ASSUME NEW g \in Nat
                 PROVE  Closed(come)[g] = t - ADD_Stages <=> fin[g] = t + 1
      OBVIOUS
    <3>1. fin[g] = Closed(come)[g] + (ADD_Stages + 1)
      BY DEF Summed
    <3>2. Closed(come)[g] \in Nat
      BY <1>10 DEF Times
    <3> QED BY <1>11, <3>1, <3>2
  <2>4. CASE more
    BY <1>16, <2>2, <2>3, <2>4 DEF Shows
  <2>5. CASE ~more
    <3>1. \A g \in Nat : Closed(come)[g] # t - ADD_Stages
      BY <1>16, <2>3, <2>5
    <3> QED BY <2>2, <2>5, <3>1 DEF Shows
  <2> QED BY <2>4, <2>5
<1>18. more \in BOOLEAN
  OBVIOUS
<1> HIDE DEF sums, fin, more
<1>19. pop => read < hi
  <2>1. Slice(sums, read, hi) # << >> <=> read < hi
    BY <1>2, SliceIs
  <2> QED BY <1>2, <2>1 DEF pop, ACC_DataOutValid, sums
<1>20. after.Out = Slice(sums, read + One(pop), hi + One(more))
  <2>1. Step(Slice(sums, read, hi), IF more THEN <<sums[hi]>> ELSE Nothing, pop)
          = Slice(sums, read + One(pop), hi + One(more))
    BY <1>2, <1>11, <1>18, <1>19, SliceStep
  <2>2. a.Out = Slice(sums, read, hi)
    BY <1>2 DEF sums
  <2> QED BY <1>6, <1>17, <2>1, <2>2
<1>21. read + One(pop) <= hi + One(more)
  BY <1>2, <1>11, <1>18, <1>19 DEF One
<1>22. SumShows(after, come, word, run, read + One(pop), t + 1)
  <2>1. \E h \in Nat : /\ Past(Summed(come), (t + 1) + 1, h) /\ read + One(pop) <= h
                       /\ after.Out = Slice(GroupSums(run), read + One(pop), h)
    BY <1>16, <1>20, <1>21 DEF sums, fin
  <2> QED BY <1>12, <1>13, <1>15, <2>1 DEF SumShows
<1> QED BY <1>5, <1>22 DEF after, pop
-----------------------------------------------------------------------------
(***************************************************************************)
(* The schedule of the array.  sent[q] is the clock at which the program   *)
(* executes its send number q; with it every clock at which a cell gets or *)
(* takes a word is known.                                                  *)
(***************************************************************************)
Spread(sent) == \A q, d \in Nat : sent[q + d] >= sent[q] + d

Latest(x, y, z) ==
    IF x <= z /\ y <= z THEN z ELSE IF x <= y THEN y ELSE x

\* From one row to the next a result takes the MAC unit and the buffer below.
Delay == MAC_Stages + 1

\* An image word moves down the diagonal from row 0 or the last column.
Hops(r, c) == IF r + c <= LastCol THEN r ELSE LastCol - c

WeightIn(sent, r, c) == [b \in Nat |-> sent[Place(1, b, r)] + (1 + c)]
ImageIn(sent, r, c) == [b \in Nat |-> sent[Place(2, b, r + c)] + (1 + Hops(r, c))]
OutputIn(sent, at, r, c) ==
    [b \in Nat |-> IF r = 0 THEN sent[Place(3, b, c)] + 1 ELSE at[<<r - 1, c>>][b] + Delay]
SumIn(at, c) == [b \in Nat |-> at[<<LastRow, c>>][b] + Delay]

\* A cell multiplies when the last of the three words is there.
Schedule(sent, at) ==
    /\ at \in [RowNo \X ColNo -> Times]
    /\ \A r \in RowNo, c \in ColNo, b \in Nat :
          at[<<r, c>>][b] = Latest(WeightIn(sent, r, c)[b], ImageIn(sent, r, c)[b],
                                   OutputIn(sent, at, r, c)[b])

\* Sends in between take a clock each.
LEMMA SpreadIs ==
    ASSUME NEW sent \in Times, Spread(sent), NEW p \in Nat, NEW q \in Nat, p <= q
    PROVE  sent[p] \in Nat /\ sent[q] \in Nat /\ sent[q] >= sent[p] + (q - p)
<1>1. q - p \in Nat /\ p + (q - p) = q
  OBVIOUS
<1>2. sent[p + (q - p)] >= sent[p] + (q - p)
  BY <1>1 DEF Spread
<1> QED BY <1>1, <1>2 DEF Times

\* Where the words of a block are sent.
LEMMA OffsetIs ==
    /\ \A k \in RowNo : Offset(1, k) \in 0 .. BlockLen - 1
    /\ \A k \in 0 .. Images - 1 : Offset(2, k) \in 0 .. BlockLen - 1
    /\ \A k \in ColNo : Offset(3, k) \in 1 .. BlockLen - 1
    /\ \A k \in ColNo : Offset(3, k) >= k + 1
    /\ \A k, l \in 0 .. Images - 1 : k <= l => Offset(2, k) + (l - k) <= Offset(2, l)
    /\ \A k, l \in ColNo : k <= l => Offset(3, k) <= Offset(3, l)
<1>1. Rows \in Nat \ {0} /\ Cols \in Nat \ {0} /\ Images = Rows + Cols - 1
  BY ImagesIs, ArrayAssumption
<1>2. \A k \in RowNo : Offset(1, k) \in 0 .. BlockLen - 1
  BY <1>1 DEF Offset, Least, BlockLen, RowNo
<1>3. \A k \in 0 .. Images - 1 : Offset(2, k) \in 0 .. BlockLen - 1
  BY <1>1 DEF Offset, Least, BlockLen
<1>4. \A k \in ColNo : Offset(3, k) \in 1 .. BlockLen - 1 /\ Offset(3, k) >= k + 1
  BY <1>1 DEF Offset, Least, BlockLen, ColNo
<1>5. \A k, l \in 0 .. Images - 1 : k <= l => Offset(2, k) + (l - k) <= Offset(2, l)
  BY <1>1 DEF Offset, Least, BlockLen
<1>6. \A k, l \in ColNo : k <= l => Offset(3, k) <= Offset(3, l)
  BY <1>1 DEF Offset, Least, BlockLen, ColNo
<1> QED BY <1>2, <1>3, <1>4, <1>5, <1>6

Slots(kind) == IF kind = 1 THEN RowNo ELSE IF kind = 2 THEN 0 .. Images - 1 ELSE ColNo

\* No two words of a block are sent at the same place.
LEMMA OffsetOnce ==
    ASSUME NEW x \in 1 .. 3, NEW y \in 1 .. 3, NEW k \in Slots(x), NEW l \in Slots(y),
           Offset(x, k) = Offset(y, l)
    PROVE  x = y /\ k = l
<1>1. Rows \in Nat \ {0} /\ Cols \in Nat \ {0} /\ Images = Rows + Cols - 1
  BY ImagesIs, ArrayAssumption
<1>2. x \in {1, 2, 3} /\ y \in {1, 2, 3}
  OBVIOUS
<1>3. k \in Nat /\ l \in Nat /\ (x = 1 => k < Rows) /\ (y = 1 => l < Rows)
      /\ (x = 3 => k < Cols) /\ (y = 3 => l < Cols)
  BY <1>1, <1>2 DEF Slots, RowNo, ColNo
<1>4. k = l
  <2>1. ~(k < l)
    BY <1>1, <1>2, <1>3 DEF Offset, Least
  <2>2. ~(l < k)
    BY <1>1, <1>2, <1>3 DEF Offset, Least
  <2> QED BY <1>3, <2>1, <2>2
<1>5. x = y
  BY <1>1, <1>2, <1>3, <1>4 DEF Offset, Least
<1> QED BY <1>4, <1>5

\* The place of a word among the sends.
LEMMA PlaceIs ==
    ASSUME NEW kind \in 1 .. 3, NEW b \in Nat, NEW k \in Slots(kind)
    PROVE  /\ Place(kind, b, k) \in Nat /\ BlockLen * b \in Nat /\ Offset(kind, k) \in Nat
           /\ Place(kind, b, k) = BlockLen * b + Offset(kind, k)
           /\ BlockLen * b <= Place(kind, b, k)
           /\ Place(kind, b, k) <= BlockLen * b + (BlockLen - 1)
           /\ \A d \in Nat : Place(kind, b + d, k) = Place(kind, b, k) + BlockLen * d
<1>1. Offset(kind, k) \in 0 .. BlockLen - 1
  BY OffsetIs DEF Slots
<1>2. BlockLen \in Nat \ {0}
  BY BlockLenIs
<1>3. BlockLen * b \in Nat
  BY <1>2
<1>4. ASSUME NEW d \in Nat PROVE Place(kind, b + d, k) = Place(kind, b, k) + BlockLen * d
  <2>1. BlockLen * (b + d) = BlockLen * b + BlockLen * d /\ BlockLen * d \in Nat
    BY <1>2
  <2> QED BY <1>1, <1>3, <2>1 DEF Place
<1> QED BY <1>1, <1>2, <1>3, <1>4 DEF Place

\* No two words are sent at the same place.
LEMMA PlaceOnce ==
    ASSUME NEW x \in 1 .. 3, NEW y \in 1 .. 3, NEW a \in Nat, NEW b \in Nat,
           NEW k \in Slots(x), NEW l \in Slots(y), Place(x, a, k) = Place(y, b, l)
    PROVE  x = y /\ a = b /\ k = l
<1>1. Offset(x, k) \in 0 .. BlockLen - 1 /\ Offset(y, l) \in 0 .. BlockLen - 1
  BY OffsetIs DEF Slots
<1>2. BlockLen \in Nat \ {0}
  BY BlockLenIs
<1>3. BlockLen * a \in Nat /\ BlockLen * b \in Nat
  BY <1>2
<1>4. BlockLen * a + Offset(x, k) = BlockLen * b + Offset(y, l)
  BY DEF Place
<1>5. BlockLen * a - BlockLen * b \in (1 - BlockLen) .. (BlockLen - 1)
  BY <1>1, <1>2, <1>3, <1>4
<1>6. a = b
  BY <1>2, <1>5, Multiples
<1>7. Offset(x, k) = Offset(y, l)
  BY <1>1, <1>3, <1>4, <1>6
<1> QED BY <1>6, <1>7, OffsetOnce

\* The way of an image word, from where it enters to each cell.
LEMMA HopsIs ==
    ASSUME NEW r \in RowNo, NEW c \in ColNo
    PROVE  /\ Hops(r, c) \in Nat /\ Hops(r, c) <= LastCol
           /\ r = 0 \/ c = LastCol => Hops(r, c) = 0
           /\ r # 0 /\ c # LastCol => Hops(r, c) = Hops(r - 1, c + 1) + 1
           /\ r # 0 => Hops(r - 1, c) \in Nat /\ Hops(r, c) <= Hops(r - 1, c) + 1
           /\ \A d \in ColNo : c <= d => Hops(r, c) <= Hops(r, d) + (d - c)
           /\ \A d \in ColNo : d <= c => Hops(r, c) <= Hops(r, d)
BY ArrayAssumption DEF Hops, RowNo, ColNo, LastCol

\* The clocks at which a stream's words of one kind are sent are paced.
LEMMA SentPaced ==
    ASSUME NEW sent \in Times, Spread(sent), NEW kind \in 1 .. 3, NEW k \in Slots(kind),
           NEW plus \in Nat
    PROVE  LET at == [b \in Nat |-> sent[Place(kind, b, k)] + plus]
           IN  at \in Times /\ Paced(at)
<1> DEFINE at == [b \in Nat |-> sent[Place(kind, b, k)] + plus]
<1>1. \A b \in Nat : Place(kind, b, k) \in Nat /\ sent[Place(kind, b, k)] \in Nat
  BY PlaceIs DEF Times
<1>2. at \in Times
  BY <1>1 DEF Times
<1>3. ASSUME NEW b \in Nat, NEW d \in Nat PROVE at[b + d] >= at[b] + BlockLen * d
  <2>1. Place(kind, b + d, k) = Place(kind, b, k) + BlockLen * d /\ BlockLen * d \in Nat
    BY PlaceIs, BlockLenIs
  <2>2. sent[Place(kind, b, k) + BlockLen * d] >= sent[Place(kind, b, k)] + BlockLen * d
    BY <1>1, <2>1 DEF Spread
  <2>3. /\ at[b + d] = sent[Place(kind, b, k) + BlockLen * d] + plus
        /\ at[b] = sent[Place(kind, b, k)] + plus
    BY <2>1
  <2>4. sent[Place(kind, b, k) + BlockLen * d] \in Nat /\ sent[Place(kind, b, k)] \in Nat
    BY <1>1, <2>1 DEF Times
  <2> HIDE DEF at
  <2> DEFINE x == sent[Place(kind, b, k) + BlockLen * d]
             y == sent[Place(kind, b, k)]
             z == BlockLen * d
  <2>5. x \in Nat /\ y \in Nat /\ z \in Nat /\ x >= y + z
    BY <2>1, <2>2, <2>4
  <2> HIDE DEF x, y, z
  <2>6. x + plus >= (y + plus) + z
    BY <2>5
  <2> QED BY <2>3, <2>6 DEF x, y, z
<1> HIDE DEF at
<1>4. Paced(at)
  BY <1>3 DEF Paced
<1> QED BY <1>2, <1>4 DEF at

\* The three words of a cell.
LEMMA WordsPaced ==
    ASSUME NEW sent \in Times, Spread(sent), NEW r \in RowNo, NEW c \in ColNo
    PROVE  /\ WeightIn(sent, r, c) \in Times /\ Paced(WeightIn(sent, r, c))
           /\ ImageIn(sent, r, c) \in Times /\ Paced(ImageIn(sent, r, c))
           /\ \A b \in Nat :
                 /\ WeightIn(sent, r, c)[b] = sent[Place(1, b, r)] + (1 + c)
                 /\ Place(1, b, r) \in Nat /\ sent[Place(1, b, r)] \in Nat
                 /\ ImageIn(sent, r, c)[b] = sent[Place(2, b, r + c)] + (1 + Hops(r, c))
                 /\ Place(2, b, r + c) \in Nat /\ sent[Place(2, b, r + c)] \in Nat
<1>1. 1 + c \in Nat /\ 1 + Hops(r, c) \in Nat
  BY HopsIs DEF ColNo
<1>2. r \in Slots(1) /\ r + c \in Slots(2)
  BY Sizes DEF Slots
<1>3. WeightIn(sent, r, c) \in Times /\ Paced(WeightIn(sent, r, c))
  BY <1>1, <1>2, SentPaced DEF WeightIn
<1>4. ImageIn(sent, r, c) \in Times /\ Paced(ImageIn(sent, r, c))
  BY <1>1, <1>2, SentPaced DEF ImageIn
<1>5. ASSUME NEW b \in Nat
      PROVE  /\ WeightIn(sent, r, c)[b] = sent[Place(1, b, r)] + (1 + c)
             /\ Place(1, b, r) \in Nat /\ sent[Place(1, b, r)] \in Nat
             /\ ImageIn(sent, r, c)[b] = sent[Place(2, b, r + c)] + (1 + Hops(r, c))
             /\ Place(2, b, r + c) \in Nat /\ sent[Place(2, b, r + c)] \in Nat
  <2>1. Place(1, b, r) \in Nat /\ Place(2, b, r + c) \in Nat
    <3>1. 1 \in 1 .. 3 /\ 2 \in 1 .. 3
      OBVIOUS
    <3>2. Place(1, b, r) \in Nat
      BY <1>2, <3>1, PlaceIs
    <3> DEFINE k == r + c
    <3>3. k \in Slots(2)
      BY <1>2
    <3> HIDE DEF k
    <3>4. Place(2, b, k) \in Nat
      BY <3>1, <3>3, PlaceIs
    <3> QED BY <3>2, <3>4 DEF k
  <2> QED BY <2>1 DEF Times, WeightIn, ImageIn
<1> QED BY <1>3, <1>4, <1>5

\* The latest of three paced timelines is paced.
LEMMA LatestPaced ==
    ASSUME NEW x \in Times, Paced(x), NEW y \in Times, Paced(y), NEW z \in Times, Paced(z),
           NEW at \in Times, \A b \in Nat : at[b] = Latest(x[b], y[b], z[b])
    PROVE  Paced(at)
<1> SUFFICES ASSUME NEW b \in Nat, NEW d \in Nat PROVE at[b + d] >= at[b] + BlockLen * d
  BY DEF Paced
<1>1. /\ x[b] \in Nat /\ y[b] \in Nat /\ z[b] \in Nat /\ b + d \in Nat
      /\ x[b + d] \in Nat /\ y[b + d] \in Nat /\ z[b + d] \in Nat /\ BlockLen * d \in Nat
  BY BlockLenIs DEF Times
<1>2. /\ x[b + d] >= x[b] + BlockLen * d /\ y[b + d] >= y[b] + BlockLen * d
      /\ z[b + d] >= z[b] + BlockLen * d
  BY DEF Paced
<1>3. /\ at[b] = x[b] \/ at[b] = y[b] \/ at[b] = z[b]
      /\ x[b + d] <= at[b + d] /\ y[b + d] <= at[b + d] /\ z[b + d] <= at[b + d]
      /\ at[b + d] \in Nat /\ at[b] \in Nat
  <2>1. at[b] = Latest(x[b], y[b], z[b]) /\ at[b + d] = Latest(x[b + d], y[b + d], z[b + d])
    BY <1>1
  <2>2. at[b] \in Nat /\ at[b + d] \in Nat
    BY <1>1 DEF Times
  <2> QED BY <1>1, <2>1, <2>2 DEF Latest
<1> QED BY <1>1, <1>2, <1>3

\* A clock is a number.
LEMMA TimesNat == ASSUME NEW at \in Times, NEW b \in Nat PROVE at[b] \in Nat
BY DEF Times

\* Everything of a block is sent before anything of a later one.
LEMMA PlaceBefore ==
    ASSUME NEW sent \in Times, Spread(sent), NEW x \in 1 .. 3, NEW y \in 1 .. 3,
           NEW a \in Nat, NEW b \in Nat, NEW k \in Slots(x), NEW l \in Slots(y)
    PROVE  /\ sent[Place(x, a, k)] \in Nat /\ sent[Place(y, b, l)] \in Nat
           /\ sent[BlockLen * a + (BlockLen - 1)] \in Nat
           /\ sent[Place(x, a, k)] <= sent[BlockLen * a + (BlockLen - 1)]
           /\ a < b => sent[Place(x, a, k)] + 1 <= sent[Place(y, b, l)]
<1>1. /\ Place(x, a, k) \in Nat /\ BlockLen * a \in Nat
      /\ Place(x, a, k) <= BlockLen * a + (BlockLen - 1)
      /\ Place(y, b, l) \in Nat /\ BlockLen * b \in Nat /\ BlockLen * b <= Place(y, b, l)
  BY PlaceIs
<1>2. BlockLen \in Nat \ {0}
  BY BlockLenIs
<1>3. BlockLen * a + (BlockLen - 1) \in Nat
  BY <1>1, <1>2
<1>4. sent[Place(x, a, k)] \in Nat /\ sent[Place(y, b, l)] \in Nat
      /\ sent[BlockLen * a + (BlockLen - 1)] \in Nat
  BY <1>1, <1>3 DEF Times
<1>5. sent[Place(x, a, k)] <= sent[BlockLen * a + (BlockLen - 1)]
  <2> DEFINE p == Place(x, a, k)
             q == BlockLen * a + (BlockLen - 1)
  <2>1. p \in Nat /\ q \in Nat /\ p <= q
    BY <1>1, <1>3
  <2> HIDE DEF p, q
  <2>2. sent[p] \in Nat /\ sent[q] \in Nat /\ sent[q] >= sent[p] + (q - p)
    BY <2>1, SpreadIs
  <2>3. sent[p] <= sent[q]
    BY <2>1, <2>2
  <2> QED BY <2>3 DEF p, q
<1>6. ASSUME a < b PROVE sent[Place(x, a, k)] + 1 <= sent[Place(y, b, l)]
  <2> DEFINE p == Place(x, a, k)
             q == Place(y, b, l)
  <2>1. p + 1 <= q
    <3>1. BlockLen * b = BlockLen * a + BlockLen + BlockLen * (b - a - 1)
      BY <1>2, <1>6
    <3>2. BlockLen * (b - a - 1) \in Nat
      <4>1. b - a - 1 \in Nat
        BY <1>6
      <4> QED BY <1>2, <4>1
    <3> QED BY <1>1, <1>2, <3>1, <3>2
  <2>2. p \in Nat /\ q \in Nat
    BY <1>1
  <2> HIDE DEF p, q
  <2>3. sent[p] \in Nat /\ sent[q] \in Nat /\ sent[q] >= sent[p] + (q - p)
    BY <2>1, <2>2, SpreadIs
  <2>4. sent[p] + 1 <= sent[q]
    BY <2>1, <2>2, <2>3
  <2> QED BY <2>4 DEF p, q
<1> QED BY <1>4, <1>5, <1>6

RowOnTime(sent, at, r) ==
    \A c \in ColNo :
        /\ OutputIn(sent, at, r, c) \in Times /\ Paced(OutputIn(sent, at, r, c))
        /\ Paced(at[<<r, c>>])
        /\ \A b \in Nat : at[<<r, c>>][b] <= sent[BlockLen * b + (BlockLen - 1)] + (1 + LastCol) + r * Delay
        /\ \A d \in ColNo, a, b \in Nat :
              (a = b /\ c <= d) \/ (a < b /\ d <= c) => at[<<r, c>>][a] <= at[<<r, d>>][b]

\* Words, and so results, come in the order of the blocks, and of the columns
\* in a block; a row is at most Delay behind the one above.
LEMMA RowStep ==
    ASSUME NEW sent \in Times, Spread(sent), NEW at, Schedule(sent, at), NEW r \in RowNo,
           r = 0 \/ RowOnTime(sent, at, r - 1)
    PROVE  RowOnTime(sent, at, r)
<1> DEFINE late(b) == sent[BlockLen * b + (BlockLen - 1)]
           slack == (1 + LastCol) + r * Delay
           ordered(c, d, a, b) == (a = b /\ c <= d) \/ (a < b /\ d <= c)
<1>1. /\ Delay \in Nat /\ LastCol \in Nat /\ r \in Nat /\ r * Delay \in Nat
      /\ \A c \in ColNo : c \in Nat /\ c <= LastCol
  <2>1. Delay \in Nat /\ r \in Nat
    BY CellSizes DEF Delay, RowNo
  <2>2. LastCol \in Nat /\ \A c \in ColNo : c \in Nat /\ c <= LastCol
    BY ArrayAssumption DEF LastCol, ColNo
  <2>3. r * Delay \in Nat
    BY <2>1
  <2> QED BY <2>1, <2>2, <2>3
<1>2. ASSUME NEW c \in ColNo
      PROVE  /\ at[<<r, c>>] \in Times
             /\ r # 0 => r - 1 \in RowNo /\ at[<<r - 1, c>>] \in Times
  <2>1. r # 0 => r - 1 \in RowNo
    BY Sizes
  <2> QED BY <2>1 DEF Schedule
<1>3. /\ r \in Slots(1) /\ \A c \in ColNo : r + c \in Slots(2) /\ c \in Slots(3)
      /\ 1 \in 1 .. 3 /\ 2 \in 1 .. 3 /\ 3 \in 1 .. 3
  BY Sizes DEF Slots
<1>4. \A b \in Nat : late(b) \in Nat
  BY <1>3, PlaceBefore
<1>5. ASSUME NEW c \in ColNo
      PROVE  OutputIn(sent, at, r, c) \in Times /\ Paced(OutputIn(sent, at, r, c))
  <2>1. CASE r = 0
    <3>1. OutputIn(sent, at, r, c) = [b \in Nat |-> sent[Place(3, b, c)] + 1]
      BY <2>1 DEF OutputIn
    <3>2. 1 \in Nat /\ c \in Slots(3) /\ 3 \in 1 .. 3
      BY <1>3
    <3> QED BY <3>1, <3>2, SentPaced
  <2>2. CASE r # 0
    <3> DEFINE above == at[<<r - 1, c>>]
    <3>1. above \in Times /\ Paced(above)
      BY <1>2, <2>2 DEF RowOnTime
    <3>2. OutputIn(sent, at, r, c) = [b \in Nat |-> above[b] + Delay]
      BY <2>2 DEF OutputIn
    <3> HIDE DEF above
    <3>3. [b \in Nat |-> above[b] + Delay] \in Times
      BY <1>1, <3>1 DEF Times
    <3>4. ASSUME NEW b \in Nat, NEW d \in Nat
          PROVE  [x \in Nat |-> above[x] + Delay][b + d]
                   >= [x \in Nat |-> above[x] + Delay][b] + BlockLen * d
      <4>1. above[b + d] >= above[b] + BlockLen * d /\ b + d \in Nat
        BY <3>1 DEF Paced
      <4>2. above[b + d] \in Nat /\ above[b] \in Nat /\ BlockLen * d \in Nat
        BY <3>1, <4>1, BlockLenIs DEF Times
      <4>3. above[b + d] + Delay >= (above[b] + Delay) + BlockLen * d
        BY <1>1, <4>1, <4>2
      <4> QED BY <4>1, <4>3
    <3> QED BY <3>2, <3>3, <3>4 DEF Paced
  <2> QED BY <2>1, <2>2
<1>6. ASSUME NEW c \in ColNo
      PROVE  /\ WeightIn(sent, r, c) \in Times /\ Paced(WeightIn(sent, r, c))
             /\ ImageIn(sent, r, c) \in Times /\ Paced(ImageIn(sent, r, c))
             /\ \A b \in Nat :
                   /\ WeightIn(sent, r, c)[b] = sent[Place(1, b, r)] + (1 + c)
                   /\ Place(1, b, r) \in Nat /\ sent[Place(1, b, r)] \in Nat
                   /\ ImageIn(sent, r, c)[b] = sent[Place(2, b, r + c)] + (1 + Hops(r, c))
                   /\ Place(2, b, r + c) \in Nat /\ sent[Place(2, b, r + c)] \in Nat
  BY WordsPaced
<1>7. ASSUME NEW c \in ColNo, NEW b \in Nat
      PROVE  /\ at[<<r, c>>][b] = Latest(WeightIn(sent, r, c)[b], ImageIn(sent, r, c)[b],
                                         OutputIn(sent, at, r, c)[b])
             /\ WeightIn(sent, r, c)[b] \in Nat /\ ImageIn(sent, r, c)[b] \in Nat
             /\ OutputIn(sent, at, r, c)[b] \in Nat
  <2>1. at[<<r, c>>][b] = Latest(WeightIn(sent, r, c)[b], ImageIn(sent, r, c)[b],
                                 OutputIn(sent, at, r, c)[b])
    BY DEF Schedule
  <2>2. WeightIn(sent, r, c) \in Times /\ ImageIn(sent, r, c) \in Times
    BY <1>6
  <2>3. OutputIn(sent, at, r, c) \in Times
    BY <1>5
  <2>4. WeightIn(sent, r, c)[b] \in Nat /\ ImageIn(sent, r, c)[b] \in Nat
    BY <2>2, TimesNat
  <2>5. OutputIn(sent, at, r, c)[b] \in Nat
    BY <2>3, TimesNat
  <2> QED BY <2>1, <2>4, <2>5
<1>8. ASSUME NEW c \in ColNo PROVE Paced(at[<<r, c>>])
  <2> DEFINE x == WeightIn(sent, r, c)
             y == ImageIn(sent, r, c)
             z == OutputIn(sent, at, r, c)
             when == at[<<r, c>>]
  <2>1. x \in Times /\ Paced(x) /\ y \in Times /\ Paced(y)
    BY <1>6
  <2>2. z \in Times /\ Paced(z) /\ when \in Times
    BY <1>2, <1>5
  <2>3. \A b \in Nat : when[b] = Latest(x[b], y[b], z[b])
    BY <1>7
  <2> HIDE DEF x, y, z, when
  <2>4. Paced(when)
    BY <2>1, <2>2, <2>3, LatestPaced
  <2> QED BY <2>4 DEF when
<1>9. ASSUME NEW c \in ColNo, NEW b \in Nat
      PROVE  at[<<r, c>>][b] <= late(b) + (1 + LastCol) + r * Delay
  <2>1. WeightIn(sent, r, c)[b] <= late(b) + (1 + LastCol) + r * Delay
    <3>1. sent[Place(1, b, r)] <= late(b) /\ sent[Place(1, b, r)] \in Nat
      BY <1>3, PlaceBefore
    <3>2. WeightIn(sent, r, c)[b] = sent[Place(1, b, r)] + (1 + c)
      BY <1>6
    <3>3. late(b) \in Nat
      BY <1>4
    <3> DEFINE x == sent[Place(1, b, r)]
               y == late(b)
               z == r * Delay
    <3>4. x \in Nat /\ y \in Nat /\ z \in Nat /\ x <= y
      BY <1>1, <3>1, <3>3
    <3> HIDE DEF x, y, z
    <3>5. x + (1 + c) <= y + (1 + LastCol) + z
      BY <1>1, <3>4
    <3> QED BY <3>2, <3>5 DEF x, y, z
  <2>2. ImageIn(sent, r, c)[b] <= late(b) + (1 + LastCol) + r * Delay
    <3>1. sent[Place(2, b, r + c)] <= late(b) /\ sent[Place(2, b, r + c)] \in Nat
      <4> DEFINE k == r + c
      <4>1. k \in Slots(2)
        BY <1>3
      <4> HIDE DEF k
      <4>2. sent[Place(2, b, k)] <= late(b) /\ sent[Place(2, b, k)] \in Nat
        BY <1>3, <4>1, PlaceBefore
      <4> QED BY <4>2 DEF k
    <3>2. Hops(r, c) \in Nat /\ Hops(r, c) <= LastCol
      BY HopsIs
    <3>3. ImageIn(sent, r, c)[b] = sent[Place(2, b, r + c)] + (1 + Hops(r, c))
      BY <1>6
    <3>4. late(b) \in Nat
      BY <1>4
    <3> DEFINE x == sent[Place(2, b, r + c)]
               y == late(b)
               z == r * Delay
               h == Hops(r, c)
    <3>5. x \in Nat /\ y \in Nat /\ z \in Nat /\ x <= y /\ h \in Nat /\ h <= LastCol
      BY <1>1, <3>1, <3>2, <3>4
    <3> HIDE DEF x, y, z, h
    <3>6. x + (1 + h) <= y + (1 + LastCol) + z
      BY <1>1, <3>5
    <3> QED BY <3>3, <3>6 DEF x, y, z, h
  <2>3. OutputIn(sent, at, r, c)[b] <= late(b) + (1 + LastCol) + r * Delay
    <3>1. CASE r = 0
      <4>1. OutputIn(sent, at, r, c)[b] = sent[Place(3, b, c)] + 1
        BY <3>1 DEF OutputIn
      <4>2. sent[Place(3, b, c)] <= late(b) /\ sent[Place(3, b, c)] \in Nat
        BY <1>3, PlaceBefore
      <4> HIDE DEF late
      <4> QED BY <1>1, <1>4, <4>1, <4>2
    <3>2. CASE r # 0
      <4>1. OutputIn(sent, at, r, c)[b] = at[<<r - 1, c>>][b] + Delay
        BY <3>2 DEF OutputIn
      <4>2. at[<<r - 1, c>>][b] <= late(b) + (1 + LastCol) + (r - 1) * Delay
        BY <3>2 DEF RowOnTime
      <4>3. at[<<r - 1, c>>][b] \in Nat
        BY <1>2, <3>2 DEF Times
      <4>4. r * Delay = (r - 1) * Delay + Delay /\ (r - 1) * Delay \in Int
        BY <1>1
      <4> HIDE DEF late
      <4> QED BY <1>1, <1>4, <4>1, <4>2, <4>3, <4>4
    <3> QED BY <3>1, <3>2
  <2> HIDE DEF late
  <2> DEFINE bound == late(b) + (1 + LastCol) + r * Delay
  <2> HIDE DEF bound
  <2>4. at[<<r, c>>][b] <= bound
    BY <1>7, <2>1, <2>2, <2>3 DEF bound, Latest
  <2> QED BY <2>4 DEF bound
<1>10. ASSUME NEW c \in ColNo, NEW d \in ColNo, NEW a \in Nat, NEW b \in Nat, ordered(c, d, a, b)
       PROVE  at[<<r, c>>][a] <= at[<<r, d>>][b]
  <2>1. WeightIn(sent, r, c)[a] <= WeightIn(sent, r, d)[b]
    <3>1. CASE a = b /\ c <= d
      BY <1>1, <1>6, <3>1
    <3>2. CASE a < b /\ d <= c
      <4>1. sent[Place(1, a, r)] + BlockLen <= sent[Place(1, b, r)]
        <5> DEFINE x == WeightIn(sent, r, c)
        <5>1. x \in Times /\ Paced(x)
          BY <1>6
        <5> HIDE DEF x
        <5>2. x[b] >= x[a] + BlockLen
          BY <3>2, <5>1, PacedIs
        <5>3. /\ x[b] = sent[Place(1, b, r)] + (1 + c) /\ sent[Place(1, b, r)] \in Nat
              /\ x[a] = sent[Place(1, a, r)] + (1 + c) /\ sent[Place(1, a, r)] \in Nat
          BY <1>6 DEF x
        <5> QED BY <1>1, <5>2, <5>3, BlockLenIs
      <4>2. BlockLen >= c /\ BlockLen \in Nat
        BY BlockLenIs, ArrayAssumption DEF ColNo
      <4>3. /\ WeightIn(sent, r, c)[a] = sent[Place(1, a, r)] + (1 + c)
            /\ sent[Place(1, a, r)] \in Nat
        BY <1>6
      <4>4. /\ WeightIn(sent, r, d)[b] = sent[Place(1, b, r)] + (1 + d)
            /\ sent[Place(1, b, r)] \in Nat
        BY <1>6
      <4>5. c \in Nat /\ d \in Nat
        BY <1>1
      <4> QED BY <4>1, <4>2, <4>3, <4>4, <4>5
    <3> QED BY <1>10, <3>1, <3>2
  <2>2. ImageIn(sent, r, c)[a] <= ImageIn(sent, r, d)[b]
    <3>1. /\ c <= d => Hops(r, c) <= Hops(r, d) + (d - c)
          /\ d <= c => Hops(r, c) <= Hops(r, d)
          /\ Hops(r, c) \in Nat /\ Hops(r, d) \in Nat
      BY HopsIs
    <3> DEFINE k == r + c
               l == r + d
    <3>2. k \in Slots(2) /\ l \in Slots(2) /\ l - k = d - c /\ k \in Nat /\ l \in Nat
      BY <1>1, <1>3
    <3>3. CASE a = b /\ c <= d
      <4>1. Offset(2, k) + (l - k) <= Offset(2, l)
        BY <1>1, <3>2, <3>3, OffsetIs DEF Slots
      <4> HIDE DEF k, l
      <4>2. /\ Place(2, a, k) \in Nat /\ Place(2, a, k) = BlockLen * a + Offset(2, k)
            /\ Place(2, a, l) \in Nat /\ Place(2, a, l) = BlockLen * a + Offset(2, l)
            /\ BlockLen * a \in Nat /\ Offset(2, k) \in Nat /\ Offset(2, l) \in Nat
        <5>1. k \in Slots(2) /\ l \in Slots(2) /\ 2 \in 1 .. 3
          BY <3>2
        <5>2. Place(2, a, k) \in Nat /\ Place(2, a, k) = BlockLen * a + Offset(2, k)
              /\ BlockLen * a \in Nat /\ Offset(2, k) \in Nat
          BY <5>1, PlaceIs
        <5>3. Place(2, a, l) \in Nat /\ Place(2, a, l) = BlockLen * a + Offset(2, l)
              /\ Offset(2, l) \in Nat
          BY <5>1, PlaceIs
        <5> QED BY <5>2, <5>3
      <4> DEFINE p == Place(2, a, k)
                 q == Place(2, a, l)
      <4>3. p \in Nat /\ q \in Nat /\ p + (d - c) <= q /\ p <= q
        BY <1>1, <3>2, <3>3, <4>1, <4>2
      <4> HIDE DEF p, q
      <4>4. sent[p] \in Nat /\ sent[q] \in Nat /\ sent[q] >= sent[p] + (q - p)
        BY <4>3, SpreadIs
      <4>5. ImageIn(sent, r, c)[a] = sent[p] + (1 + Hops(r, c))
            /\ ImageIn(sent, r, d)[b] = sent[q] + (1 + Hops(r, d))
        BY <1>6, <3>3 DEF p, q, k, l
      <4> QED BY <1>1, <3>1, <3>3, <4>3, <4>4, <4>5
    <3>4. CASE a < b /\ d <= c
      <4>1. ImageIn(sent, r, c)[a] = sent[Place(2, a, k)] + (1 + Hops(r, c))
            /\ ImageIn(sent, r, d)[b] = sent[Place(2, b, l)] + (1 + Hops(r, d))
        BY <1>6
      <4> HIDE DEF k, l
      <4>2. /\ sent[Place(2, a, k)] + 1 <= sent[Place(2, b, l)]
            /\ sent[Place(2, a, k)] \in Nat /\ sent[Place(2, b, l)] \in Nat
        BY <1>3, <3>2, <3>4, PlaceBefore
      <4> QED BY <3>1, <3>4, <4>1, <4>2
    <3> QED BY <1>10, <3>3, <3>4
  <2>3. OutputIn(sent, at, r, c)[a] <= OutputIn(sent, at, r, d)[b]
    <3>1. CASE r = 0
      <4>1. OutputIn(sent, at, r, c)[a] = sent[Place(3, a, c)] + 1
            /\ OutputIn(sent, at, r, d)[b] = sent[Place(3, b, d)] + 1
        BY <3>1 DEF OutputIn
      <4>2. CASE a = b /\ c <= d
        <5>1. Offset(3, c) <= Offset(3, d)
          BY <4>2, OffsetIs
        <5>2. /\ Place(3, a, c) \in Nat /\ Place(3, a, c) = BlockLen * a + Offset(3, c)
              /\ Place(3, b, d) \in Nat /\ Place(3, b, d) = BlockLen * b + Offset(3, d)
              /\ BlockLen * a \in Nat /\ Offset(3, c) \in Nat /\ Offset(3, d) \in Nat
          BY <1>3, PlaceIs
        <5> DEFINE p == Place(3, a, c)
                   q == Place(3, b, d)
        <5>3. p \in Nat /\ q \in Nat /\ p <= q
          BY <4>2, <5>1, <5>2
        <5> HIDE DEF p, q
        <5>4. sent[p] \in Nat /\ sent[q] \in Nat /\ sent[q] >= sent[p] + (q - p)
          BY <5>3, SpreadIs
        <5>5. sent[p] + 1 <= sent[q] + 1
          BY <5>3, <5>4
        <5> QED BY <4>1, <5>5 DEF p, q
      <4>3. CASE a < b /\ d <= c
        <5>1. /\ sent[Place(3, a, c)] + 1 <= sent[Place(3, b, d)]
              /\ sent[Place(3, a, c)] \in Nat /\ sent[Place(3, b, d)] \in Nat
          BY <1>3, <4>3, PlaceBefore
        <5> QED BY <4>1, <5>1
      <4> QED BY <1>10, <4>2, <4>3
    <3>2. CASE r # 0
      <4>1. OutputIn(sent, at, r, c)[a] = at[<<r - 1, c>>][a] + Delay
            /\ OutputIn(sent, at, r, d)[b] = at[<<r - 1, d>>][b] + Delay
        BY <3>2 DEF OutputIn
      <4>2. at[<<r - 1, c>>][a] <= at[<<r - 1, d>>][b]
        BY <1>10, <3>2 DEF RowOnTime
      <4>3. at[<<r - 1, c>>][a] \in Nat /\ at[<<r - 1, d>>][b] \in Nat
        BY <1>2, <3>2 DEF Times
      <4> QED BY <1>1, <4>1, <4>2, <4>3
    <3> QED BY <3>1, <3>2
  <2> QED BY <1>7, <2>1, <2>2, <2>3 DEF Latest
<1> QED BY <1>5, <1>8, <1>9, <1>10 DEF RowOnTime

\* So it is in every row.
LEMMA RowsOnTime ==
    ASSUME NEW sent \in Times, Spread(sent), NEW at, Schedule(sent, at), NEW r \in RowNo
    PROVE  RowOnTime(sent, at, r)
<1> DEFINE S == {q \in Nat : q \in RowNo => RowOnTime(sent, at, q)}
<1>1. 0 \in S
  BY RowStep, Sizes
<1>2. ASSUME NEW q \in S, q \in Nat PROVE q + 1 \in S
  <2>1. ASSUME q + 1 \in RowNo PROVE RowOnTime(sent, at, q + 1)
    <3>1. q \in RowNo /\ q = (q + 1) - 1
      BY <1>2, <2>1, ArrayAssumption DEF RowNo
    <3>2. RowOnTime(sent, at, (q + 1) - 1)
      BY <1>2, <3>1
    <3> QED BY <2>1, <3>2, RowStep
  <2> QED BY <1>2, <2>1
<1>3. Nat \subseteq S
  <2> HIDE DEF S
  <2> QED BY <1>1, <1>2, Induction
<1>4. r \in Nat
  BY DEF RowNo
<1> QED BY <1>3, <1>4

\* What the sizes have to be for the words never to be in each other's way: an
\* adder is free before the next word comes (7 clocks, 13 words a block), a PE's
\* buffers hold what is sent while a result goes down the array (15 * 13 clocks,
\* which is more than 2 * 13 + 3), an accumulator's hold a sum of each whole group
\* (4 slots, 3 groups in main).
Fits ==
    /\ ACCBufferSize >= 2 /\ ADD_Stages < BlockLen
    /\ (PEBufferSize - 1) * BlockLen > LastRow * Delay + LastCol
    /\ Groups <= ACCBufferSize

\* A cell multiplies after the words of the block are there, and well before
\* those of a later block find its buffers full.
LEMMA CellTimes ==
    ASSUME Fits, NEW sent \in Times, Spread(sent), NEW at, Schedule(sent, at),
           NEW r \in RowNo, NEW c \in ColNo, NEW b \in Nat
    PROVE  LET w == WeightIn(sent, r, c)
               i == ImageIn(sent, r, c)
               o == OutputIn(sent, at, r, c)
               when == at[<<r, c>>]
           IN  /\ w[b] <= when[b] /\ i[b] <= when[b] /\ o[b] <= when[b]
               /\ when[b] = w[b] \/ when[b] = i[b] \/ when[b] = o[b]
               /\ when[b] + 1 < w[b + PEBufferSize] /\ when[b] + 1 < i[b + PEBufferSize]
               /\ when[b] < o[b + 1]
<1> DEFINE w == WeightIn(sent, r, c)
           i == ImageIn(sent, r, c)
           o == OutputIn(sent, at, r, c)
           when == at[<<r, c>>]
           late == sent[BlockLen * b + (BlockLen - 1)]
           later == b + PEBufferSize
<1>1. /\ 1 \in 1 .. 3 /\ 2 \in 1 .. 3 /\ 3 \in 1 .. 3
      /\ r \in Slots(1) /\ r + c \in Slots(2) /\ c \in Slots(3)
      /\ r \in Nat /\ c \in Nat /\ c <= LastCol /\ r <= LastRow /\ LastCol \in Nat /\ LastRow \in Nat
      /\ Delay \in Nat \ {0} /\ BlockLen \in Nat \ {0} /\ PEBufferSize \in Nat \ {0} /\ later \in Nat
  <2>1. r \in Nat /\ c \in Nat /\ c <= LastCol /\ r <= LastRow /\ LastCol \in Nat /\ LastRow \in Nat
    BY ArrayAssumption DEF LastCol, LastRow, RowNo, ColNo
  <2>2. Delay \in Nat \ {0} /\ BlockLen \in Nat \ {0} /\ PEBufferSize \in Nat \ {0}
    BY CellSizes, BlockLenIs DEF Delay
  <2>3. r \in Slots(1) /\ r + c \in Slots(2) /\ c \in Slots(3)
    BY Sizes DEF Slots
  <2> QED BY <2>1, <2>2, <2>3
<1>2. RowOnTime(sent, at, r) /\ (r # 0 => r - 1 \in RowNo /\ RowOnTime(sent, at, r - 1))
  BY RowsOnTime, Sizes
<1>3. /\ w \in Times /\ i \in Times /\ o \in Times /\ when \in Times
      /\ \A x \in Nat : when[x] = Latest(w[x], i[x], o[x])
  <2>1. w \in Times /\ i \in Times
    BY WordsPaced
  <2>2. o \in Times
    BY <1>2 DEF RowOnTime
  <2>3. when \in Times /\ \A x \in Nat : when[x] = Latest(w[x], i[x], o[x])
    BY DEF Schedule
  <2> QED BY <2>1, <2>2, <2>3
<1>4. /\ w[b] \in Nat /\ i[b] \in Nat /\ o[b] \in Nat /\ when[b] \in Nat
      /\ w[later] \in Nat /\ i[later] \in Nat /\ o[b + 1] \in Nat
  <2> HIDE DEF w, i, o, when, later
  <2> QED BY <1>1, <1>3, TimesNat
<1>5. /\ w[b] <= when[b] /\ i[b] <= when[b] /\ o[b] <= when[b]
      /\ when[b] = w[b] \/ when[b] = i[b] \/ when[b] = o[b]
  <2>1. when[b] = Latest(w[b], i[b], o[b])
    BY <1>3
  <2> HIDE DEF w, i, o, when
  <2> QED BY <1>4, <2>1 DEF Latest
<1>6. \A x \in Nat :
         /\ w[x] = sent[Place(1, x, r)] + (1 + c) /\ sent[Place(1, x, r)] \in Nat
         /\ i[x] = sent[Place(2, x, r + c)] + (1 + Hops(r, c)) /\ sent[Place(2, x, r + c)] \in Nat
  BY WordsPaced
<1>7. Hops(r, c) \in Nat
  BY HopsIs
<1>8. late \in Nat /\ when[b] <= late + (1 + LastCol) + LastRow * Delay
  <2>1. when[b] <= late + (1 + LastCol) + r * Delay
    BY <1>2 DEF RowOnTime
  <2>2. late \in Nat
    BY <1>1, PlaceBefore
  <2>3. r * Delay <= LastRow * Delay /\ r * Delay \in Nat /\ LastRow * Delay \in Nat
    <3>1. LastRow - r \in Nat /\ LastRow * Delay = r * Delay + (LastRow - r) * Delay
      BY <1>1
    <3>2. (LastRow - r) * Delay \in Nat
      <4> DEFINE x == LastRow - r
      <4>1. x \in Nat
        BY <3>1
      <4> HIDE DEF x
      <4>2. x * Delay \in Nat
        BY <1>1, <4>1
      <4> QED BY <4>2 DEF x
    <3>3. r * Delay \in Nat
      BY <1>1
    <3> QED BY <3>1, <3>2, <3>3
  <2> DEFINE p == r * Delay
             q == LastRow * Delay
  <2>4. p \in Nat /\ q \in Nat /\ p <= q /\ when[b] <= late + (1 + LastCol) + p
    BY <2>1, <2>3
  <2> HIDE DEF p, q, when, late
  <2>5. when[b] <= late + (1 + LastCol) + q
    BY <1>1, <1>4, <2>2, <2>4
  <2> QED BY <2>2, <2>5 DEF q
<1>9. ASSUME NEW place \in Nat, place >= BlockLen * later
      PROVE  sent[place] \in Nat /\ sent[place] > late + LastRow * Delay + LastCol + 1
  <2> DEFINE from == BlockLen * b + (BlockLen - 1)
             room == (PEBufferSize - 1) * BlockLen
             most == LastRow * Delay + LastCol
  <2>1. BlockLen * later = BlockLen * b + BlockLen + room
    BY <1>1
  <2>2. BlockLen * b \in Nat /\ room \in Nat /\ most \in Nat /\ room > most
    <3>1. BlockLen * b \in Nat /\ LastRow * Delay \in Nat
      BY <1>1
    <3>2. room \in Nat
      <4> DEFINE x == PEBufferSize - 1
      <4>1. x \in Nat
        BY <1>1
      <4> HIDE DEF x
      <4>2. x * BlockLen \in Nat
        BY <1>1, <4>1
      <4> QED BY <4>2 DEF x
    <3> QED BY <1>1, <3>1, <3>2 DEF Fits
  <2>3. from \in Nat /\ place >= from + 1 + room
    <3> HIDE DEF room, most, later
    <3> QED BY <1>1, <1>9, <2>1, <2>2
  <2> HIDE DEF room
  <2>4. from <= place
    BY <2>2, <2>3
  <2> HIDE DEF from, most
  <2>5. sent[from] \in Nat /\ sent[place] \in Nat /\ sent[place] >= sent[from] + (place - from)
    BY <2>3, <2>4, SpreadIs
  <2>6. sent[place] > sent[from] + (most + 1)
    BY <2>2, <2>3, <2>5
  <2>7. sent[from] = late
    BY DEF from
  <2> HIDE DEF late
  <2>8. sent[place] > late + (most + 1)
    BY <2>6, <2>7
  <2>9. LastRow * Delay \in Nat
    BY <1>1
  <2>10. late + (most + 1) = late + LastRow * Delay + LastCol + 1
    BY <1>1, <1>8, <2>9 DEF most
  <2> QED BY <2>5, <2>8, <2>10
<1>10. when[b] + 1 < w[later]
  <2>1. Place(1, later, r) \in Nat /\ Place(1, later, r) >= BlockLen * later
    BY <1>1, PlaceIs
  <2>2. sent[Place(1, later, r)] > late + LastRow * Delay + LastCol + 1 /\ sent[Place(1, later, r)] \in Nat
    BY <1>9, <2>1
  <2>3. w[later] = sent[Place(1, later, r)] + (1 + c)
    BY <1>1, <1>6
  <2> DEFINE x == sent[Place(1, later, r)]
             q == LastRow * Delay
  <2>4. x > late + q + LastCol + 1 /\ x \in Nat /\ w[later] = x + (1 + c) /\ q \in Nat
        /\ when[b] <= late + (1 + LastCol) + q
    BY <1>1, <1>8, <2>2, <2>3
  <2> HIDE DEF x, q, when, late, w, later
  <2> QED BY <1>1, <1>4, <1>8, <2>4
<1>11. when[b] + 1 < i[later]
  <2> DEFINE k == r + c
  <2>1. Place(2, later, k) \in Nat /\ Place(2, later, k) >= BlockLen * later
    <3>1. k \in Slots(2)
      BY <1>1
    <3> HIDE DEF k, later
    <3> QED BY <1>1, <3>1, PlaceIs
  <2>2. sent[Place(2, later, k)] > late + LastRow * Delay + LastCol + 1 /\ sent[Place(2, later, k)] \in Nat
    BY <1>9, <2>1
  <2>3. i[later] = sent[Place(2, later, k)] + (1 + Hops(r, c))
    BY <1>1, <1>6
  <2> DEFINE x == sent[Place(2, later, k)]
             q == LastRow * Delay
             h == Hops(r, c)
  <2>4. x > late + q + LastCol + 1 /\ x \in Nat /\ i[later] = x + (1 + h) /\ q \in Nat /\ h \in Nat
        /\ when[b] <= late + (1 + LastCol) + q
    BY <1>1, <1>7, <1>8, <2>2, <2>3
  <2> HIDE DEF x, q, h, when, late, i, later
  <2> QED BY <1>1, <1>4, <1>8, <2>4
<1>12. /\ sent[Place(1, b, r)] \in Nat /\ w[b] = sent[Place(1, b, r)] + (1 + c)
       /\ sent[Place(2, b, r + c)] \in Nat /\ i[b] = sent[Place(2, b, r + c)] + (1 + Hops(r, c))
  BY <1>6
<1>13. ASSUME r = 0 PROVE when[b] < o[b + 1]
  <2> DEFINE p == Place(3, b + 1, c)
  <2>1. \A x \in Nat : o[x] = sent[Place(3, x, c)] + 1
    BY <1>13 DEF OutputIn
  <2>2. o[b + 1] = sent[p] + 1 /\ o[b] = sent[Place(3, b, c)] + 1 /\ sent[p] \in Nat
    <3>1. b + 1 \in Nat
      OBVIOUS
    <3>2. sent[Place(3, b + 1, c)] \in Nat
      BY <1>1, <3>1, PlaceBefore
    <3> QED BY <2>1, <3>1, <3>2
  <2>3. sent[Place(3, b, c)] + 1 <= sent[p] /\ sent[Place(3, b, c)] \in Nat
    BY <1>1, PlaceBefore
  <2>4. sent[Place(2, b, r + c)] + 1 <= sent[p]
    <3> DEFINE k == r + c
    <3>1. k \in Slots(2)
      BY <1>1
    <3> HIDE DEF k
    <3>2. sent[Place(2, b, k)] + 1 <= sent[Place(3, b + 1, c)]
      BY <1>1, <3>1, PlaceBefore
    <3> QED BY <3>2 DEF k
  <2>5. sent[Place(1, b, r)] + (c + 1) <= sent[p]
    <3> DEFINE q == Place(1, b, r)
    <3>1. q \in Nat /\ q <= BlockLen * b + (BlockLen - 1) /\ BlockLen * b \in Nat
      BY <1>1, PlaceIs
    <3>2. b + 1 \in Nat
      OBVIOUS
    <3>3. p \in Nat /\ p = BlockLen * (b + 1) + Offset(3, c) /\ Offset(3, c) \in Nat
      BY <1>1, <3>2, PlaceIs
    <3>4. Offset(3, c) >= c + 1
      BY OffsetIs
    <3>5. BlockLen * (b + 1) = BlockLen * b + BlockLen
      BY <1>1
    <3> HIDE DEF p, q
    <3>6. q <= p /\ p - q >= c + 1
      BY <1>1, <3>1, <3>3, <3>4, <3>5
    <3>7. sent[q] \in Nat /\ sent[p] \in Nat /\ sent[p] >= sent[q] + (p - q)
      BY <3>1, <3>3, <3>6, SpreadIs
    <3>8. sent[q] + (c + 1) <= sent[p]
      BY <1>1, <3>1, <3>3, <3>6, <3>7
    <3> QED BY <3>8 DEF q
  <2>6. Hops(r, c) = 0
    BY <1>13, HopsIs
  <2>7. w[b] < o[b + 1]
    BY <1>1, <1>12, <2>2, <2>5
  <2>8. i[b] < o[b + 1]
    BY <1>12, <2>2, <2>4, <2>6
  <2>9. o[b] < o[b + 1]
    BY <2>2, <2>3
  <2> QED BY <1>5, <2>7, <2>8, <2>9
<1>14. ASSUME r # 0 PROVE when[b] < o[b + 1]
  <2> DEFINE above == at[<<r - 1, c>>]
             u == WeightIn(sent, r - 1, c)
             v == ImageIn(sent, r - 1, c)
             z == OutputIn(sent, at, r - 1, c)
  <2>1. r - 1 \in RowNo /\ RowOnTime(sent, at, r - 1)
    BY <1>2, <1>14
  <2>2. o[b + 1] = above[b + 1] + Delay /\ o[b] = above[b] + Delay
    BY <1>14 DEF OutputIn
  <2>3. above \in Times /\ Paced(above) /\ above[b + 1] = Latest(u[b + 1], v[b + 1], z[b + 1])
    <3>1. above \in Times /\ above[b + 1] = Latest(u[b + 1], v[b + 1], z[b + 1])
      BY <2>1 DEF Schedule
    <3> QED BY <2>1, <3>1 DEF RowOnTime
  <2>4. above[b] \in Nat /\ above[b + 1] \in Nat /\ above[b + 1] >= above[b] + BlockLen
    <3> HIDE DEF above
    <3>1. above[b + 1] >= above[b] + BlockLen
      BY <2>3, PacedIs
    <3>2. above[b] \in Nat /\ above[b + 1] \in Nat
      BY <2>3, TimesNat
    <3> QED BY <3>1, <3>2
  <2>5. /\ u[b + 1] = sent[Place(1, b + 1, r - 1)] + (1 + c) /\ sent[Place(1, b + 1, r - 1)] \in Nat
        /\ v[b + 1] = sent[Place(2, b + 1, (r - 1) + c)] + (1 + Hops(r - 1, c))
        /\ sent[Place(2, b + 1, (r - 1) + c)] \in Nat
        /\ u \in Times /\ v \in Times
    BY <2>1, WordsPaced
  <2>6. z \in Times
    BY <2>1 DEF RowOnTime
  <2>7. u[b + 1] <= above[b + 1] /\ v[b + 1] <= above[b + 1]
    <3> HIDE DEF u, v, z, above
    <3>1. u[b + 1] \in Nat /\ v[b + 1] \in Nat /\ z[b + 1] \in Nat
      BY <2>5, <2>6, TimesNat
    <3> QED BY <2>3, <3>1 DEF Latest
  <2>8. sent[Place(1, b, r)] + 1 <= sent[Place(1, b + 1, r - 1)]
    <3> DEFINE k == r - 1
    <3>1. k \in Slots(1)
      BY <2>1 DEF Slots
    <3> HIDE DEF k
    <3>2. sent[Place(1, b, r)] + 1 <= sent[Place(1, b + 1, k)]
      BY <1>1, <3>1, PlaceBefore
    <3> QED BY <3>2 DEF k
  <2>9. sent[Place(2, b, r + c)] + 1 <= sent[Place(2, b + 1, (r - 1) + c)]
    <3> DEFINE k == r + c
               l == (r - 1) + c
    <3>1. k \in Slots(2) /\ l \in Slots(2)
      BY <1>1, <2>1, Sizes DEF Slots
    <3> HIDE DEF k, l
    <3>2. sent[Place(2, b, k)] + 1 <= sent[Place(2, b + 1, l)]
      BY <1>1, <3>1, PlaceBefore
    <3> QED BY <3>2 DEF k, l
  <2>10. Hops(r - 1, c) \in Nat /\ Hops(r, c) <= Hops(r - 1, c) + 1
    BY <1>14, HopsIs
  <2>11. w[b] < o[b + 1]
    <3> DEFINE x == sent[Place(1, b, r)]
               y == sent[Place(1, b + 1, r - 1)]
    <3>1. x \in Nat /\ y \in Nat /\ x + 1 <= y /\ w[b] = x + (1 + c) /\ y + (1 + c) <= above[b + 1]
      BY <1>12, <2>5, <2>7, <2>8
    <3> HIDE DEF x, y, w, o, above
    <3> QED BY <1>1, <2>2, <2>4, <3>1
  <2>12. i[b] < o[b + 1]
    <3> DEFINE x == sent[Place(2, b, r + c)]
               y == sent[Place(2, b + 1, (r - 1) + c)]
               g == Hops(r - 1, c)
               h == Hops(r, c)
    <3>1. x \in Nat /\ y \in Nat /\ x + 1 <= y /\ i[b] = x + (1 + h) /\ y + (1 + g) <= above[b + 1]
          /\ g \in Nat /\ h \in Nat /\ h <= g + 1
      BY <1>7, <1>12, <2>5, <2>7, <2>9, <2>10
    <3> HIDE DEF x, y, g, h, i, o, above
    <3> QED BY <1>1, <2>2, <2>4, <3>1
  <2>13. o[b] < o[b + 1]
    BY <1>1, <2>2, <2>4
  <2> QED BY <1>5, <2>11, <2>12, <2>13
<1> QED BY <1>5, <1>10, <1>11, <1>13, <1>14

\* A schedule there is: row by row.
ScheduleTo(sent, f, n) ==
    /\ f \in [0 .. n -> [ColNo -> Times]]
    /\ \A r \in 0 .. n, c \in ColNo, b \in Nat :
          f[r][c][b] = Latest(WeightIn(sent, r, c)[b], ImageIn(sent, r, c)[b],
                              IF r = 0 THEN sent[Place(3, b, c)] + 1 ELSE f[r - 1][c][b] + Delay)

LEMMA ScheduleExists ==
    ASSUME NEW sent \in Times, Spread(sent)
    PROVE  \E at : Schedule(sent, at)
<1> DEFINE S == {q \in Nat : q \in RowNo => \E f : ScheduleTo(sent, f, q)}
           last(r, c, b, o) == Latest(WeightIn(sent, r, c)[b], ImageIn(sent, r, c)[b], o)
<1>1. ASSUME NEW r \in RowNo, NEW c \in ColNo, NEW o \in Times
      PROVE  [b \in Nat |-> last(r, c, b, o[b])] \in Times
  <2>1. ASSUME NEW b \in Nat PROVE last(r, c, b, o[b]) \in Nat
    <3> DEFINE x == WeightIn(sent, r, c)
               y == ImageIn(sent, r, c)
    <3>1. x \in Times /\ y \in Times
      BY WordsPaced
    <3> HIDE DEF x, y
    <3>2. x[b] \in Nat /\ y[b] \in Nat /\ o[b] \in Nat
      BY <3>1, TimesNat
    <3>3. Latest(x[b], y[b], o[b]) \in Nat
      BY <3>2 DEF Latest
    <3> QED BY <3>3 DEF x, y
  <2> HIDE DEF last
  <2> QED BY <2>1 DEF Times
<1>2. 0 \in S
  <2> DEFINE first(c) == [b \in Nat |-> sent[Place(3, b, c)] + 1]
             f == [r \in 0 .. 0 |-> [c \in ColNo |-> [b \in Nat |-> last(0, c, b, first(c)[b])]]]
  <2>1. \A c \in ColNo : first(c) \in Times
    <3>1. 3 \in 1 .. 3 /\ 1 \in Nat /\ \A c \in ColNo : c \in Slots(3)
      BY DEF Slots
    <3> QED BY <3>1, SentPaced
  <2>2. \A c \in ColNo : [b \in Nat |-> last(0, c, b, first(c)[b])] \in Times
    <3> HIDE DEF first, last
    <3> SUFFICES ASSUME NEW c \in ColNo PROVE [b \in Nat |-> last(0, c, b, first(c)[b])] \in Times
      OBVIOUS
    <3> DEFINE o == first(c)
    <3>1. o \in Times
      BY <2>1
    <3> HIDE DEF o
    <3>2. [b \in Nat |-> last(0, c, b, o[b])] \in Times
      BY <1>1, <3>1, Sizes
    <3> QED BY <3>2 DEF o
  <2>3. f \in [0 .. 0 -> [ColNo -> Times]]
    <3> HIDE DEF first, last
    <3> QED BY <2>2
  <2>4. ASSUME NEW r \in 0 .. 0, NEW c \in ColNo, NEW b \in Nat
        PROVE  f[r][c][b] = last(r, c, b, sent[Place(3, b, c)] + 1) /\ r = 0
    OBVIOUS
  <2>5. ScheduleTo(sent, f, 0)
    <3> HIDE DEF f
    <3> QED BY <2>3, <2>4 DEF ScheduleTo
  <2> QED BY <2>5
<1>3. ASSUME NEW q \in S, q \in Nat PROVE q + 1 \in S
  <2> SUFFICES ASSUME q + 1 \in RowNo PROVE \E f : ScheduleTo(sent, f, q + 1)
    BY <1>3
  <2>1. q \in RowNo
    BY <1>3, ArrayAssumption DEF RowNo
  <2>2. PICK g : ScheduleTo(sent, g, q)
    BY <1>3, <2>1
  <2> DEFINE above(c) == [b \in Nat |-> g[q][c][b] + Delay]
             new == [c \in ColNo |-> [b \in Nat |-> last(q + 1, c, b, above(c)[b])]]
             f == [r \in 0 .. q + 1 |-> IF r <= q THEN g[r] ELSE new]
  <2>3. g \in [0 .. q -> [ColNo -> Times]]
    BY <2>2 DEF ScheduleTo
  <2>4. \A c \in ColNo : above(c) \in Times
    <3>1. Delay \in Nat
      BY CellSizes DEF Delay
    <3>2. \A c \in ColNo : g[q][c] \in Times
      BY <1>3, <2>3
    <3> QED BY <3>1, <3>2 DEF Times
  <2>5. new \in [ColNo -> Times]
    <3> HIDE DEF above, last
    <3>1. ASSUME NEW c \in ColNo PROVE [b \in Nat |-> last(q + 1, c, b, above(c)[b])] \in Times
      <4> DEFINE o == above(c)
      <4>1. o \in Times
        BY <2>4
      <4> HIDE DEF o
      <4>2. [b \in Nat |-> last(q + 1, c, b, o[b])] \in Times
        BY <1>1, <4>1
      <4> QED BY <4>2 DEF o
    <3> QED BY <3>1
  <2>6. f \in [0 .. q + 1 -> [ColNo -> Times]]
    <3> HIDE DEF new
    <3> QED BY <1>3, <2>3, <2>5
  <2>7. /\ f[q + 1] = new /\ f[q] = g[q]
        /\ \A r \in 0 .. q : f[r] = g[r] /\ (r # 0 => f[r - 1] = g[r - 1])
    <3> HIDE DEF new
    <3> QED BY <1>3
  <2>8. \A c \in ColNo, b \in Nat : new[c][b] = last(q + 1, c, b, g[q][c][b] + Delay)
    <3> HIDE DEF last
    <3> QED OBVIOUS
  <2>9. ASSUME NEW r \in 0 .. q + 1, NEW c \in ColNo, NEW b \in Nat
        PROVE  f[r][c][b] = last(r, c, b, IF r = 0 THEN sent[Place(3, b, c)] + 1 ELSE f[r - 1][c][b] + Delay)
    <3> HIDE DEF f, new
    <3>1. CASE r = q + 1
      <4>1. r # 0 /\ r - 1 = q
        BY <1>3, <3>1
      <4> HIDE DEF last
      <4> QED BY <2>7, <2>8, <3>1, <4>1
    <3>2. CASE r \in 0 .. q
      BY <2>2, <2>7, <3>2 DEF ScheduleTo
    <3> QED BY <1>3, <3>1, <3>2
  <2>10. ScheduleTo(sent, f, q + 1)
    <3> HIDE DEF f
    <3> QED BY <2>6, <2>9 DEF ScheduleTo
  <2> QED BY <2>10
<1>4. Nat \subseteq S
  <2> HIDE DEF S
  <2> QED BY <1>2, <1>3, Induction
<1>5. PICK f : ScheduleTo(sent, f, LastRow)
  <2>1. LastRow \in Nat /\ LastRow \in RowNo
    BY ArrayAssumption DEF LastRow, RowNo
  <2> QED BY <1>4, <2>1
<1>6. /\ 0 .. LastRow = RowNo
      /\ f \in [RowNo -> [ColNo -> Times]]
      /\ \A r \in RowNo, c \in ColNo, b \in Nat :
            f[r][c][b] = last(r, c, b, IF r = 0 THEN sent[Place(3, b, c)] + 1 ELSE f[r - 1][c][b] + Delay)
  <2>1. 0 .. LastRow = RowNo
    BY DEF LastRow, RowNo
  <2> QED BY <1>5, <2>1 DEF ScheduleTo
<1> DEFINE at == [rc \in RowNo \X ColNo |-> f[rc[1]][rc[2]]]
<1>7. at \in [RowNo \X ColNo -> Times]
  BY <1>6
<1>8. ASSUME NEW r \in RowNo, NEW c \in ColNo, NEW b \in Nat
      PROVE  at[<<r, c>>][b] = last(r, c, b, OutputIn(sent, at, r, c)[b])
  <2>1. at[<<r, c>>] = f[r][c] /\ (r # 0 => at[<<r - 1, c>>] = f[r - 1][c])
    BY Sizes
  <2> HIDE DEF at
  <2>2. OutputIn(sent, at, r, c)[b] =
           IF r = 0 THEN sent[Place(3, b, c)] + 1 ELSE f[r - 1][c][b] + Delay
    BY <2>1 DEF OutputIn
  <2> HIDE DEF last
  <2> QED BY <1>6, <2>1, <2>2
<1>9. Schedule(sent, at)
  <2> HIDE DEF at
  <2> QED BY <1>7, <1>8 DEF Schedule
<1> QED BY <1>9

-----------------------------------------------------------------------------
(***************************************************************************)
(* What is made of the words, added in the order of the array: down a      *)
(* column from the partial output, and block by block from 0.0.            *)
(***************************************************************************)
Links(f, word, starts, base, n) ==
    f = [q \in 0 .. n |-> FPADD(word[q], IF q \in starts THEN base ELSE f[q - 1])]

Linked(f, word, starts, base, n) ==
    \A q \in 0 .. n : f[q] = FPADD(word[q], IF q \in starts THEN base ELSE f[q - 1])

\* The chain of additions that begins anew, with base, at each of starts.
Chain(word, starts, base) ==
    [q \in Nat |-> (CHOOSE f : Links(f, word, starts, base, q))[q]]

LEMMA LinksExist ==
    ASSUME NEW word, NEW starts, 0 \in starts, NEW base, NEW n \in Nat
    PROVE  \E f : Links(f, word, starts, base, n)
<1> DEFINE S == {q \in Nat : \E f : Links(f, word, starts, base, q)}
<1>1. 0 \in S
  <2> DEFINE f == [q \in 0 .. 0 |-> FPADD(word[q], base)]
  <2>1. f = [q \in 0 .. 0 |-> FPADD(word[q], IF q \in starts THEN base ELSE f[q - 1])]
    OBVIOUS
  <2>2. Links(f, word, starts, base, 0)
    BY <2>1, Zenon DEF Links
  <2> QED BY <2>2
<1>2. ASSUME NEW q \in S, q \in Nat PROVE q + 1 \in S
  <2>1. PICK g : Links(g, word, starts, base, q)
    BY <1>2
  <2> DEFINE f == [k \in 0 .. q + 1 |->
                     IF k <= q THEN g[k]
                     ELSE FPADD(word[k], IF k \in starts THEN base ELSE g[k - 1])]
  <2>2. ASSUME NEW k \in 0 .. q + 1
        PROVE  f[k] = FPADD(word[k], IF k \in starts THEN base ELSE f[k - 1])
    <3>1. CASE k = 0
      <4>1. f[k] = g[k]
        BY <1>2, <3>1
      <4>2. k \in 0 .. q
        BY <1>2, <3>1
      <4>3. g[k] = FPADD(word[k], IF k \in starts THEN base ELSE g[k - 1])
        BY <2>1, <4>2 DEF Links
      <4> QED BY <3>1, <4>1, <4>3
    <3>2. CASE k \in 1 .. q
      <4>1. f[k] = g[k] /\ f[k - 1] = g[k - 1]
        BY <1>2, <3>2
      <4>2. k \in 0 .. q
        BY <3>2
      <4>3. g[k] = FPADD(word[k], IF k \in starts THEN base ELSE g[k - 1])
        BY <2>1, <4>2 DEF Links
      <4> QED BY <4>1, <4>3
    <3>3. CASE k = q + 1
      <4>1. f[k] = FPADD(word[k], IF k \in starts THEN base ELSE g[k - 1]) /\ f[k - 1] = g[k - 1]
        BY <1>2, <3>3
      <4> QED BY <4>1
    <3> QED BY <1>2, <3>1, <3>2, <3>3
  <2>3. f = [k \in 0 .. q + 1 |-> FPADD(word[k], IF k \in starts THEN base ELSE f[k - 1])]
    BY <2>2
  <2>4. Links(f, word, starts, base, q + 1)
    BY <2>3, Zenon DEF Links
  <2> QED BY <1>2, <2>4
<1>3. Nat \subseteq S
  <2> HIDE DEF S
  <2> QED BY <1>1, <1>2, Induction
<1> QED BY <1>3

\* Two chains of the same words are the same as far as both go.
LEMMA LinksUnique ==
    ASSUME NEW word, NEW starts, 0 \in starts, NEW base, NEW m \in Nat, NEW n \in Nat, NEW f, NEW g,
           Linked(f, word, starts, base, m), Linked(g, word, starts, base, n)
    PROVE  \A q \in Nat : q <= m /\ q <= n => f[q] = g[q]
<1> USE DEF Linked
<1> DEFINE S == {q \in Nat : q <= m /\ q <= n => f[q] = g[q]}
<1>1. 0 \in S
  <2>1. 0 \in 0 .. m /\ 0 \in 0 .. n
    OBVIOUS
  <2>2. f[0] = FPADD(word[0], base) /\ g[0] = FPADD(word[0], base)
    BY <2>1
  <2> QED BY <2>2
<1>2. ASSUME NEW q \in S, q \in Nat PROVE q + 1 \in S
  <2> SUFFICES ASSUME q + 1 <= m, q + 1 <= n PROVE f[q + 1] = g[q + 1]
    BY <1>2
  <2>1. q + 1 \in 0 .. m /\ q + 1 \in 0 .. n /\ (q + 1) - 1 = q
    BY <1>2
  <2>2. f[q] = g[q]
    BY <1>2
  <2>3. f[q + 1] = FPADD(word[q + 1], IF q + 1 \in starts THEN base ELSE f[q])
    BY <2>1
  <2>4. g[q + 1] = FPADD(word[q + 1], IF q + 1 \in starts THEN base ELSE g[q])
    BY <2>1
  <2> QED BY <2>2, <2>3, <2>4
<1>3. Nat \subseteq S
  <2> HIDE DEF S
  <2> QED BY <1>1, <1>2, Induction
<1> QED BY <1>3

\* What a chain is, and that there is no other.
LEMMA ChainIs ==
    ASSUME NEW word, NEW starts, 0 \in starts, NEW base
    PROVE  \A q \in Nat : Chain(word, starts, base)[q] =
              FPADD(word[q], IF q \in starts THEN base ELSE Chain(word, starts, base)[q - 1])
<1> DEFINE links(n) == CHOOSE f : Links(f, word, starts, base, n)
           ch == Chain(word, starts, base)
<1>1. \A n \in Nat : Links(links(n), word, starts, base, n)
  BY LinksExist
<1>2. \A n \in Nat : ch[n] = links(n)[n]
  BY DEF Chain
<1> HIDE DEF links, ch
<1>3. \A n \in Nat : \A q \in 0 .. n :
         links(n)[q] = FPADD(word[q], IF q \in starts THEN base ELSE links(n)[q - 1])
  <2> SUFFICES ASSUME NEW n \in Nat, NEW q \in 0 .. n
               PROVE  links(n)[q] = FPADD(word[q], IF q \in starts THEN base ELSE links(n)[q - 1])
    OBVIOUS
  <2> DEFINE f == links(n)
  <2>1. f = [k \in 0 .. n |-> FPADD(word[k], IF k \in starts THEN base ELSE f[k - 1])]
    BY <1>1 DEF Links
  <2> HIDE DEF f
  <2>2. f[q] = FPADD(word[q], IF q \in starts THEN base ELSE f[q - 1])
    BY <2>1
  <2> QED BY <2>2 DEF f
<1>4. ASSUME NEW q \in Nat
      PROVE  ch[q] = FPADD(word[q], IF q \in starts THEN base ELSE ch[q - 1])
  <2>1. q \in 0 .. q
    OBVIOUS
  <2>2. ch[q] = FPADD(word[q], IF q \in starts THEN base ELSE links(q)[q - 1])
    BY <1>2, <1>3, <2>1
  <2>3. CASE q \in starts
    BY <2>2, <2>3
  <2>4. CASE q \notin starts
    <3>1. q - 1 \in Nat /\ q - 1 <= q
      <4>1. q # 0
        BY <2>4
      <4> QED BY <4>1
    <3> DEFINE p == q - 1
    <3>2. p \in Nat /\ p <= p /\ p <= q
      BY <3>1
    <3> HIDE DEF p
    <3>3. /\ \A k \in 0 .. p : links(p)[k] = FPADD(word[k], IF k \in starts THEN base ELSE links(p)[k - 1])
          /\ \A k \in 0 .. q : links(q)[k] = FPADD(word[k], IF k \in starts THEN base ELSE links(q)[k - 1])
      BY <1>3, <3>2
    <3>4. links(p)[p] = links(q)[p]
      <4> DEFINE f == links(p)
                 g == links(q)
      <4>1. Linked(f, word, starts, base, p) /\ Linked(g, word, starts, base, q)
        BY <3>3 DEF Linked
      <4> HIDE DEF f, g
      <4>2. \A k \in Nat : k <= p /\ k <= q => f[k] = g[k]
        BY <3>2, <4>1, LinksUnique
      <4>3. f[p] = g[p]
        BY <3>2, <4>2
      <4> QED BY <4>3 DEF f, g
    <3>5. ch[p] = links(q)[p]
      BY <1>2, <3>2, <3>4
    <3> QED BY <2>2, <2>4, <3>5 DEF p
  <2> QED BY <2>3, <2>4
<1> QED BY <1>4 DEF ch

-----------------------------------------------------------------------------
(***************************************************************************)
(* The words of the program, block by block, and what the array makes of   *)
(* them.                                                                   *)
(***************************************************************************)
Weight(r) == [b \in Nat |-> Tile_Weight(WeightAt(Rows * b + r))]
Image(k) == [b \in Nat |-> Tile_Img2Col(ImageAt(Images * b + k))]
OutputWord(at) == IF at = Zeros THEN Zero ELSE Output0(at)
Output(c) == [b \in Nat |-> OutputWord(OutputAt(Cols * b + c))]

Products(c, b) == [r \in Nat |-> FPMUL(Weight(r)[b], Image(r + c)[b])]
Column(c, b) == Chain(Products(c, b), {0}, Output(c)[b])
Results(r, c) == [b \in Nat |-> Column(c, b)[r]]
Sums(c) == Chain(Results(LastRow, c), {b \in Nat : b % NOPCount = 0}, Zero)

Plan(sent, at, r, c) ==
    [W |-> WeightIn(sent, r, c), I |-> ImageIn(sent, r, c), O |-> OutputIn(sent, at, r, c),
     at |-> at[<<r, c>>],
     w |-> Weight(r), i |-> Image(r + c), o |-> IF r = 0 THEN Output(c) ELSE Results(r - 1, c),
     v |-> Results(r, c)]

\* What a cell makes of the words of a block.
LEMMA ResultsAre ==
    ASSUME NEW r \in RowNo, NEW c \in ColNo, NEW b \in Nat
    PROVE  Results(r, c)[b] =
              FPADD(FPMUL(Weight(r)[b], Image(r + c)[b]),
                    (IF r = 0 THEN Output(c) ELSE Results(r - 1, c))[b])
<1> DEFINE word == Products(c, b)
           base == Output(c)[b]
           starts == {0}
           ch == Chain(word, starts, base)
<1>1. r \in Nat /\ 0 \in starts /\ (r # 0 => r - 1 \in Nat)
  BY DEF RowNo
<1>2. \A q \in Nat : ch[q] = FPADD(word[q], IF q \in starts THEN base ELSE ch[q - 1])
  <2> HIDE DEF word, starts, base
  <2> QED BY <1>1, ChainIs
<1>3. ch[r] = FPADD(word[r], IF r = 0 THEN base ELSE ch[r - 1])
  <2>1. r \in starts <=> r = 0
    OBVIOUS
  <2> HIDE DEF word, starts, base, ch
  <2> QED BY <1>1, <1>2, <2>1
<1>4. word[r] = FPMUL(Weight(r)[b], Image(r + c)[b])
  BY <1>1 DEF Products
<1>5. \A q : Results(q, c)[b] = Column(c, b)[q]
  BY DEF Results
<1>6. Column(c, b) = ch
  BY DEF Column
<1>7. Results(r, c)[b] = ch[r] /\ Results(r - 1, c)[b] = ch[r - 1]
  BY <1>5, <1>6
<1>8. (IF r = 0 THEN base ELSE ch[r - 1]) = (IF r = 0 THEN Output(c) ELSE Results(r - 1, c))[b]
  BY <1>7
<1> HIDE DEF word, base, ch
<1> QED BY <1>3, <1>4, <1>7, <1>8

\* The plan of a cell is one it can keep.
LEMMA PlanIs ==
    ASSUME Fits, NEW sent \in Times, Spread(sent), NEW at, Schedule(sent, at),
           NEW r \in RowNo, NEW c \in ColNo
    PROVE  CellPlan(Plan(sent, at, r, c))
<1> DEFINE p == Plan(sent, at, r, c)
<1>1. /\ p.W = WeightIn(sent, r, c) /\ p.I = ImageIn(sent, r, c) /\ p.O = OutputIn(sent, at, r, c)
      /\ p.at = at[<<r, c>>] /\ p.w = Weight(r) /\ p.i = Image(r + c)
      /\ p.o = (IF r = 0 THEN Output(c) ELSE Results(r - 1, c)) /\ p.v = Results(r, c)
  BY DEF Plan
<1> HIDE DEF p
<1>2. /\ p.W \in Times /\ p.I \in Times /\ p.O \in Times /\ p.at \in Times
      /\ Paced(p.W) /\ Paced(p.I) /\ Paced(p.O) /\ Paced(p.at)
  <2>1. WeightIn(sent, r, c) \in Times /\ Paced(WeightIn(sent, r, c))
    BY WordsPaced
  <2>2. ImageIn(sent, r, c) \in Times /\ Paced(ImageIn(sent, r, c))
    BY WordsPaced
  <2>3. OutputIn(sent, at, r, c) \in Times /\ Paced(OutputIn(sent, at, r, c)) /\ Paced(at[<<r, c>>])
    BY RowsOnTime DEF RowOnTime
  <2>4. at[<<r, c>>] \in Times
    BY DEF Schedule
  <2> QED BY <1>1, <2>1, <2>2, <2>3, <2>4
<1>3. ASSUME NEW b \in Nat
      PROVE  /\ p.W[b] <= p.at[b] /\ p.I[b] <= p.at[b] /\ p.O[b] <= p.at[b]
             /\ p.at[b] = p.W[b] \/ p.at[b] = p.I[b] \/ p.at[b] = p.O[b]
             /\ p.at[b] + 1 < p.W[b + PEBufferSize] /\ p.at[b] + 1 < p.I[b + PEBufferSize]
             /\ p.at[b] < p.O[b + 1]
  <2> DEFINE w == WeightIn(sent, r, c)
             i == ImageIn(sent, r, c)
             o == OutputIn(sent, at, r, c)
             when == at[<<r, c>>]
  <2>1. /\ w[b] <= when[b] /\ i[b] <= when[b] /\ o[b] <= when[b]
        /\ when[b] = w[b] \/ when[b] = i[b] \/ when[b] = o[b]
        /\ when[b] + 1 < w[b + PEBufferSize] /\ when[b] + 1 < i[b + PEBufferSize]
        /\ when[b] < o[b + 1]
    BY CellTimes, Zenon
  <2>2. p.W = w /\ p.I = i /\ p.O = o /\ p.at = when
    BY <1>1
  <2> HIDE DEF w, i, o, when
  <2> QED BY <2>1, <2>2
<1>4. ASSUME NEW b \in Nat PROVE p.v[b] = FPADD(FPMUL(p.w[b], p.i[b]), p.o[b])
  BY <1>1, ResultsAre
<1>5. CellPlan(p)
  BY <1>2, <1>3, <1>4 DEF CellPlan
<1> QED BY <1>5 DEF p

\* The words that an accumulator adds up.
LEMMA SumsRun ==
    ASSUME NEW c \in ColNo
    PROVE  Running(Results(LastRow, c), Sums(c))
<1> DEFINE word == Results(LastRow, c)
           starts == {b \in Nat : b % NOPCount = 0}
           ch == Sums(c)
<1>1. 0 \in starts
  <2>1. NOPCount \in Nat \ {0} /\ 0 \in 0 .. NOPCount - 1
    BY CellSizes
  <2>2. 0 = NOPCount * 0 + 0 /\ 0 \in Nat
    BY <2>1
  <2>3. 0 % NOPCount = 0
    BY <2>1, <2>2, QuotientIs
  <2> QED BY <2>3
<1>2. ch = Chain(word, starts, Zero)
  BY DEF Sums
<1>3. \A b \in Nat : b \in starts <=> b % NOPCount = 0
  OBVIOUS
<1> HIDE DEF word, starts, ch
<1>4. \A b \in Nat : ch[b] = FPADD(word[b], IF b \in starts THEN Zero ELSE ch[b - 1])
  BY <1>1, <1>2, ChainIs
<1>5. Running(word, ch)
  BY <1>3, <1>4 DEF Running
<1> QED BY <1>5 DEF word, ch

\* The columns of the tile, by groups.
LEMMA ColumnIs ==
    ASSUME NEW g \in Nat, NEW c \in ColNo, Cols * g + c < N
    PROVE  /\ Cols * g + c \in 0 .. N - 1 /\ c < Width(g)
           /\ Convolution[Cols * g + c] = ColumnSum(g, c)
<1>1. c \in 0 .. Cols - 1 /\ Cols \in Nat \ {0} /\ N \in Nat
  BY ArrayAssumption, ProgramAssumption DEF ColNo
<1>2. Cols * g \in Nat /\ (Cols * g + c) \div Cols = g /\ (Cols * g + c) % Cols = c
  BY <1>1, Element
<1>3. Cols * g + c \in 0 .. N - 1
  BY <1>1, <1>2
<1>4. c < Width(g)
  <2>1. /\ Groups \in Nat /\ Edge \in 0 .. Cols - 1 /\ N = Cols * Groups + Edge
    BY GroupsIs
  <2>2. CASE g < Groups
    BY <1>1, <2>2 DEF Width
  <2>3. CASE ~(g < Groups)
    <3>1. g - Groups \in Nat /\ Cols * g = Cols * Groups + Cols * (g - Groups)
      BY <1>1, <2>1, <2>3
    <3>2. Cols * (g - Groups) \in Nat /\ Cols * Groups \in Nat
      <4> DEFINE x == g - Groups
      <4>1. x \in Nat
        BY <3>1
      <4> HIDE DEF x
      <4>2. Cols * x \in Nat /\ Cols * Groups \in Nat
        BY <1>1, <2>1, <4>1
      <4> QED BY <4>2 DEF x
    <3>3. c < Edge
      BY <1>1, <2>1, <3>1, <3>2
    <3> QED BY <2>3, <3>3 DEF Width
  <2> QED BY <2>2, <2>3
<1> QED BY <1>2, <1>3, <1>4 DEF Convolution

\* The words of a column that is in the tile.
LEMMA WordsAre ==
    ASSUME NEW g \in Nat, NEW c \in ColNo, Cols * g + c < N, NEW p \in 0 .. NOPCount - 1,
           NEW b, b = NOPCount * g + p
    PROVE  /\ b \in Nat
           /\ \A r \in RowNo : /\ Weight(r)[b] = Tile_Weight(p * Rows + r)
                               /\ Image(r + c)[b] = Tile_Img2Col((g * NOPCount + p) * Images + r + c)
           /\ Output(c)[b] = IF p = 0 THEN Output0(g * Cols + c) ELSE Zero
<1>1. c < Width(g) /\ c \in Nat /\ c + 1 <= Cols /\ c + 1 \in 1 .. Images
  BY ColumnIs, ImagesIs, ArrayAssumption DEF ColNo
<1>2. b \in Nat
  BY <1>1, BlockWords
<1>3. ASSUME NEW r \in RowNo
      PROVE  /\ Weight(r)[b] = Tile_Weight(p * Rows + r)
             /\ Image(r + c)[b] = Tile_Img2Col((g * NOPCount + p) * Images + r + c)
  <2>1. r \in Nat /\ r + 1 \in 1 .. Images /\ r + 1 <= Rows /\ (r + 1) - 1 = r
    BY ImagesIs, ArrayAssumption DEF RowNo
  <2>2. WeightAt(Rows * b + r) = p * Rows + r
    <3> DEFINE k == r + 1
    <3>1. k \in 1 .. Images /\ k <= Rows /\ k - 1 = r
      BY <2>1
    <3> HIDE DEF k
    <3>2. WeightAt(Rows * b + (k - 1)) = p * Rows + (k - 1)
      BY <3>1, BlockWords
    <3> QED BY <3>1, <3>2
  <2>3. ImageAt(Images * b + (r + c)) = g * Images * NOPCount + p * Images + (r + c)
    <3> DEFINE k == (r + c) + 1
    <3>1. k \in 1 .. Images /\ k - 1 = r + c
      <4>1. r + c \in 0 .. Images - 1
        BY Sizes
      <4>2. Images \in Nat
        BY ImagesIs
      <4> QED BY <4>1, <4>2
    <3>2. r + c < Width(g) + Rows - 1
      <4>1. g \in Nat /\ Rows \in Nat /\ r <= Rows - 1
        BY <2>1, ArrayAssumption
      <4>2. Width(g) \in Int
        BY GroupsIs, ArrayAssumption DEF Width
      <4> QED BY <1>1, <2>1, <4>1, <4>2
    <3> HIDE DEF k
    <3>3. ImageAt(Images * b + (k - 1)) =
            IF k - 1 < Width(g) + Rows - 1
            THEN g * Images * NOPCount + p * Images + (k - 1)
            ELSE (g - 1) * Images * NOPCount + (NOPCount - 1) * Images + (k - 1)
      BY <3>1, BlockWords
    <3> QED BY <3>1, <3>2, <3>3
  <2>4. g * Images * NOPCount + p * Images + (r + c) = (g * NOPCount + p) * Images + r + c
    <3>1. g \in Nat /\ p \in Nat /\ Images \in Nat /\ NOPCount \in Nat /\ r \in Nat /\ c \in Nat
      BY <1>1, <2>1, ImagesIs, CellSizes
    <3>2. (g * NOPCount + p) * Images = g * Images * NOPCount + p * Images
      BY <3>1
    <3>3. g * Images * NOPCount \in Nat /\ p * Images \in Nat
      <4>1. g * Images \in Nat
        BY <3>1
      <4> DEFINE x == g * Images
      <4>2. x \in Nat
        BY <4>1
      <4> HIDE DEF x
      <4>3. x * NOPCount \in Nat /\ p * Images \in Nat
        BY <3>1, <4>2
      <4> QED BY <4>3 DEF x
    <3> DEFINE x == g * Images * NOPCount + p * Images
    <3>4. x \in Nat /\ (g * NOPCount + p) * Images = x
      BY <3>2, <3>3
    <3> HIDE DEF x
    <3>5. x + (r + c) = x + r + c
      BY <3>1, <3>4
    <3> QED BY <3>4, <3>5 DEF x
  <2>5. Weight(r)[b] = Tile_Weight(WeightAt(Rows * b + r))
    BY <1>2 DEF Weight
  <2>6. Image(r + c)[b] = Tile_Img2Col(ImageAt(Images * b + (r + c)))
    BY <1>2 DEF Image
  <2> QED BY <2>2, <2>3, <2>4, <2>5, <2>6
<1>4. Output(c)[b] = IF p = 0 THEN Output0(g * Cols + c) ELSE Zero
  <2>1. OutputAt(Cols * b + c) = IF p = 0 THEN g * Cols + c ELSE Zeros
    <3> DEFINE k == c + 1
    <3>1. k \in 1 .. Images /\ k <= Cols /\ k - 1 = c
      BY <1>1
    <3> HIDE DEF k
    <3>2. OutputAt(Cols * b + (k - 1)) = IF p = 0 /\ k - 1 < Width(g) THEN g * Cols + (k - 1) ELSE Zeros
      BY <3>1, BlockWords
    <3> QED BY <1>1, <3>1, <3>2
  <2>2. g * Cols + c # Zeros
    <3>1. g * Cols \in Nat
      BY ArrayAssumption
    <3> QED BY <1>1, <3>1 DEF Zeros
  <2>3. Output(c)[b] = OutputWord(OutputAt(Cols * b + c))
    BY <1>2 DEF Output
  <2> QED BY <2>1, <2>2, <2>3 DEF OutputWord
<1> QED BY <1>2, <1>3, <1>4

\* The recursive functions of a column, as chains.
WordLinks(mac, j, p, c) ==
    mac = [r \in RowNo |->
             FPADD(FPMUL(Tile_Weight(p * Rows + r),
                         Tile_Img2Col((j * NOPCount + p) * Images + r + c)),
                   IF r > 0 THEN mac[r - 1]
                   ELSE IF p = 0 THEN Output0(j * Cols + c) ELSE Zero)]

SumLinks(sum, j, c) ==
    sum = [p \in 0 .. NOPCount - 1 |->
             FPADD(ColumnWord(j, p, c), IF p = 0 THEN Zero ELSE sum[p - 1])]

LEMMA ColumnLinks ==
    ASSUME NEW j, NEW p, NEW c
    PROVE  /\ ColumnWord(j, p, c) = (CHOOSE mac : WordLinks(mac, j, p, c))[LastRow]
           /\ ColumnSum(j, c) = (CHOOSE sum : SumLinks(sum, j, c))[NOPCount - 1]
<1>1. ColumnWord(j, p, c) = (CHOOSE mac : WordLinks(mac, j, p, c))[LastRow]
  BY Zenon DEF ColumnWord, WordLinks
<1>2. ColumnSum(j, c) = (CHOOSE sum : SumLinks(sum, j, c))[NOPCount - 1]
  BY Zenon DEF ColumnSum, SumLinks
<1> QED BY <1>1, <1>2

\* What a function that is a chain from 0 to n is at n.
LEMMA ChainEnd ==
    ASSUME NEW word, NEW base, NEW n \in Nat, NEW f, NEW g,
           Linked(f, word, {0}, base, n), Linked(g, word, {0}, base, n)
    PROVE  f[n] = g[n]
<1> DEFINE starts == {0}
<1>1. 0 \in starts
  OBVIOUS
<1>2. Linked(f, word, starts, base, n) /\ Linked(g, word, starts, base, n)
  OBVIOUS
<1> HIDE DEF starts
<1>3. \A q \in Nat : q <= n /\ q <= n => f[q] = g[q]
  BY <1>1, <1>2, LinksUnique
<1> QED BY <1>3

\* The word that a column makes of a block.
LEMMA ColumnWordIs ==
    ASSUME NEW g \in Nat, NEW c \in ColNo, Cols * g + c < N, NEW p \in 0 .. NOPCount - 1,
           NEW b, b = NOPCount * g + p
    PROVE  b \in Nat /\ ColumnWord(g, p, c) = Results(LastRow, c)[b]
<1>1. /\ b \in Nat
      /\ \A r \in RowNo : /\ Weight(r)[b] = Tile_Weight(p * Rows + r)
                          /\ Image(r + c)[b] = Tile_Img2Col((g * NOPCount + p) * Images + r + c)
      /\ Output(c)[b] = IF p = 0 THEN Output0(g * Cols + c) ELSE Zero
  BY WordsAre
<1>2. RowNo = 0 .. LastRow /\ LastRow \in Nat
  BY Sizes DEF RowNo, LastRow
<1> DEFINE f == [r \in RowNo |-> Results(r, c)[b]]
           word == Products(c, b)
           base == Output(c)[b]
<1>3. ASSUME NEW r \in RowNo
      PROVE  /\ word[r] = FPMUL(Tile_Weight(p * Rows + r),
                                Tile_Img2Col((g * NOPCount + p) * Images + r + c))
             /\ Results(r, c)[b] = FPADD(word[r], IF r = 0 THEN base ELSE Results(r - 1, c)[b])
  <2>1. r \in Nat
    BY <1>2
  <2>2. word[r] = FPMUL(Weight(r)[b], Image(r + c)[b])
    BY <2>1 DEF Products
  <2>3. Results(r, c)[b] = FPADD(FPMUL(Weight(r)[b], Image(r + c)[b]),
                                 (IF r = 0 THEN Output(c) ELSE Results(r - 1, c))[b])
    BY <1>1, ResultsAre
  <2> HIDE DEF word
  <2> QED BY <1>1, <2>2, <2>3
<1>4. base = IF p = 0 THEN Output0(g * Cols + c) ELSE Zero
  BY <1>1
<1> HIDE DEF word, base
<1>5. ASSUME NEW r \in RowNo PROVE f[r] = FPADD(word[r], IF r = 0 THEN base ELSE f[r - 1])
  <2>1. r = 0 \/ r - 1 \in RowNo
    BY <1>2
  <2> QED BY <1>3, <2>1
<1>6. f = [r \in RowNo |->
             FPADD(FPMUL(Tile_Weight(p * Rows + r),
                         Tile_Img2Col((g * NOPCount + p) * Images + r + c)),
                   IF r > 0 THEN f[r - 1]
                   ELSE IF p = 0 THEN Output0(g * Cols + c) ELSE Zero)]
  <2>1. ASSUME NEW r \in RowNo
        PROVE  f[r] = FPADD(FPMUL(Tile_Weight(p * Rows + r),
                                  Tile_Img2Col((g * NOPCount + p) * Images + r + c)),
                            IF r > 0 THEN f[r - 1]
                            ELSE IF p = 0 THEN Output0(g * Cols + c) ELSE Zero)
    <3>1. r > 0 <=> r # 0
      BY <1>2
    <3>2. f[r] = FPADD(word[r], IF r = 0 THEN base ELSE f[r - 1])
      BY <1>5
    <3>3. word[r] = FPMUL(Tile_Weight(p * Rows + r),
                          Tile_Img2Col((g * NOPCount + p) * Images + r + c))
      BY <1>3
    <3> HIDE DEF f
    <3> QED BY <1>4, <3>1, <3>2, <3>3
  <2> QED BY <2>1
<1> HIDE DEF f
<1>7. WordLinks(f, g, p, c)
  BY <1>6, Zenon DEF WordLinks
<1> DEFINE mac == CHOOSE mac : WordLinks(mac, g, p, c)
<1>8. WordLinks(mac, g, p, c)
  BY <1>7
<1>9. ColumnWord(g, p, c) = mac[LastRow]
  BY ColumnLinks
<1> HIDE DEF mac
<1>10. ASSUME NEW r \in RowNo PROVE mac[r] = FPADD(word[r], IF r = 0 THEN base ELSE mac[r - 1])
  <2>1. mac[r] = FPADD(FPMUL(Tile_Weight(p * Rows + r),
                             Tile_Img2Col((g * NOPCount + p) * Images + r + c)),
                       IF r > 0 THEN mac[r - 1]
                       ELSE IF p = 0 THEN Output0(g * Cols + c) ELSE Zero)
    BY <1>8 DEF WordLinks
  <2>2. r > 0 <=> r # 0
    BY <1>2
  <2>3. word[r] = FPMUL(Tile_Weight(p * Rows + r),
                        Tile_Img2Col((g * NOPCount + p) * Images + r + c))
    BY <1>3
  <2> QED BY <1>4, <2>1, <2>2, <2>3
<1>11. f[LastRow] = mac[LastRow]
  <2>1. Linked(f, word, {0}, base, LastRow) /\ Linked(mac, word, {0}, base, LastRow)
    BY <1>2, <1>5, <1>10 DEF Linked
  <2> QED BY <1>2, <2>1, ChainEnd
<1>12. f[LastRow] = Results(LastRow, c)[b]
  BY Sizes DEF f
<1> QED BY <1>1, <1>9, <1>11, <1>12

\* The sum that an accumulator makes of a group is the convolution.
LEMMA ColumnSumIs ==
    ASSUME NEW g \in Nat, NEW c \in ColNo, Cols * g + c < N
    PROVE  GroupSums(Sums(c))[g] = Convolution[Cols * g + c]
<1> DEFINE word == [p \in 0 .. NOPCount - 1 |-> Results(LastRow, c)[NOPCount * g + p]]
           run == Sums(c)
           f == [p \in 0 .. NOPCount - 1 |-> run[NOPCount * g + p]]
           last == NOPCount - 1
<1>1. NOPCount \in Nat \ {0} /\ last \in Nat /\ last \in 0 .. NOPCount - 1
  BY CellSizes
<1>2. ASSUME NEW p \in 0 .. last
      PROVE  /\ word[p] = ColumnWord(g, p, c)
             /\ f[p] = FPADD(word[p], IF p = 0 THEN Zero ELSE f[p - 1])
  <2> DEFINE b == NOPCount * g + p
  <2>1. word[p] = Results(LastRow, c)[b] /\ f[p] = run[b]
    OBVIOUS
  <2>2. b \in Nat /\ ColumnWord(g, p, c) = Results(LastRow, c)[b]
    BY ColumnWordIs
  <2>3. b % NOPCount = p
    BY <1>1, Element
  <2>4. run[b] = FPADD(Results(LastRow, c)[b], IF b % NOPCount = 0 THEN Zero ELSE run[b - 1])
    BY <2>2, SumsRun DEF Running
  <2>5. p # 0 => p - 1 \in 0 .. NOPCount - 1 /\ b - 1 = NOPCount * g + (p - 1)
    <3>1. NOPCount * g \in Nat
      BY <1>1
    <3> QED BY <1>1, <3>1
  <2>6. p # 0 => f[p - 1] = run[b - 1]
    BY <2>5
  <2> HIDE DEF word, f, b, run
  <2> QED BY <2>1, <2>2, <2>3, <2>4, <2>6
<1> HIDE DEF word
<1>3. f = [p \in 0 .. NOPCount - 1 |-> FPADD(ColumnWord(g, p, c), IF p = 0 THEN Zero ELSE f[p - 1])]
  <2>1. ASSUME NEW p \in 0 .. NOPCount - 1
        PROVE  f[p] = FPADD(ColumnWord(g, p, c), IF p = 0 THEN Zero ELSE f[p - 1])
    <3> HIDE DEF f
    <3> QED BY <1>2
  <2> QED BY <2>1
<1>4. f[last] = GroupSums(run)[g]
  BY <1>1 DEF GroupSums, LastOf
<1> HIDE DEF f
<1>5. SumLinks(f, g, c)
  BY <1>3, Zenon DEF SumLinks
<1> DEFINE sum == CHOOSE sum : SumLinks(sum, g, c)
<1>6. SumLinks(sum, g, c)
  BY <1>5
<1>7. ColumnSum(g, c) = sum[last]
  BY ColumnLinks
<1> HIDE DEF sum
<1>8. ASSUME NEW p \in 0 .. last PROVE sum[p] = FPADD(word[p], IF p = 0 THEN Zero ELSE sum[p - 1])
  BY <1>2, <1>6 DEF SumLinks
<1>9. sum[last] = f[last]
  <2> HIDE DEF last
  <2>1. Linked(f, word, {0}, Zero, last) /\ Linked(sum, word, {0}, Zero, last)
    BY <1>2, <1>8 DEF Linked
  <2> QED BY <1>1, <2>1, ChainEnd
<1> QED BY <1>4, <1>7, <1>9, ColumnIs DEF run

-----------------------------------------------------------------------------
(***************************************************************************)
(* The array on schedule: t clocks after the reset, the program at x.      *)
(***************************************************************************)
ArrayShows(cells, sums, x, sent, at, t) ==
    /\ \A r \in RowNo, c \in ColNo : CellShows(cells[<<r, c>>], Plan(sent, at, r, c), t)
    /\ \A c \in ColNo :
          SumShows(sums[c], SumIn(at, c), Results(LastRow, c), Sums(c),
                   Share(Before(4, x), Cols, c), t)

Words3(kind, k) == IF kind = 1 THEN Weight(k) ELSE IF kind = 2 THEN Image(k) ELSE Output(k)
Address(kind) ==
    IF kind = 1 THEN Kernel_Address ELSE IF kind = 2 THEN Input_Address ELSE Output_Write_Address
Coming(sent, kind, k) == [b \in Nat |-> sent[Place(kind, b, k)] + 1]

\* What is sent at clock t is the word that is due, and goes to the cell it is for.
Carried(send, sent, t) ==
    \A kind \in 1 .. 3 : \A k \in Slots(kind) :
        Shows(To(send[kind], Address(kind) = k), Words3(kind, k), Coming(sent, kind, k), t + 1)

\* The buffers of a cell have two slots at least.
LEMMA FitsIs == ASSUME Fits PROVE PEBufferSize >= 2 /\ ACCBufferSize >= 2 /\ ADD_Stages < BlockLen
<1>1. PEBufferSize \in Nat \ {0} /\ MAC_Stages \in Nat
  BY CellSizes
<1>2. LastRow \in Nat /\ LastCol \in Nat /\ Delay \in Nat
  BY <1>1, Sizes DEF RowNo, ColNo, Delay
<1>3. LastRow * Delay \in Nat
  BY <1>2
<1>4. PEBufferSize # 1
  <2> SUFFICES ASSUME PEBufferSize = 1 PROVE FALSE
    OBVIOUS
  <2>1. (PEBufferSize - 1) * BlockLen = 0
    BY BlockLenIs
  <2> QED BY <1>2, <1>3, <2>1 DEF Fits
<1> QED BY <1>1, <1>4 DEF Fits

\* A word that is on a wire is d clocks later where it is due then.
LEMMA ShowsLater ==
    ASSUME NEW at \in Times, NEW later, NEW d \in Int, \A b \in Nat : later[b] = at[b] + d,
           NEW t \in Int, NEW wire, NEW word, Shows(wire, word, at, t)
    PROVE  Shows(wire, word, later, t + d)
<1>1. \A b \in Nat : at[b] \in Nat
  BY DEF Times
<1>2. \A b \in Nat : later[b] = t + d <=> at[b] = t
  BY <1>1
<1> QED BY <1>2 DEF Shows

\* A wire carries nothing when no word is due, and only then.
LEMMA ShowsSome ==
    ASSUME NEW at \in Times, NEW t, NEW wire, NEW word, Shows(wire, word, at, t)
    PROVE  /\ wire # Nothing <=> \E b \in Nat : at[b] = t
           /\ IsWire(wire)
BY DEF Shows, IsWire, Nothing

\* The plan of a cell, field by field.
LEMMA PlanFields ==
    ASSUME NEW sent, NEW at, NEW r, NEW c
    PROVE  LET p == Plan(sent, at, r, c)
           IN  /\ p.W = WeightIn(sent, r, c) /\ p.I = ImageIn(sent, r, c)
               /\ p.O = OutputIn(sent, at, r, c) /\ p.at = at[<<r, c>>]
               /\ p.w = Weight(r) /\ p.i = Image(r + c) /\ p.v = Results(r, c)
               /\ p.o = IF r = 0 THEN Output(c) ELSE Results(r - 1, c)
BY DEF Plan

\* What a cell that is on schedule shows its neighbours.
Gives(cell, sent, at, r, c, t) ==
    /\ at[<<r, c>>] \in Times /\ WeightIn(sent, r, c) \in Times /\ ImageIn(sent, r, c) \in Times
    /\ Shows(DataOut(cell.W), Weight(r), WeightIn(sent, r, c), t) /\ DataOut(cell.W) = cell.W.P
    /\ Shows(DataOut(cell.I), Image(r + c), ImageIn(sent, r, c), t) /\ DataOut(cell.I) = cell.I.P
    /\ Shows(O_DataOut(cell), Results(r, c), at[<<r, c>>], t - MAC_Stages)

LEMMA CellGives ==
    ASSUME NEW sent \in Times, Spread(sent), NEW at, Schedule(sent, at), NEW t \in Nat,
           NEW r \in RowNo, NEW c \in ColNo, NEW cell, CellOK(cell),
           CellShows(cell, Plan(sent, at, r, c), t)
    PROVE  Gives(cell, sent, at, r, c, t)
<1> DEFINE p == Plan(sent, at, r, c)
<1>1. /\ p.W = WeightIn(sent, r, c) /\ p.I = ImageIn(sent, r, c) /\ p.at = at[<<r, c>>]
      /\ p.w = Weight(r) /\ p.i = Image(r + c) /\ p.v = Results(r, c)
  BY PlanFields
<1> HIDE DEF p
<1>2. at[<<r, c>>] \in Times /\ WeightIn(sent, r, c) \in Times /\ ImageIn(sent, r, c) \in Times
  BY WordsPaced DEF Schedule
<1>3. /\ Shows(cell.W.P, p.w, p.W, t) /\ Shows(cell.I.P, p.i, p.I, t)
      /\ \A k \in 1 .. MAC_Stages : Shows(cell.MAC[k], p.v, p.at, t - k)
  BY DEF CellShows, SideShows, p
<1> QED
  <2>1. IsWire(cell.W.P) /\ IsWire(cell.I.P)
    BY <1>1, <1>2, <1>3, ShowsSome
  <2>2. DataOut(cell.W) = cell.W.P /\ DataOut(cell.I) = cell.I.P
    BY <2>1 DEF DataOut, Head1, IsWire, Nothing
  <2>3. O_DataOut(cell) = cell.MAC[MAC_Stages] /\ MAC_Stages \in 1 .. MAC_Stages
    BY PipeLen, CellSizes DEF CellOK, O_DataOut
  <2> QED BY <1>1, <1>2, <1>3, <2>2, <2>3 DEF Gives

\* The wires into a cell carry the words that are due at the next clock.
LEMMA WiresOnTime ==
    ASSUME CellsOK(pe, acc), NEW sent \in Times, Spread(sent), NEW at, Schedule(sent, at),
           NEW t \in Nat, NEW x, ArrayShows(pe, acc, x, sent, at, t),
           NEW send, Carried(send, sent, t), NEW r \in RowNo, NEW c \in ColNo
    PROVE  /\ Shows(W_In(r, c, send), Weight(r), WeightIn(sent, r, c), t + 1)
           /\ Shows(I_In(r, c, send), Image(r + c), ImageIn(sent, r, c), t + 1)
           /\ Shows(O_In(r, c, send), IF r = 0 THEN Output(c) ELSE Results(r - 1, c),
                    OutputIn(sent, at, r, c), t + 1)
<1>1. ASSUME NEW i \in RowNo, NEW j \in ColNo PROVE Gives(pe[<<i, j>>], sent, at, i, j, t)
  BY CellGives DEF CellsOK, ArrayShows
<1>2. /\ \A k \in RowNo : Shows(To(send[1], Kernel_Address = k), Weight(k), Coming(sent, 1, k), t + 1)
      /\ \A k \in 0 .. Images - 1 :
            Shows(To(send[2], Input_Address = k), Image(k), Coming(sent, 2, k), t + 1)
      /\ \A k \in ColNo :
            Shows(To(send[3], Output_Write_Address = k), Output(k), Coming(sent, 3, k), t + 1)
  <2>1. 1 \in 1 .. 3 /\ 2 \in 1 .. 3 /\ 3 \in 1 .. 3
    OBVIOUS
  <2> QED BY <2>1 DEF Carried, Slots, Words3, Address
<1>3. r \in Nat /\ c \in Nat /\ r + c \in 0 .. Images - 1
  BY Sizes DEF RowNo, ColNo
<1>4. /\ \A b \in Nat : /\ WeightIn(sent, r, c)[b] = sent[Place(1, b, r)] + (1 + c)
                        /\ Place(1, b, r) \in Nat /\ sent[Place(1, b, r)] \in Nat
                        /\ ImageIn(sent, r, c)[b] = sent[Place(2, b, r + c)] + (1 + Hops(r, c))
                        /\ Place(2, b, r + c) \in Nat /\ sent[Place(2, b, r + c)] \in Nat
  BY WordsPaced
<1>5. Shows(W_In(r, c, send), Weight(r), WeightIn(sent, r, c), t + 1)
  <2>1. CASE c = 0
    <3>1. Shows(W_In(r, c, send), Weight(r), Coming(sent, 1, r), t + 1)
      BY <1>2, <2>1 DEF W_In
    <3>2. \A b \in Nat : Coming(sent, 1, r)[b] = WeightIn(sent, r, c)[b]
      BY <1>4, <2>1 DEF Coming
    <3> QED BY <3>1, <3>2 DEF Shows
  <2>2. CASE c # 0
    <3> DEFINE j == c - 1
    <3>1. j \in ColNo /\ j \in Nat /\ 1 + c = (1 + j) + 1
      BY <1>3, <2>2, Sizes DEF ColNo
    <3>2. W_In(r, c, send) = DataOut(pe[<<r, j>>].W)
      BY <2>2 DEF W_In
    <3> HIDE DEF j
    <3> DEFINE cell == pe[<<r, j>>]
               before == WeightIn(sent, r, j)
               later == WeightIn(sent, r, c)
    <3>3. Gives(cell, sent, at, r, j, t)
      BY <1>1, <3>1
    <3>4. before \in Times /\ Shows(DataOut(cell.W), Weight(r), before, t)
      BY <3>3 DEF Gives
    <3>5. \A b \in Nat : later[b] = before[b] + 1
      <4>1. \A b \in Nat : before[b] = sent[Place(1, b, r)] + (1 + j)
        BY DEF WeightIn
      <4> HIDE DEF before, later
      <4>2. \A b \in Nat : later[b] = sent[Place(1, b, r)] + (1 + c) /\ sent[Place(1, b, r)] \in Nat
        BY <1>4 DEF later
      <4> QED BY <1>3, <3>1, <4>1, <4>2
    <3> HIDE DEF before, later, cell
    <3>6. Shows(DataOut(cell.W), Weight(r), later, t + 1)
      BY <3>4, <3>5, ShowsLater
    <3> QED BY <3>2, <3>6 DEF cell, later
  <2> QED BY <2>1, <2>2
<1>6. Shows(I_In(r, c, send), Image(r + c), ImageIn(sent, r, c), t + 1)
  <2>1. CASE r = 0 \/ c = LastCol
    <3>1. Shows(I_In(r, c, send), Image(r + c), Coming(sent, 2, r + c), t + 1)
      BY <1>2, <1>3, <2>1 DEF I_In
    <3>2. Hops(r, c) = 0
      BY <2>1, HopsIs
    <3>3. \A b \in Nat : Coming(sent, 2, r + c)[b] = ImageIn(sent, r, c)[b]
      BY <1>4, <3>2 DEF Coming
    <3> QED BY <3>1, <3>3 DEF Shows
  <2>2. CASE ~(r = 0 \/ c = LastCol)
    <3> DEFINE i == r - 1
               j == c + 1
    <3>1. i \in RowNo /\ j \in ColNo /\ i + j = r + c
      BY <1>3, <2>2, Sizes
    <3>2. I_In(r, c, send) = DataOut(pe[<<i, j>>].I)
      BY <2>2 DEF I_In
    <3>3. Hops(r, c) = Hops(i, j) + 1
      BY <2>2, HopsIs
    <3>4. Hops(i, j) \in Nat
      BY <3>1, HopsIs
    <3> HIDE DEF i, j
    <3> DEFINE cell == pe[<<i, j>>]
               before == ImageIn(sent, i, j)
               later == ImageIn(sent, r, c)
    <3>5. Gives(cell, sent, at, i, j, t)
      BY <1>1, <3>1
    <3>6. before \in Times /\ Shows(DataOut(cell.I), Image(i + j), before, t)
      BY <3>5 DEF Gives
    <3>7. \A b \in Nat : later[b] = before[b] + 1
      <4>1. \A b \in Nat : before[b] = sent[Place(2, b, r + c)] + (1 + Hops(i, j))
        BY <3>1 DEF ImageIn
      <4> HIDE DEF before, later
      <4>2. \A b \in Nat : later[b] = sent[Place(2, b, r + c)] + (1 + Hops(r, c)) /\ sent[Place(2, b, r + c)] \in Nat
        BY <1>4 DEF later
      <4> QED BY <3>3, <3>4, <4>1, <4>2
    <3> HIDE DEF before, later, cell
    <3>8. Shows(DataOut(cell.I), Image(r + c), later, t + 1)
      <4>1. Shows(DataOut(cell.I), Image(i + j), later, t + 1)
        BY <3>6, <3>7, ShowsLater
      <4> QED BY <3>1, <4>1
    <3> QED BY <3>2, <3>8 DEF cell, later
  <2> QED BY <2>1, <2>2
<1>7. Shows(O_In(r, c, send), IF r = 0 THEN Output(c) ELSE Results(r - 1, c),
            OutputIn(sent, at, r, c), t + 1)
  <2>1. CASE r = 0
    <3>1. Shows(O_In(r, c, send), Output(c), Coming(sent, 3, c), t + 1)
      BY <1>2, <2>1 DEF O_In
    <3>2. \A b \in Nat : Coming(sent, 3, c)[b] = OutputIn(sent, at, r, c)[b]
      BY <2>1 DEF Coming, OutputIn
    <3> QED BY <2>1, <3>1, <3>2 DEF Shows
  <2>2. CASE r # 0
    <3> DEFINE i == r - 1
    <3>1. i \in RowNo
      BY <2>2, Sizes
    <3>2. O_In(r, c, send) = O_DataOut(pe[<<i, c>>])
      BY <2>2 DEF O_In
    <3> DEFINE cell == pe[<<i, c>>]
               before == at[<<i, c>>]
               later == OutputIn(sent, at, r, c)
               s == t - MAC_Stages
    <3>3. Gives(cell, sent, at, i, c, t)
      BY <1>1, <3>1
    <3>4. \A b \in Nat : later[b] = before[b] + Delay
      BY <2>2 DEF OutputIn
    <3> HIDE DEF i
    <3>5. before \in Times /\ Shows(O_DataOut(cell), Results(i, c), before, s)
      BY <3>3 DEF Gives
    <3>6. s \in Int /\ Delay \in Int /\ s + Delay = t + 1
      BY CellSizes DEF Delay
    <3> HIDE DEF before, later, s
    <3>7. Shows(O_DataOut(cell), Results(i, c), later, s + Delay)
      <4> HIDE DEF cell
      <4> QED BY <3>4, <3>5, <3>6, ShowsLater
    <3> QED BY <2>2, <3>2, <3>6, <3>7 DEF later, i
  <2> QED BY <2>1, <2>2
<1> QED BY <1>5, <1>6, <1>7

\* A cell that is on schedule has room for the words that are due.
LEMMA CellRoom ==
    ASSUME Fits, NEW sent \in Times, Spread(sent), NEW at, Schedule(sent, at), NEW t \in Nat,
           NEW r \in RowNo, NEW c \in ColNo, NEW cell, CellShows(cell, Plan(sent, at, r, c), t)
    PROVE  /\ (\E b \in Nat : WeightIn(sent, r, c)[b] = t + 1) => DataInRdy(cell.W)
           /\ (\E b \in Nat : ImageIn(sent, r, c)[b] = t + 1) => DataInRdy(cell.I)
           /\ O_DataInRdy(cell)
<1> DEFINE p == Plan(sent, at, r, c)
<1>1. /\ p.W = WeightIn(sent, r, c) /\ p.I = ImageIn(sent, r, c)
  BY DEF Plan
<1>2. CellPlan(p) /\ CellShows(cell, p, t) /\ PEBufferSize >= 2
  BY PlanIs, FitsIs
<1> HIDE DEF p
<1>3. /\ p.W \in Times /\ p.I \in Times /\ p.at \in Times
      /\ Paced(p.W) /\ Paced(p.I) /\ Paced(p.at)
      /\ \A b \in Nat : p.at[b] + 1 < p.W[b + PEBufferSize]
      /\ \A b \in Nat : p.at[b] + 1 < p.I[b + PEBufferSize]
  BY <1>2 DEF CellPlan
<1>4. SideShows(cell.W, p.w, p.W, p.at, t) /\ SideShows(cell.I, p.i, p.I, p.at, t)
  BY <1>2 DEF CellShows
<1>5. ASSUME NEW b \in Nat, p.W[b] = t + 1 PROVE DataInRdy(cell.W)
  <2> DEFINE side == cell.W
             come == p.W
             gone == p.at
             word == p.w
  <2>1. /\ come \in Times /\ Paced(come) /\ gone \in Times /\ Paced(gone)
        /\ \A d \in Nat : gone[d] + 1 < come[d + PEBufferSize]
        /\ SideShows(side, word, come, gone, t) /\ come[b] = t + 1
    BY <1>3, <1>4, <1>5
  <2> HIDE DEF side, come, gone, word
  <2>2. DataInRdy(side)
    BY <1>2, <2>1, SideRoom
  <2> QED BY <2>2 DEF side
<1>6. ASSUME NEW b \in Nat, p.I[b] = t + 1 PROVE DataInRdy(cell.I)
  <2> DEFINE side == cell.I
             come == p.I
             gone == p.at
             word == p.i
  <2>1. /\ come \in Times /\ Paced(come) /\ gone \in Times /\ Paced(gone)
        /\ \A d \in Nat : gone[d] + 1 < come[d + PEBufferSize]
        /\ SideShows(side, word, come, gone, t) /\ come[b] = t + 1
    BY <1>3, <1>4, <1>6
  <2> HIDE DEF side, come, gone, word
  <2>2. DataInRdy(side)
    BY <1>2, <2>1, SideRoom
  <2> QED BY <2>2 DEF side
<1>7. O_DataInRdy(cell)
  BY <1>2, CellIssues
<1> QED BY <1>1, <1>5, <1>6, <1>7

\* An accumulator that is on schedule has room for a word.
LEMMA SumRoom ==
    ASSUME ACCBufferSize >= 2, NEW a, NEW come \in Times, NEW word, NEW run, NEW read, NEW t,
           SumShows(a, come, word, run, read, t)
    PROVE  ACC_DataInRdy(a)
<1>1. IsWire(a.Ready)
  BY DEF SumShows, Shows, IsWire
<1>2. Len(a.Ready) \in {0, 1}
  BY <1>1, WireIs
<1>3. 0 < ACCBufferSize /\ 1 < ACCBufferSize
  BY CellSizes
<1> QED BY <1>2, <1>3, Zenon DEF ACC_DataInRdy

\* The clocks at which words come to an accumulator.
LEMMA SumInIs ==
    ASSUME NEW sent \in Times, Spread(sent), NEW at, Schedule(sent, at), NEW c \in ColNo
    PROVE  /\ SumIn(at, c) \in Times /\ Paced(SumIn(at, c)) /\ at[<<LastRow, c>>] \in Times
           /\ \A b \in Nat : SumIn(at, c)[b] = at[<<LastRow, c>>][b] + Delay
<1> DEFINE before == at[<<LastRow, c>>]
           later == SumIn(at, c)
<1>1. before \in Times /\ Paced(before)
  BY Sizes, RowsOnTime DEF Schedule, RowOnTime
<1>2. Delay \in Nat
  BY CellSizes DEF Delay
<1>3. later = [b \in Nat |-> before[b] + Delay]
  BY DEF SumIn
<1> HIDE DEF before, later
<1>4. later \in Times
  BY <1>1, <1>2, <1>3 DEF Times
<1>5. \A b \in Nat : later[b] = before[b] + Delay /\ before[b] \in Nat
  BY <1>1, <1>3 DEF Times
<1>6. Paced(later)
  <2> SUFFICES ASSUME NEW b \in Nat, NEW d \in Nat PROVE later[b + d] >= later[b] + BlockLen * d
    BY DEF Paced
  <2>1. before[b + d] >= before[b] + BlockLen * d
    BY <1>1 DEF Paced
  <2>2. BlockLen * d \in Nat
    BY BlockLenIs
  <2> QED BY <1>2, <1>5, <2>1, <2>2
<1> QED BY <1>1, <1>4, <1>5, <1>6 DEF before, later

\* The next cell is ready for what a cell that is on schedule hands on.
LEMMA ReadyOnTime ==
    ASSUME Fits, NEW sent \in Times, Spread(sent), NEW at, Schedule(sent, at),
           NEW t \in Nat, NEW x, ArrayShows(pe, acc, x, sent, at, t), CellsOK(pe, acc),
           NEW r \in RowNo, NEW c \in ColNo
    PROVE  /\ pe[<<r, c>>].W.P # << >> => W_OutRdy(r, c)
           /\ pe[<<r, c>>].I.P # << >> => I_OutRdy(r, c)
           /\ O_OutRdy(r, c) = TRUE
<1>1. ASSUME NEW i \in RowNo, NEW j \in ColNo
      PROVE  /\ Gives(pe[<<i, j>>], sent, at, i, j, t)
             /\ (\E b \in Nat : WeightIn(sent, i, j)[b] = t + 1) => DataInRdy(pe[<<i, j>>].W)
             /\ (\E b \in Nat : ImageIn(sent, i, j)[b] = t + 1) => DataInRdy(pe[<<i, j>>].I)
             /\ O_DataInRdy(pe[<<i, j>>])
  <2>1. CellOK(pe[<<i, j>>]) /\ CellShows(pe[<<i, j>>], Plan(sent, at, i, j), t)
    BY DEF CellsOK, ArrayShows
  <2> DEFINE cell == pe[<<i, j>>]
  <2> HIDE DEF cell
  <2>2. CellOK(cell) /\ CellShows(cell, Plan(sent, at, i, j), t)
    BY <2>1 DEF cell
  <2>3. Gives(cell, sent, at, i, j, t)
    BY <2>2, CellGives
  <2>4. /\ (\E b \in Nat : WeightIn(sent, i, j)[b] = t + 1) => DataInRdy(cell.W)
        /\ (\E b \in Nat : ImageIn(sent, i, j)[b] = t + 1) => DataInRdy(cell.I)
        /\ O_DataInRdy(cell)
    BY <2>2, CellRoom
  <2> QED BY <2>3, <2>4 DEF cell
<1>2. /\ Shows(pe[<<r, c>>].W.P, Weight(r), WeightIn(sent, r, c), t)
      /\ Shows(pe[<<r, c>>].I.P, Image(r + c), ImageIn(sent, r, c), t)
      /\ WeightIn(sent, r, c) \in Times /\ ImageIn(sent, r, c) \in Times
  BY <1>1 DEF Gives
<1>3. ASSUME pe[<<r, c>>].W.P # << >>, c # LastCol PROVE DataInRdy(pe[<<r, c + 1>>].W)
  <2>1. PICK b \in Nat : WeightIn(sent, r, c)[b] = t
    BY <1>2, <1>3, ShowsSome DEF Nothing
  <2>2. c + 1 \in ColNo /\ c \in Nat
    <3>1. c \in Nat
      BY DEF ColNo
    <3> QED BY <1>3, <3>1, Sizes
  <2>3. WeightIn(sent, r, c + 1)[b] = t + 1
    <3>1. /\ WeightIn(sent, r, c)[b] = sent[Place(1, b, r)] + (1 + c)
          /\ sent[Place(1, b, r)] \in Nat
      BY WordsPaced
    <3>2. WeightIn(sent, r, c + 1)[b] = sent[Place(1, b, r)] + (1 + (c + 1))
      BY DEF WeightIn
    <3> QED BY <2>1, <2>2, <3>1, <3>2
  <2> QED BY <1>1, <2>2, <2>3
<1>4. ASSUME pe[<<r, c>>].I.P # << >>, r # LastRow, c # 0 PROVE DataInRdy(pe[<<r + 1, c - 1>>].I)
  <2>1. PICK b \in Nat : ImageIn(sent, r, c)[b] = t
    BY <1>2, <1>4, ShowsSome DEF Nothing
  <2> DEFINE i == r + 1
             j == c - 1
  <2>2. i \in RowNo /\ j \in ColNo /\ i # 0 /\ j # LastCol /\ i - 1 = r /\ j + 1 = c /\ i + j = r + c
    <3>1. i \in RowNo /\ i # 0 /\ r \in Nat
      <4>1. r \in Nat
        BY DEF RowNo
      <4> QED BY <1>4, <4>1, Sizes
    <3>2. j \in ColNo /\ j # LastCol /\ c \in Nat
      <4>1. c \in Nat
        BY DEF ColNo
      <4>2. c \in ColNo \ {0}
        BY <1>4
      <4> QED BY <4>1, <4>2, Sizes
    <3> QED BY <3>1, <3>2
  <2> HIDE DEF i, j
  <2>3. ImageIn(sent, i, j)[b] = t + 1
    <3>1. /\ ImageIn(sent, r, c)[b] = sent[Place(2, b, r + c)] + (1 + Hops(r, c))
          /\ sent[Place(2, b, r + c)] \in Nat
      BY WordsPaced
    <3>2. ImageIn(sent, i, j)[b] = sent[Place(2, b, r + c)] + (1 + Hops(i, j))
      BY <2>2 DEF ImageIn
    <3>3. Hops(i, j) = Hops(r, c) + 1 /\ Hops(r, c) \in Nat
      BY <2>2, HopsIs
    <3> QED BY <2>1, <3>1, <3>2, <3>3
  <2>4. DataInRdy(pe[<<i, j>>].I)
    BY <1>1, <2>2, <2>3
  <2> QED BY <2>4 DEF i, j
<1>5. O_OutRdy(r, c) = TRUE
  <2>1. CASE r = LastRow
    <3>1. ACC_DataInRdy(acc[c])
      <4>1. SumShows(acc[c], SumIn(at, c), Results(LastRow, c), Sums(c),
                     Share(Before(4, x), Cols, c), t)
        BY DEF ArrayShows
      <4>2. SumIn(at, c) \in Times
        BY SumInIs
      <4> QED BY <4>1, <4>2, FitsIs, SumRoom
    <3>2. O_OutRdy(r, c) = ACC_DataInRdy(acc[c])
      BY <2>1 DEF O_OutRdy
    <3> QED BY <3>1, <3>2 DEF ACC_DataInRdy
  <2>2. CASE r # LastRow
    <3>1. r + 1 \in RowNo
      BY <2>2, Sizes
    <3>2. O_DataInRdy(pe[<<r + 1, c>>])
      BY <1>1, <3>1
    <3>3. O_OutRdy(r, c) = O_DataInRdy(pe[<<r + 1, c>>])
      BY <2>2 DEF O_OutRdy
    <3> QED BY <3>2, <3>3 DEF O_DataInRdy
  <2> QED BY <2>1, <2>2
<1> QED BY <1>3, <1>4, <1>5 DEF W_OutRdy, I_OutRdy

\* A read takes a sum from the accumulator that is addressed, and from no other.
LEMMA SharePopped ==
    ASSUME NEW q \in Nat, NEW read \in BOOLEAN, Output_Read_Address = q % Cols, NEW c \in ColNo,
           NEW valid, valid = ACC_DataOutValid(acc[Output_Read_Address])
    PROVE  /\ Share(q, Cols, c) \in Nat
           /\ Share(q + One(read /\ valid), Cols, c)
                = Share(q, Cols, c) + One(ACC_DataOutValid(acc[c]) /\ ACC_DataOutRdy(c, read))
<1>1. Cols \in Nat \ {0} /\ c \in 0 .. Cols - 1
  BY Sizes DEF ColNo
<1>2. /\ Share(q, Cols, c) \in Nat
      /\ Share(q + 1, Cols, c) = Share(q, Cols, c) + One(q % Cols = c)
  BY <1>1, ShareStep
<1> DEFINE pop == ACC_DataOutValid(acc[c]) /\ ACC_DataOutRdy(c, read)
<1>3. CASE read /\ valid
  <2>1. pop = (q % Cols = c)
    BY <1>3, Zenon DEF ACC_DataOutRdy, ACC_DataOutValid
  <2>2. One(pop) = One(q % Cols = c)
    BY <2>1, Zenon
  <2>3. q + One(read /\ valid) = q + 1
    BY <1>3 DEF One
  <2> HIDE DEF pop
  <2>4. Share(q + One(read /\ valid), Cols, c) = Share(q, Cols, c) + One(pop)
    BY <1>2, <2>2, <2>3
  <2> QED BY <1>2, <2>4 DEF pop
<1>4. CASE ~(read /\ valid)
  <2>1. ~pop
    BY <1>4 DEF ACC_DataOutRdy, ACC_DataOutValid
  <2> HIDE DEF pop
  <2>2. One(pop) = 0 /\ q + One(read /\ valid) = q
    BY <1>4, <2>1 DEF One
  <2>3. Share(q + One(read /\ valid), Cols, c) = Share(q, Cols, c) + One(pop)
    BY <1>2, <2>2
  <2> QED BY <1>2, <2>3 DEF pop
<1> QED BY <1>3, <1>4

\* An array that is on schedule stays so for a clock.
LEMMA ArrayOnTime ==
    ASSUME Fits, CellsOK(pe, acc), NEW sent \in Times, Spread(sent), NEW at, Schedule(sent, at),
           NEW t \in Nat, NEW x, ArrayShows(pe, acc, x, sent, at, t),
           NEW send, IsWire(send[1]), IsWire(send[2]), IsWire(send[3]), Carried(send, sent, t),
           NEW read \in BOOLEAN, Clocked(send, read),
           Before(4, x) \in Nat, Output_Read_Address = Before(4, x) % Cols,
           NEW y, Before(4, y) = Before(4, x) + One(read /\ ACC_DataOutValid(acc[Output_Read_Address]))
    PROVE  ArrayShows(pe', acc', y, sent, at, t + 1)
<1>1. ASSUME NEW r \in RowNo, NEW c \in ColNo
      PROVE  CellShows(pe'[<<r, c>>], Plan(sent, at, r, c), t + 1)
  <2> DEFINE p == Plan(sent, at, r, c)
             in == PEIn(r, c, send)
             cell == pe[<<r, c>>]
  <2>1. pe'[<<r, c>>] = PEClock(cell, in)
    BY DEF Clocked
  <2>2. /\ in.W = W_In(r, c, send) /\ in.I = I_In(r, c, send) /\ in.O = O_In(r, c, send)
        /\ in.WRdy = W_OutRdy(r, c) /\ in.WRdy \in BOOLEAN
        /\ in.IRdy = I_OutRdy(r, c) /\ in.IRdy \in BOOLEAN
        /\ in.ORdy = O_OutRdy(r, c)
    BY WiresAre
  <2>3. /\ p.W = WeightIn(sent, r, c) /\ p.I = ImageIn(sent, r, c) /\ p.O = OutputIn(sent, at, r, c)
        /\ p.w = Weight(r) /\ p.i = Image(r + c)
        /\ p.o = IF r = 0 THEN Output(c) ELSE Results(r - 1, c)
    BY DEF Plan
  <2>4. CellPlan(p)
    BY PlanIs
  <2>5. CellOK(cell) /\ CellShows(cell, p, t) /\ PEBufferSize >= 2
    BY FitsIs DEF CellsOK, ArrayShows
  <2>6. /\ Shows(W_In(r, c, send), Weight(r), WeightIn(sent, r, c), t + 1)
        /\ Shows(I_In(r, c, send), Image(r + c), ImageIn(sent, r, c), t + 1)
        /\ Shows(O_In(r, c, send), IF r = 0 THEN Output(c) ELSE Results(r - 1, c),
                 OutputIn(sent, at, r, c), t + 1)
    BY WiresOnTime
  <2>7. /\ cell.W.P # << >> => W_OutRdy(r, c)
        /\ cell.I.P # << >> => I_OutRdy(r, c)
        /\ O_OutRdy(r, c) = TRUE
    BY ReadyOnTime
  <2> HIDE DEF p, in, cell
  <2>8. Shows(in.W, p.w, p.W, t + 1) /\ Shows(in.I, p.i, p.I, t + 1) /\ Shows(in.O, p.o, p.O, t + 1)
    BY <2>2, <2>3, <2>6
  <2>9. /\ cell.W.P # << >> => in.WRdy
        /\ cell.I.P # << >> => in.IRdy
        /\ in.ORdy = TRUE
    BY <2>2, <2>7, Zenon
  <2>10. CellShows(PEClock(cell, in), p, t + 1)
    BY <2>2, <2>4, <2>5, <2>8, <2>9, CellOnTime
  <2> QED BY <2>1, <2>10 DEF p
<1>2. ASSUME NEW c \in ColNo
      PROVE  SumShows(acc'[c], SumIn(at, c), Results(LastRow, c), Sums(c),
                      Share(Before(4, y), Cols, c), t + 1)
  <2> DEFINE a == acc[c]
             offer == O_DataOut(pe[<<LastRow, c>>])
             rdy == ACC_DataOutRdy(c, read)
             come == SumIn(at, c)
             word == Results(LastRow, c)
             run == Sums(c)
             share == Share(Before(4, x), Cols, c)
             pop == ACC_DataOutValid(a) /\ rdy
  <2>1. acc'[c] = ACCClock(a, offer, rdy)
    BY DEF Clocked
  <2>2. come \in Times /\ Paced(come) /\ Running(word, run)
    BY SumInIs, SumsRun
  <2>3. SumOK(a) /\ SumShows(a, come, word, run, share, t)
    BY DEF CellsOK, ArrayShows
  <2>4. Shows(offer, word, come, t + 1)
    <3> DEFINE before == at[<<LastRow, c>>]
               s == t - MAC_Stages
               cell == pe[<<LastRow, c>>]
    <3>1. before \in Times /\ \A b \in Nat : come[b] = before[b] + Delay
      BY SumInIs
    <3>2. Shows(offer, word, before, s)
      <4>1. CellOK(cell) /\ CellShows(cell, Plan(sent, at, LastRow, c), t) /\ LastRow \in RowNo
        BY Sizes DEF CellsOK, ArrayShows
      <4> HIDE DEF cell
      <4>2. Gives(cell, sent, at, LastRow, c, t)
        BY <4>1, CellGives
      <4> QED BY <4>2 DEF Gives, cell
    <3>3. s \in Int /\ Delay \in Int /\ s + Delay = t + 1
      BY CellSizes DEF Delay
    <3> HIDE DEF before, s, come, word, offer
    <3>4. Shows(offer, word, come, s + Delay)
      BY <3>1, <3>2, <3>3, ShowsLater
    <3> QED BY <3>3, <3>4
  <2>5. share \in Nat /\ Share(Before(4, y), Cols, c) = share + One(pop)
    <3> DEFINE q == Before(4, x)
               valid == ACC_DataOutValid(acc[Output_Read_Address])
    <3>1. q \in Nat /\ Output_Read_Address = q % Cols /\ Before(4, y) = q + One(read /\ valid)
      OBVIOUS
    <3> HIDE DEF q, valid
    <3>2. valid = ACC_DataOutValid(acc[Output_Read_Address])
      BY DEF valid
    <3>3. /\ Share(q, Cols, c) \in Nat
          /\ Share(q + One(read /\ valid), Cols, c)
               = Share(q, Cols, c) + One(ACC_DataOutValid(acc[c]) /\ ACC_DataOutRdy(c, read))
      BY <3>1, <3>2, SharePopped
    <3> QED BY <3>1, <3>3, Zenon DEF q
  <2>6. rdy \in BOOLEAN
    BY DEF ACC_DataOutRdy
  <2> HIDE DEF a, offer, rdy, come, word, run, share
  <2>7. SumShows(ACCClock(a, offer, rdy), come, word, run, share + One(pop), t + 1)
    BY <2>2, <2>3, <2>4, <2>5, <2>6, FitsIs, SumOnTime
  <2> HIDE DEF pop
  <2>8. SumShows(acc'[c], come, word, run, Share(Before(4, y), Cols, c), t + 1)
    BY <2>1, <2>5, <2>7, Zenon
  <2> QED BY <2>8 DEF come, word, run
<1> QED BY <1>1, <1>2 DEF ArrayShows

-----------------------------------------------------------------------------
(***************************************************************************)
(* What the program sends.                                                 *)
(***************************************************************************)
Due(kind, q) == Words3(kind, q % Per(kind))[q \div Per(kind)]
DueAt(kind, q) == Place(kind, q \div Per(kind), q % Per(kind))

\* The slots of a block, and the addresses.
LEMMA SlotsAre ==
    ASSUME NEW kind \in 1 .. 3
    PROVE  /\ Per(kind) \in Nat \ {0} /\ Slots(kind) = 0 .. Per(kind) - 1
           /\ \A x : AddressesOK(x) => Address(kind) = Before(kind, x) % Per(kind)
           /\ \A q \in Nat : /\ q \div Per(kind) \in Nat /\ q % Per(kind) \in Slots(kind)
                             /\ q = Per(kind) * (q \div Per(kind)) + (q % Per(kind))
<1>1. Per(kind) \in Nat \ {0} /\ Slots(kind) = 0 .. Per(kind) - 1
  BY Sizes, ImagesIs DEF Per, Slots, RowNo, ColNo
<1>2. \A x : AddressesOK(x) => Address(kind) = Before(kind, x) % Per(kind)
  BY DEF AddressesOK, Address, Per
<1>3. ASSUME NEW q \in Nat
      PROVE  /\ q \div Per(kind) \in Nat /\ q % Per(kind) \in Slots(kind)
             /\ q = Per(kind) * (q \div Per(kind)) + (q % Per(kind))
  <2> DEFINE d == Per(kind)
  <2>1. d \in Nat \ {0} /\ Slots(kind) = 0 .. d - 1
    BY <1>1
  <2> HIDE DEF d
  <2>2. q \div d \in Nat /\ q % d \in 0 .. d - 1 /\ q = (q \div d) * d + (q % d)
    BY <2>1, DivMod
  <2>3. (q \div d) * d = d * (q \div d)
    BY <2>1, <2>2
  <2> QED BY <2>1, <2>2, <2>3 DEF d
<1> QED BY <1>1, <1>2, <1>3

\* The word that is sent, if any, is on the wire of the cell it is for.
LEMMA SendCarried ==
    ASSUME NEW x \in Here, AddressesOK(x), NEW sent \in Times, NEW t \in Nat, NEW n, NEW send,
           \A k \in 1 .. 3 : k # n => send[k] = Nothing,
           n \in 1 .. 3 => /\ send[n] = <<Due(n, Before(n, x))>>
                           /\ \A i \in Nat : sent[i] = t <=> i = DueAt(n, Before(n, x)),
           n \notin 1 .. 3 => \A i \in Nat : sent[i] # t
    PROVE  Carried(send, sent, t)
<1> SUFFICES ASSUME NEW kind \in 1 .. 3, NEW k \in Slots(kind)
             PROVE  Shows(To(send[kind], Address(kind) = k), Words3(kind, k),
                          Coming(sent, kind, k), t + 1)
  BY DEF Carried
<1> DEFINE wire == To(send[kind], Address(kind) = k)
           coming == Coming(sent, kind, k)
<1>1. \A b \in Nat : Place(kind, b, k) \in Nat /\ sent[Place(kind, b, k)] \in Nat
  BY PlaceIs DEF Times
<1>2. \A b \in Nat : coming[b] = t + 1 <=> sent[Place(kind, b, k)] = t
  BY <1>1 DEF Coming
<1> HIDE DEF coming
<1>3. CASE n = kind /\ Address(kind) = k
  <2> DEFINE q == Before(kind, x)
             b == q \div Per(kind)
  <2>1. q \in Nat
    BY BeforeIs DEF Kinds
  <2>2. b \in Nat /\ q % Per(kind) = k
    BY <1>3, <2>1, SlotsAre
  <2>3. /\ send[kind] = <<Due(kind, q)>>
        /\ \A i \in Nat : sent[i] = t <=> i = DueAt(kind, q)
    BY <1>3
  <2>4. Due(kind, q) = Words3(kind, k)[b] /\ DueAt(kind, q) = Place(kind, b, k)
    BY <2>2 DEF Due, DueAt
  <2>5. wire = <<Words3(kind, k)[b]>>
    BY <1>3, <2>3, <2>4 DEF To
  <2> HIDE DEF q, b, wire
  <2>6. coming[b] = t + 1
    BY <1>1, <1>2, <2>2, <2>3, <2>4
  <2>7. ASSUME NEW d \in Nat, coming[d] = t + 1 PROVE d = b
    <3>1. Place(kind, d, k) = Place(kind, b, k)
      BY <1>1, <1>2, <2>3, <2>4, <2>7
    <3> QED BY <2>2, <3>1, PlaceOnce
  <2>8. Shows(wire, Words3(kind, k), coming, t + 1)
    BY <2>2, <2>5, <2>6, <2>7 DEF Shows
  <2> QED BY <2>8 DEF wire, coming
<1>4. CASE ~(n = kind /\ Address(kind) = k)
  <2>1. wire = Nothing
    BY <1>4 DEF To
  <2>2. ASSUME NEW d \in Nat, coming[d] = t + 1 PROVE FALSE
    <3>1. sent[Place(kind, d, k)] = t /\ Place(kind, d, k) \in Nat
      BY <1>1, <1>2, <2>2
    <3>2. n \in 1 .. 3
      BY <3>1
    <3> DEFINE q == Before(n, x)
               b == q \div Per(n)
               l == q % Per(n)
    <3>3. Place(kind, d, k) = Place(n, b, l)
      BY <3>1, <3>2 DEF DueAt
    <3>4. q \in Nat
      BY <3>2, BeforeIs DEF Kinds
    <3>5. b \in Nat /\ l \in Slots(n)
      BY <3>2, <3>4, SlotsAre
    <3>6. Address(n) = l
      BY <3>2, SlotsAre
    <3> HIDE DEF q, b, l
    <3>7. kind = n /\ k = l
      BY <3>2, <3>3, <3>5, PlaceOnce
    <3> QED BY <1>4, <3>6, <3>7
  <2> HIDE DEF wire
  <2>3. Shows(wire, Words3(kind, k), coming, t + 1)
    BY <2>1, <2>2 DEF Shows
  <2> QED BY <2>3 DEF wire, coming
<1> QED BY <1>3, <1>4

\* Which word of a stream a word of a block is.
LEMMA DueIs ==
    ASSUME NEW q \in Nat
    PROVE  /\ Due(1, q) = Tile_Weight(WeightAt(q))
           /\ Due(2, q) = Tile_Img2Col(ImageAt(q))
           /\ Due(3, q) = OutputWord(OutputAt(q))
<1>1. /\ Per(1) = Rows /\ Per(2) = Images /\ Per(3) = Cols
      /\ \A k : Words3(1, k) = Weight(k) /\ Words3(2, k) = Image(k) /\ Words3(3, k) = Output(k)
  BY DEF Per, Words3
<1>2. /\ q \div Rows \in Nat /\ q = Rows * (q \div Rows) + (q % Rows)
      /\ q \div Images \in Nat /\ q = Images * (q \div Images) + (q % Images)
      /\ q \div Cols \in Nat /\ q = Cols * (q \div Cols) + (q % Cols)
  <2>1. 1 \in 1 .. 3 /\ 2 \in 1 .. 3 /\ 3 \in 1 .. 3
    OBVIOUS
  <2> QED BY <1>1, <2>1, SlotsAre
<1>3. Due(1, q) = Tile_Weight(WeightAt(q))
  <2> DEFINE b == q \div Rows
             k == q % Rows
  <2>1. Due(1, q) = Weight(k)[b]
    BY <1>1 DEF Due
  <2>2. b \in Nat /\ Rows * b + k = q
    BY <1>2
  <2> HIDE DEF b, k
  <2>3. Weight(k)[b] = Tile_Weight(WeightAt(Rows * b + k))
    BY <2>2 DEF Weight
  <2> QED BY <2>1, <2>2, <2>3
<1>4. Due(2, q) = Tile_Img2Col(ImageAt(q))
  <2> DEFINE b == q \div Images
             k == q % Images
  <2>1. Due(2, q) = Image(k)[b]
    BY <1>1 DEF Due
  <2>2. b \in Nat /\ Images * b + k = q
    BY <1>2
  <2> HIDE DEF b, k
  <2>3. Image(k)[b] = Tile_Img2Col(ImageAt(Images * b + k))
    BY <2>2 DEF Image
  <2> QED BY <2>1, <2>2, <2>3
<1>5. Due(3, q) = OutputWord(OutputAt(q))
  <2> DEFINE b == q \div Cols
             k == q % Cols
  <2>1. Due(3, q) = Output(k)[b]
    BY <1>1 DEF Due
  <2>2. b \in Nat /\ Cols * b + k = q
    BY <1>2
  <2> HIDE DEF b, k
  <2>3. Output(k)[b] = OutputWord(OutputAt(Cols * b + k))
    BY <2>2 DEF Output
  <2> QED BY <2>1, <2>2, <2>3
<1> QED BY <1>3, <1>4, <1>5

-----------------------------------------------------------------------------
(***************************************************************************)
(* After a reset nothing is due.                                           *)
(***************************************************************************)
\* A buffer that as many words have left as came is empty.
LEMMA NoSlice == ASSUME NEW word, NEW lo \in Nat PROVE Slice(word, lo, lo) = << >>
<1>1. lo <= lo /\ ~(lo < lo)
  OBVIOUS
<1> QED BY <1>1, SliceIs

\* Nothing waits before the first word comes.
LEMMA NothingWaits ==
    ASSUME NEW come \in Times, NEW gone \in Times, \A b \in Nat : come[b] >= 1, NEW word
    PROVE  Waits(<< >>, word, come, gone, 0) /\ Shows(<< >>, word, come, 0)
<1>1. \A b \in Nat : come[b] \in Nat /\ gone[b] \in Nat
  BY DEF Times
<1>2. Past(gone, 0, 0) /\ Past(come, 0 + 1, 0)
  BY <1>1 DEF Past
<1>3. Slice(word, 0, 0) = << >>
  BY NoSlice
<1>4. Waits(<< >>, word, come, gone, 0)
  BY <1>2, <1>3 DEF Waits
<1>5. \A b \in Nat : come[b] # 0
  BY <1>1
<1>6. Shows(<< >>, word, come, 0)
  BY <1>5 DEF Shows, Nothing
<1> QED BY <1>4, <1>6

\* An empty pipeline shows nothing of what is yet to come.
LEMMA NothingShown ==
    ASSUME NEW at \in Times, NEW word, NEW stages \in Nat, NEW k \in 1 .. stages
    PROVE  Shows(Pipe(stages)[k], word, at, 0 - k)
<1>1. \A b \in Nat : at[b] # 0 - k
  BY DEF Times
<1>2. Pipe(stages)[k] = Nothing
  BY DEF Pipe
<1> QED BY <1>1, <1>2 DEF Shows

\* The program's sends take a clock at least to get to a cell.
LEMMA PlanLater ==
    ASSUME Fits, NEW sent \in Times, Spread(sent), NEW at, Schedule(sent, at),
           NEW r \in RowNo, NEW c \in ColNo, NEW b \in Nat
    PROVE  /\ WeightIn(sent, r, c)[b] >= 1 /\ ImageIn(sent, r, c)[b] >= 1
           /\ OutputIn(sent, at, r, c)[b] >= 1 /\ at[<<r, c>>][b] >= 1
<1>1. /\ WeightIn(sent, r, c)[b] = sent[Place(1, b, r)] + (1 + c) /\ sent[Place(1, b, r)] \in Nat
      /\ ImageIn(sent, r, c)[b] = sent[Place(2, b, r + c)] + (1 + Hops(r, c))
      /\ sent[Place(2, b, r + c)] \in Nat
  BY WordsPaced
<1>2. c \in Nat /\ Hops(r, c) \in Nat
  BY HopsIs DEF ColNo
<1>3. WeightIn(sent, r, c)[b] >= 1 /\ ImageIn(sent, r, c)[b] >= 1
  BY <1>1, <1>2
<1>4. at[<<r, c>>] \in Times
  BY DEF Schedule
<1>5. WeightIn(sent, r, c)[b] <= at[<<r, c>>][b]
  BY CellTimes
<1>6. WeightIn(sent, r, c)[b] \in Nat /\ at[<<r, c>>][b] \in Nat
  BY <1>1, <1>2, <1>4 DEF Times
<1>7. OutputIn(sent, at, r, c)[b] >= 1
  <2>1. CASE r = 0
    <3>1. OutputIn(sent, at, r, c)[b] = sent[Place(3, b, c)] + 1
      BY <2>1 DEF OutputIn
    <3>2. 3 \in 1 .. 3 /\ c \in Slots(3)
      BY DEF Slots
    <3>3. sent[Place(3, b, c)] \in Nat
      BY <3>2, PlaceIs DEF Times
    <3> QED BY <3>1, <3>3
  <2>2. CASE r # 0
    <3>1. OutputIn(sent, at, r, c)[b] = at[<<r - 1, c>>][b] + Delay
      BY <2>2 DEF OutputIn
    <3>2. at[<<r - 1, c>>] \in Times
      BY <2>2, Sizes DEF Schedule
    <3>3. at[<<r - 1, c>>][b] \in Nat /\ Delay \in Nat /\ Delay >= 1
      BY <3>2, CellSizes DEF Times, Delay
    <3> QED BY <3>1, <3>3
  <2> QED BY <2>1, <2>2
<1> QED BY <1>3, <1>5, <1>6, <1>7

\* So the reset array is on schedule.
LEMMA ResetShows ==
    ASSUME Fits, NEW sent \in Times, Spread(sent), NEW at, Schedule(sent, at),
           NEW cells, \A r \in RowNo, c \in ColNo : cells[<<r, c>>] = PEReset,
           NEW sums, \A c \in ColNo : sums[c] = ACCReset
    PROVE  ArrayShows(cells, sums, 1, sent, at, 0)
<1>1. ASSUME NEW r \in RowNo, NEW c \in ColNo
      PROVE  CellShows(cells[<<r, c>>], Plan(sent, at, r, c), 0)
  <2> DEFINE p == Plan(sent, at, r, c)
             cell == cells[<<r, c>>]
  <2>1. /\ p.W = WeightIn(sent, r, c) /\ p.I = ImageIn(sent, r, c)
        /\ p.O = OutputIn(sent, at, r, c) /\ p.at = at[<<r, c>>]
    BY DEF Plan
  <2>2. CellPlan(p)
    BY PlanIs
  <2>3. \A b \in Nat : /\ WeightIn(sent, r, c)[b] >= 1 /\ ImageIn(sent, r, c)[b] >= 1
                       /\ OutputIn(sent, at, r, c)[b] >= 1 /\ at[<<r, c>>][b] >= 1
    BY PlanLater
  <2>4. /\ cell.W.P = << >> /\ cell.W.M = << >> /\ cell.I.P = << >> /\ cell.I.M = << >>
        /\ cell.O = << >> /\ cell.MAC = Pipe(MAC_Stages)
    BY DEF PEReset, SideReset
  <2> HIDE DEF p, cell
  <2>5. /\ p.W \in Times /\ p.I \in Times /\ p.O \in Times /\ p.at \in Times
        /\ \A b \in Nat : p.W[b] >= 1 /\ p.I[b] >= 1 /\ p.O[b] >= 1
    BY <2>1, <2>2, <2>3 DEF CellPlan
  <2>6. /\ Waits(<< >>, p.w, p.W, p.at, 0) /\ Shows(<< >>, p.w, p.W, 0)
        /\ Waits(<< >>, p.i, p.I, p.at, 0) /\ Shows(<< >>, p.i, p.I, 0)
        /\ Waits(<< >>, p.o, p.O, p.at, 0)
    BY <2>5, NothingWaits
  <2>7. ASSUME NEW k \in 1 .. MAC_Stages PROVE Shows(Pipe(MAC_Stages)[k], p.v, p.at, 0 - k)
    BY <2>5, NothingShown, CellSizes
  <2>8. CellShows(cell, p, 0)
    BY <2>4, <2>6, <2>7 DEF CellShows, SideShows
  <2> QED BY <2>8 DEF p, cell
<1>2. ASSUME NEW c \in ColNo
      PROVE  SumShows(sums[c], SumIn(at, c), Results(LastRow, c), Sums(c),
                      Share(Before(4, 1), Cols, c), 0)
  <2> DEFINE a == sums[c]
             come == SumIn(at, c)
             word == Results(LastRow, c)
             run == Sums(c)
  <2>1. /\ a.Ready = << >> /\ a.Out = << >> /\ a.Partials = Pipe(ADD_Stages)
        /\ a.Sums = Pipe(ADD_Stages) /\ a.Counter = 0 /\ a.Busy = FALSE
    BY DEF ACCReset
  <2>2. come \in Times /\ Paced(come) /\ \A b \in Nat : come[b] >= 1
    <3>1. /\ come \in Times /\ Paced(come) /\ at[<<LastRow, c>>] \in Times
          /\ \A b \in Nat : come[b] = at[<<LastRow, c>>][b] + Delay
      BY SumInIs
    <3>2. Delay \in Nat /\ Delay >= 1
      BY CellSizes DEF Delay
    <3> HIDE DEF come
    <3>3. \A b \in Nat : at[<<LastRow, c>>][b] \in Nat
      BY <3>1 DEF Times
    <3> QED BY <3>1, <3>2, <3>3
  <2>3. Share(Before(4, 1), Cols, c) = 0
    <3>1. Before(4, 1) = 0
      BY BeforeIs DEF Kinds
    <3>2. Share(0, Cols, c) = 0
      BY ShareNone, Sizes DEF ColNo
    <3> QED BY <3>1, <3>2
  <2> HIDE DEF a, come, word, run
  <2>4. Shows(<< >>, word, come, 0)
    BY <2>2, NothingWaits
  <2>5. Past(come, 0, 0) /\ AdderShows(a, come, run, 0, 0)
    <3>1. Past(come, 0, 0)
      BY <2>2 DEF Past, Times
    <3>2. 0 % NOPCount = 0
      <4>1. NOPCount \in Nat \ {0} /\ 0 \in 0 .. NOPCount - 1
        BY CellSizes
      <4> QED BY <4>1, ShareNone
    <3>3. Adding(come, 0, 0) = FALSE
      BY <3>2 DEF Adding
    <3>4. a.Partials = [k \in 1 .. ADD_Stages |->
                          IF Adding(come, 0, 0) /\ k = 0 - come[0 - 1] THEN <<run[0 - 1]>>
                                                                       ELSE Nothing]
      BY <2>1, <3>3 DEF Pipe
    <3> QED BY <2>1, <3>1, <3>2, <3>3, <3>4 DEF AdderShows
  <2>6. /\ Closed(come) \in Times /\ Summed(come) \in Times
        /\ \A g \in Nat : Summed(come)[g] >= 1
    <3>1. Closed(come) \in Times /\ Summed(come) \in Times
      BY <2>2, ClosedPaced
    <3>2. \A g \in Nat : Summed(come)[g] = Closed(come)[g] + (ADD_Stages + 1) /\ Closed(come)[g] \in Nat
      BY <3>1 DEF Summed, Times
    <3> QED BY <3>1, <3>2, CellSizes
  <2>7. ASSUME NEW k \in 1 .. ADD_Stages
        PROVE  Shows(a.Sums[k], GroupSums(run), Closed(come), 0 - k)
    BY <2>1, <2>6, NothingShown, CellSizes
  <2>8. Past(Summed(come), 0 + 1, 0) /\ a.Out = Slice(GroupSums(run), 0, 0)
    <3>1. Past(Summed(come), 0 + 1, 0)
      BY <2>6 DEF Past, Times
    <3> QED BY <2>1, <3>1, NoSlice
  <2>9. SumShows(a, come, word, run, 0, 0)
    BY <2>1, <2>4, <2>5, <2>7, <2>8 DEF SumShows
  <2> QED BY <2>3, <2>9 DEF a, come, word, run
<1> QED BY <1>1, <1>2 DEF ArrayShows

-----------------------------------------------------------------------------
(***************************************************************************)
(* A run of the program since the last reset.  h[i] is the clock at which  *)
(* send i was executed, for the first m sends; the others follow without a *)
(* pause.  Whenever they come instead, the array is on schedule.           *)
(***************************************************************************)
History(h, m, t) == h \in Times /\ Spread(h) /\ \A d \in Nat : h[m + d] = t + d

Follows(sent, h, m, t) ==
    /\ sent \in Times /\ Spread(sent)
    /\ \A i \in Nat : i < m => sent[i] = h[i]
    /\ \A i \in Nat : i >= m => sent[i] >= t

\* A history says when the sends were executed; a send at t is the next one.
LEMMA HistoryIs ==
    ASSUME NEW m \in Nat, NEW t \in Nat, NEW h, History(h, m, t)
    PROVE  /\ \A i \in Nat : h[i] \in Nat /\ (i < m => h[i] < t) /\ (i >= m => h[i] >= t)
           /\ h[m] = t /\ Follows(h, h, m, t) /\ History(h, m + 1, t + 1)
<1>1. h \in Times /\ Spread(h) /\ \A d \in Nat : h[m + d] = t + d
  BY DEF History
<1>2. h[m] = t
  <2>1. 0 \in Nat /\ m + 0 = m /\ t + 0 = t
    OBVIOUS
  <2> QED BY <1>1, <2>1
<1>3. \A i \in Nat : h[i] \in Nat
  BY <1>1 DEF Times
<1>4. ASSUME NEW i \in Nat PROVE (i < m => h[i] < t) /\ (i >= m => h[i] >= t)
  <2>1. ASSUME i < m PROVE h[i] < t
    <3>1. h[m] >= h[i] + (m - i)
      BY <1>1, <2>1, SpreadIs
    <3> QED BY <1>2, <1>3, <2>1, <3>1
  <2>2. ASSUME i >= m PROVE h[i] >= t
    <3>1. m <= i
      BY <2>2
    <3>2. h[i] >= h[m] + (i - m)
      BY <1>1, <3>1, SpreadIs
    <3> QED BY <1>2, <1>3, <3>1, <3>2
  <2> QED BY <2>1, <2>2
<1>5. Follows(h, h, m, t)
  BY <1>1, <1>4 DEF Follows
<1>6. History(h, m + 1, t + 1)
  <2>1. ASSUME NEW d \in Nat PROVE h[m + 1 + d] = t + 1 + d
    <3>1. d + 1 \in Nat /\ m + (d + 1) = m + 1 + d /\ t + (d + 1) = t + 1 + d
      OBVIOUS
    <3> QED BY <1>1, <3>1
  <2> QED BY <1>1, <2>1 DEF History
<1> QED BY <1>2, <1>3, <1>4, <1>5, <1>6

\* After a send.
LEMMA HistorySends ==
    ASSUME NEW m \in Nat, NEW t \in Nat, NEW h, History(h, m, t),
           NEW sent, Follows(sent, h, m + 1, t + 1)
    PROVE  Follows(sent, h, m, t) /\ \A i \in Nat : sent[i] = t <=> i = m
<1>1. /\ \A i \in Nat : h[i] \in Nat /\ (i < m => h[i] < t) /\ (i >= m => h[i] >= t)
      /\ h[m] = t
  BY HistoryIs
<1>2. /\ sent \in Times /\ Spread(sent)
      /\ \A i \in Nat : i < m + 1 => sent[i] = h[i]
      /\ \A i \in Nat : i >= m + 1 => sent[i] >= t + 1
  BY DEF Follows
<1>3. \A i \in Nat : sent[i] \in Nat
  BY <1>2 DEF Times
<1>4. sent[m] = t
  BY <1>1, <1>2
<1>5. ASSUME NEW i \in Nat
      PROVE  (i < m => sent[i] = h[i]) /\ (i >= m => sent[i] >= t) /\ (sent[i] = t <=> i = m)
  <2>1. CASE i < m
    BY <1>1, <1>2, <2>1
  <2>2. CASE i = m
    BY <1>4, <2>2
  <2>3. CASE i > m
    <3>1. i >= m + 1
      BY <2>3
    <3>2. sent[i] >= t + 1
      BY <1>2, <3>1
    <3> QED BY <1>3, <2>3, <3>2
  <2> QED BY <2>1, <2>2, <2>3
<1> QED BY <1>2, <1>5 DEF Follows

\* After a clock without a send.
LEMMA HistoryPauses ==
    ASSUME NEW m \in Nat, NEW t \in Nat, NEW h, History(h, m, t)
    PROVE  \E later : /\ History(later, m, t + 1)
                      /\ \A sent : Follows(sent, later, m, t + 1) =>
                            Follows(sent, h, m, t) /\ \A i \in Nat : sent[i] # t
<1> DEFINE later == [i \in Nat |-> IF i < m THEN h[i] ELSE h[i] + 1]
<1>1. /\ \A i \in Nat : h[i] \in Nat /\ (i < m => h[i] < t) /\ (i >= m => h[i] >= t)
      /\ Spread(h) /\ \A d \in Nat : h[m + d] = t + d
  BY HistoryIs DEF History
<1>2. \A i \in Nat : later[i] = IF i < m THEN h[i] ELSE h[i] + 1
  OBVIOUS
<1>3. later \in Times
  BY <1>1 DEF Times
<1> HIDE DEF later
<1>4. Spread(later)
  <2> SUFFICES ASSUME NEW q \in Nat, NEW d \in Nat PROVE later[q + d] >= later[q] + d
    BY DEF Spread
  <2>1. h[q + d] >= h[q] + d /\ q + d \in Nat
    <3>1. Spread(h)
      BY <1>1
    <3>2. h[q + d] >= h[q] + d
      BY <3>1 DEF Spread
    <3> QED BY <3>2
  <2>2. q + d < m => q < m
    OBVIOUS
  <2>3. later[q + d] = (IF q + d < m THEN h[q + d] ELSE h[q + d] + 1) /\ later[q] = (IF q < m THEN h[q] ELSE h[q] + 1)
    BY <1>2, <2>1
  <2>4. h[q + d] \in Nat /\ h[q] \in Nat
    BY <1>1, <2>1
  <2> QED BY <2>1, <2>2, <2>3, <2>4
<1>5. ASSUME NEW d \in Nat PROVE later[m + d] = t + 1 + d
  <2>1. m + d \in Nat /\ ~(m + d < m)
    OBVIOUS
  <2>2. later[m + d] = h[m + d] + 1 /\ h[m + d] = t + d
    BY <1>1, <1>2, <2>1
  <2> QED BY <2>2
<1>6. History(later, m, t + 1)
  BY <1>3, <1>4, <1>5 DEF History
<1>7. ASSUME NEW sent, Follows(sent, later, m, t + 1)
      PROVE  Follows(sent, h, m, t) /\ \A i \in Nat : sent[i] # t
  <2>1. /\ sent \in Times /\ Spread(sent)
        /\ \A i \in Nat : i < m => sent[i] = later[i]
        /\ \A i \in Nat : i >= m => sent[i] >= t + 1
    BY <1>7 DEF Follows
  <2>2. \A i \in Nat : sent[i] \in Nat
    BY <2>1 DEF Times
  <2>3. ASSUME NEW i \in Nat
        PROVE  (i < m => sent[i] = h[i]) /\ (i >= m => sent[i] >= t) /\ sent[i] # t
    <3>1. CASE i < m
      BY <1>1, <1>2, <2>1, <3>1
    <3>2. CASE i >= m
      BY <2>1, <2>2, <3>2
    <3> QED BY <3>1, <3>2
  <2> QED BY <2>1, <2>3 DEF Follows
<1> QED BY <1>6, <1>7

\* How many sends come before the instruction at x.
SentBefore(x) == Before(1, x) + Before(2, x) + Before(3, x)

OnTime(cells, sums, x, h, t) ==
    /\ History(h, SentBefore(x), t)
    /\ \A sent, at : Follows(sent, h, SentBefore(x), t) /\ Schedule(sent, at) =>
          ArrayShows(cells, sums, x, sent, at, t)

LEMMA SentBeforeIs == ASSUME NEW x \in Here PROVE SentBefore(x) \in Nat
<1>1. Before(1, x) \in Nat /\ Before(2, x) \in Nat /\ Before(3, x) \in Nat
  BY BeforeIs DEF Kinds
<1> QED BY <1>1 DEF SentBefore

\* What a run that is on time shows: the schedule of its history.
LEMMA OnTimeIs ==
    ASSUME NEW x \in Here, NEW t \in Nat, NEW h, NEW cells, NEW sums, OnTime(cells, sums, x, h, t)
    PROVE  /\ h \in Times /\ Spread(h) /\ h[SentBefore(x)] = t
           /\ \E at : Schedule(h, at) /\ ArrayShows(cells, sums, x, h, at, t)
<1>1. SentBefore(x) \in Nat /\ History(h, SentBefore(x), t)
  BY SentBeforeIs DEF OnTime
<1>2. h[SentBefore(x)] = t /\ Follows(h, h, SentBefore(x), t)
  BY <1>1, HistoryIs
<1>3. h \in Times /\ Spread(h)
  BY <1>1 DEF History
<1>4. PICK at : Schedule(h, at)
  BY <1>3, ScheduleExists
<1> QED BY <1>2, <1>3, <1>4 DEF OnTime

\* A reset array is on time.
LEMMA OnTimeReset ==
    ASSUME Fits, NEW cells, \A r \in RowNo, c \in ColNo : cells[<<r, c>>] = PEReset,
           NEW sums, \A c \in ColNo : sums[c] = ACCReset
    PROVE  \E t \in Nat : \E h : OnTime(cells, sums, 1, h, t)
<1> DEFINE h == [i \in Nat |-> i]
<1>1. SentBefore(1) = 0
  BY BeforeIs DEF Kinds, SentBefore
<1>2. History(h, 0, 0)
  <2>1. \A i \in Nat : h[i] = i
    OBVIOUS
  <2>2. h \in Times
    BY DEF Times
  <2> HIDE DEF h
  <2>3. Spread(h)
    BY <2>1 DEF Spread
  <2>4. \A d \in Nat : h[0 + d] = 0 + d
    BY <2>1
  <2> QED BY <2>2, <2>3, <2>4 DEF History
<1>3. ASSUME NEW sent, NEW at, Follows(sent, h, 0, 0), Schedule(sent, at)
      PROVE  ArrayShows(cells, sums, 1, sent, at, 0)
  <2>1. sent \in Times /\ Spread(sent)
    BY <1>3 DEF Follows
  <2> QED BY <1>3, <2>1, ResetShows
<1>4. OnTime(cells, sums, 1, h, 0)
  <2> HIDE DEF h
  <2> QED BY <1>1, <1>2, <1>3 DEF OnTime
<1> QED BY <1>4

\* An array that is on time stays so.
LEMMA OnTimeStep ==
    ASSUME Fits, ArrayInv, NEW t \in Nat, NEW h, OnTime(pe, acc, pc, h, t),
           Output_Read_Address = Before(4, pc) % Cols,
           NEW n \in 0 .. 4, NEW start \in BOOLEAN, NEW word, Clock(n, start, word), pc' \in Here,
           \A k \in 1 .. 3 : Before(k, pc') = Before(k, pc) + One(n = k /\ start),
           Before(4, pc') = Before(4, pc)
                              + One(n = 4 /\ ACC_DataOutValid(acc[Output_Read_Address])),
           n \in 1 .. 3 /\ start => /\ word = Due(n, Before(n, pc))
                                    /\ SentBefore(pc) = DueAt(n, Before(n, pc))
    PROVE  \E later : OnTime(pe', acc', pc', later, t + 1)
<1> DEFINE send == Sending(n, start, word)
           read == n = 4
           m == SentBefore(pc)
           y == pc'
           sends == n \in 1 .. 3 /\ start
<1>1. pc \in Here /\ CellsOK(pe, acc) /\ AddressesOK(pc)
  BY DEF ArrayInv
<1>2. Clocked(send, read) /\ \A k \in 1 .. 3 : IsWire(send[k])
  BY ClockIs
<1>3. /\ Before(1, pc) \in Nat /\ Before(2, pc) \in Nat /\ Before(3, pc) \in Nat
      /\ Before(4, pc) \in Nat /\ m \in Nat
  BY <1>1, BeforeIs, SentBeforeIs DEF Kinds
<1>4. IsWire(send[1]) /\ IsWire(send[2]) /\ IsWire(send[3]) /\ read \in BOOLEAN
  BY <1>2
<1>5. History(h, m, t)
  BY DEF OnTime
<1>6. ASSUME NEW sent, NEW at, Follows(sent, h, m, t), Schedule(sent, at), Carried(send, sent, t)
      PROVE  ArrayShows(pe', acc', y, sent, at, t + 1)
  <2>1. sent \in Times /\ Spread(sent)
    BY <1>6 DEF Follows
  <2>2. ArrayShows(pe, acc, pc, sent, at, t)
    BY <1>6 DEF OnTime
  <2>3. Before(4, y) = Before(4, pc) + One(read /\ ACC_DataOutValid(acc[Output_Read_Address]))
    OBVIOUS
  <2> HIDE DEF send, read, y, m
  <2> QED BY <1>1, <1>2, <1>3, <1>4, <1>6, <2>1, <2>2, <2>3, ArrayOnTime
<1>7. CASE sends
  <2>1. SentBefore(y) = m + 1
    <3>1. /\ Before(1, y) = Before(1, pc) + One(n = 1 /\ start)
          /\ Before(2, y) = Before(2, pc) + One(n = 2 /\ start)
          /\ Before(3, y) = Before(3, pc) + One(n = 3 /\ start)
      OBVIOUS
    <3>2. One(n = 1 /\ start) + One(n = 2 /\ start) + One(n = 3 /\ start) = 1
      BY <1>7 DEF One
    <3>3. /\ One(n = 1 /\ start) \in Nat /\ One(n = 2 /\ start) \in Nat /\ One(n = 3 /\ start) \in Nat
      BY DEF One
    <3> DEFINE a == One(n = 1 /\ start)
               b == One(n = 2 /\ start)
               c == One(n = 3 /\ start)
    <3> HIDE DEF a, b, c, y
    <3>4. /\ Before(1, y) = Before(1, pc) + a /\ Before(2, y) = Before(2, pc) + b
          /\ Before(3, y) = Before(3, pc) + c /\ a + b + c = 1
          /\ a \in Nat /\ b \in Nat /\ c \in Nat
      BY <3>1, <3>2, <3>3 DEF a, b, c
    <3> QED BY <1>3, <3>4 DEF SentBefore
  <2>2. \A k \in 1 .. 3 : k # n => send[k] = Nothing
    BY DEF Sending, To
  <2>3. send[n] = <<Due(n, Before(n, pc))>> /\ m = DueAt(n, Before(n, pc)) /\ n \in 1 .. 3
    BY <1>7 DEF Sending, To
  <2>4. History(h, m + 1, t + 1)
    BY <1>3, <1>5, HistoryIs
  <2> HIDE DEF send, m, y, read
  <2>5. ASSUME NEW sent, NEW at, Follows(sent, h, m + 1, t + 1), Schedule(sent, at)
        PROVE  ArrayShows(pe', acc', y, sent, at, t + 1)
    <3>1. Follows(sent, h, m, t) /\ \A i \in Nat : sent[i] = t <=> i = m
      BY <1>3, <1>5, <2>5, HistorySends
    <3>2. \A i \in Nat : sent[i] = t <=> i = DueAt(n, Before(n, pc))
      BY <2>3, <3>1
    <3>3. sent \in Times
      BY <3>1 DEF Follows
    <3>4. Carried(send, sent, t)
      BY <1>1, <2>2, <2>3, <3>2, <3>3, SendCarried
    <3> QED BY <1>6, <2>5, <3>1, <3>4
  <2>6. OnTime(pe', acc', y, h, t + 1)
    BY <2>1, <2>4, <2>5 DEF OnTime
  <2> QED BY <2>6 DEF y
<1>8. CASE ~sends
  <2>1. SentBefore(y) = m
    <3>1. /\ One(n = 1 /\ start) = 0 /\ One(n = 2 /\ start) = 0 /\ One(n = 3 /\ start) = 0
      BY <1>8 DEF One
    <3>2. Before(1, y) = Before(1, pc) /\ Before(2, y) = Before(2, pc) /\ Before(3, y) = Before(3, pc)
      BY <1>3, <3>1
    <3> QED BY <3>2 DEF SentBefore
  <2>2. \A k \in 1 .. 3 : send[k] = Nothing
    BY <1>8 DEF Sending, To
  <2>3. PICK later : /\ History(later, m, t + 1)
                     /\ \A sent : Follows(sent, later, m, t + 1) =>
                           Follows(sent, h, m, t) /\ \A i \in Nat : sent[i] # t
    BY <1>3, <1>5, HistoryPauses
  <2> HIDE DEF send, m, y, read
  <2>4. ASSUME NEW sent, NEW at, Follows(sent, later, m, t + 1), Schedule(sent, at)
        PROVE  ArrayShows(pe', acc', y, sent, at, t + 1)
    <3>1. Follows(sent, h, m, t) /\ \A i \in Nat : sent[i] # t
      BY <2>3, <2>4
    <3>2. sent \in Times
      BY <3>1 DEF Follows
    <3>3. Carried(send, sent, t)
      <4> DEFINE none == 0
      <4>1. none \notin 1 .. 3
        OBVIOUS
      <4> HIDE DEF none
      <4> QED BY <1>1, <2>2, <3>1, <3>2, <4>1, SendCarried
    <3> QED BY <1>6, <2>4, <3>1, <3>3
  <2>5. OnTime(pe', acc', y, later, t + 1)
    BY <2>1, <2>3, <2>4 DEF OnTime
  <2> QED BY <2>5 DEF y
<1> QED BY <1>7, <1>8

-----------------------------------------------------------------------------
(***************************************************************************)
(* What the program reads.                                                 *)
(***************************************************************************)
\* An accumulator on schedule has a sum when the next group is summed up.
LEMMA SumValid ==
    ASSUME NEW a, NEW come, NEW word, NEW run, NEW read \in Nat, NEW t \in Nat,
           SumShows(a, come, word, run, read, t)
    PROVE  /\ ACC_DataOutValid(a) <=> Summed(come)[read] < t + 1
           /\ ACC_DataOutValid(a) => ACC_DataOut(a) = <<GroupSums(run)[read]>>
<1>1. PICK hi \in Nat : /\ Past(Summed(come), t + 1, hi) /\ read <= hi
                        /\ a.Out = Slice(GroupSums(run), read, hi)
  BY DEF SumShows
<1>2. read < hi <=> Summed(come)[read] < t + 1
  BY <1>1 DEF Past
<1> DEFINE sums == GroupSums(run)
<1> HIDE DEF sums
<1>3. a.Out = Slice(sums, read, hi)
  BY <1>1 DEF sums
<1>4. /\ IsQueue(Slice(sums, read, hi))
      /\ Slice(sums, read, hi) # << >> <=> read < hi
      /\ read < hi => Head(Slice(sums, read, hi)) = sums[read]
  BY <1>1, SliceIs
<1>5. ACC_DataOutValid(a) <=> read < hi
  BY <1>3, <1>4 DEF ACC_DataOutValid
<1>6. ACC_DataOutValid(a) => ACC_DataOut(a) = <<sums[read]>>
  BY <1>3, <1>4, <1>5 DEF ACC_DataOut, ACC_DataOutValid, Head1
<1> QED BY <1>2, <1>5, <1>6 DEF sums

\* The sums come in the order of the groups, and of the columns in a group.
LEMMA SumsInOrder ==
    ASSUME NEW sent \in Times, Spread(sent), NEW at, Schedule(sent, at),
           NEW c \in ColNo, NEW d \in ColNo, NEW g \in Nat, NEW j \in Nat,
           (g = j /\ c <= d) \/ (g < j /\ d <= c)
    PROVE  Summed(SumIn(at, c))[g] <= Summed(SumIn(at, d))[j]
<1> DEFINE x == SumIn(at, c)
           y == SumIn(at, d)
           a == LastOf(g)
           b == LastOf(j)
<1>1. /\ x \in Times /\ at[<<LastRow, c>>] \in Times
      /\ \A k \in Nat : x[k] = at[<<LastRow, c>>][k] + Delay
  BY SumInIs
<1>2. /\ y \in Times /\ at[<<LastRow, d>>] \in Times
      /\ \A k \in Nat : y[k] = at[<<LastRow, d>>][k] + Delay
  BY SumInIs
<1>3. a \in Nat /\ b \in Nat
  BY <1>1, SumInIs, ClosedPaced
<1>4. (a = b /\ c <= d) \/ (a < b /\ d <= c)
  <2>1. CASE g = j /\ c <= d
    BY <2>1
  <2>2. CASE g < j /\ d <= c
    <3> DEFINE k == j - g
    <3>1. k \in Nat \ {0} /\ j = g + k
      BY <2>2
    <3> HIDE DEF k
    <3>2. NOPCount * j = NOPCount * g + NOPCount * k /\ NOPCount * g \in Nat /\ NOPCount * k \in Nat \ {0}
      BY <3>1, CellSizes
    <3> QED BY <2>2, <3>2, CellSizes DEF LastOf
  <2> QED BY <2>1, <2>2
<1>5. at[<<LastRow, c>>][a] <= at[<<LastRow, d>>][b]
  <2>1. RowOnTime(sent, at, LastRow)
    BY RowsOnTime, Sizes
  <2> HIDE DEF a, b
  <2> QED BY <1>3, <1>4, <2>1 DEF RowOnTime
<1>6. /\ Summed(x)[g] = x[a] + (ADD_Stages + 1)
      /\ Summed(y)[j] = y[b] + (ADD_Stages + 1)
  BY DEF Summed, Closed
<1> HIDE DEF x, y, a, b
<1>7. at[<<LastRow, c>>][a] \in Nat /\ at[<<LastRow, d>>][b] \in Nat /\ Delay \in Nat
  <2>1. at[<<LastRow, c>>][a] \in Nat /\ at[<<LastRow, d>>][b] \in Nat
    BY <1>1, <1>2, <1>3, TimesNat
  <2> QED BY <2>1, CellSizes DEF Delay
<1>8. x[a] = at[<<LastRow, c>>][a] + Delay /\ y[b] = at[<<LastRow, d>>][b] + Delay
  BY <1>1, <1>2, <1>3
<1>9. x[a] + (ADD_Stages + 1) <= y[b] + (ADD_Stages + 1)
  BY <1>5, <1>7, <1>8, CellSizes
<1>10. Summed(x)[g] <= Summed(y)[j]
  BY <1>6, <1>9
<1> QED BY <1>10 DEF x, y

\* A read finds the sum that is due; or it waits, and so does every other sum.
LEMMA ReadFinds ==
    ASSUME NEW sent \in Times, Spread(sent), NEW at, Schedule(sent, at), NEW t \in Nat,
           NEW x, NEW q \in Nat, Before(4, x) = q, ArrayShows(pe, acc, x, sent, at, t),
           NEW a, a = q % Cols
    PROVE  /\ a \in ColNo /\ q \div Cols \in Nat
           /\ ACC_DataOutValid(acc[a]) => ACC_DataOut(acc[a]) = <<GroupSums(Sums(a))[q \div Cols]>>
           /\ ~ACC_DataOutValid(acc[a]) => \A c \in ColNo : ~ACC_DataOutValid(acc[c])
<1> DEFINE g == q \div Cols
           read(c) == Share(q, Cols, c)
<1>1. Cols \in Nat \ {0} /\ a \in ColNo /\ g \in Nat
  BY Sizes, DivMod DEF ColNo
<1>2. \A c \in ColNo : read(c) = g + One(a > c)
  BY DEF Share
<1>3. ASSUME NEW c \in ColNo
      PROVE  /\ read(c) \in Nat
             /\ ACC_DataOutValid(acc[c]) <=> Summed(SumIn(at, c))[read(c)] < t + 1
             /\ ACC_DataOutValid(acc[c]) => ACC_DataOut(acc[c]) = <<GroupSums(Sums(c))[read(c)]>>
  <2>1. read(c) \in Nat
    BY <1>1, ShareStep DEF ColNo
  <2>2. SumShows(acc[c], SumIn(at, c), Results(LastRow, c), Sums(c), read(c), t)
    BY DEF ArrayShows
  <2> HIDE DEF read
  <2> QED BY <2>1, <2>2, SumValid
<1>4. read(a) = g
  <2>1. ~(a > a)
    BY <1>1 DEF ColNo
  <2> QED BY <1>1, <1>2, <2>1 DEF One
<1> HIDE DEF g, read
<1>5. ASSUME ~ACC_DataOutValid(acc[a]), NEW c \in ColNo PROVE ~ACC_DataOutValid(acc[c])
  <2>1. ~(Summed(SumIn(at, a))[g] < t + 1)
    BY <1>1, <1>3, <1>4, <1>5
  <2>2. (g = read(c) /\ a <= c) \/ (g < read(c) /\ c <= a)
    <3>1. a \in Nat /\ c \in Nat
      BY <1>1 DEF ColNo
    <3>2. CASE a > c
      <4>1. read(c) = g + 1
        BY <1>2, <3>2 DEF One
      <4> QED BY <1>1, <3>1, <3>2, <4>1
    <3>3. CASE ~(a > c)
      <4>1. read(c) = g
        BY <1>1, <1>2, <3>3 DEF One
      <4> QED BY <3>1, <3>3, <4>1
    <3> QED BY <3>2, <3>3
  <2>3. read(c) \in Nat
    BY <1>3
  <2>4. Summed(SumIn(at, a))[g] <= Summed(SumIn(at, c))[read(c)]
    BY <1>1, <2>2, <2>3, SumsInOrder
  <2>5. Summed(SumIn(at, a))[g] \in Nat /\ Summed(SumIn(at, c))[read(c)] \in Nat
    <3>1. Summed(SumIn(at, a)) \in Times /\ Summed(SumIn(at, c)) \in Times
      BY <1>1, SumInIs, ClosedPaced
    <3> QED BY <1>1, <2>3, <3>1, TimesNat
  <2>6. ~(Summed(SumIn(at, c))[read(c)] < t + 1)
    BY <2>1, <2>4, <2>5
  <2> QED BY <1>3, <2>6
<1> QED BY <1>1, <1>3, <1>4, <1>5 DEF g

\* A partial output that the program sends is one of the tile, of a group that
\* has not been read.
LEMMA OutputAtIs ==
    ASSUME NEW q \in Nat, q < Total(3), OutputAt(q) # Zeros
    PROVE  OutputAt(q) \in 0 .. N - 1 /\ Cols * ((q \div Cols) \div NOPCount) <= OutputAt(q)
<1> DEFINE b == q \div Cols
           j == b \div NOPCount
           c == q % Cols
<1>1. Cols \in Nat \ {0} /\ NOPCount \in Nat \ {0} /\ AllGroups \in Nat /\ NOPCount * AllGroups \in Nat
  BY Sizes, TotalIs
<1>2. b \in Nat /\ c \in 0 .. Cols - 1 /\ q = b * Cols + c
  BY <1>1, DivMod
<1>3. OutputAt(q) = j * Cols + c /\ c < Width(j)
  BY DEF OutputAt
<1>4. q < Cols * (NOPCount * AllGroups)
  BY TotalIs
<1> HIDE DEF b, c
<1>5. j \in Nat /\ b % NOPCount \in 0 .. NOPCount - 1 /\ b = j * NOPCount + (b % NOPCount)
  BY <1>1, <1>2, DivMod
<1> DEFINE p == b % NOPCount
<1> HIDE DEF j, p
<1>6. p \in Nat /\ b = j * NOPCount + p /\ j \in Nat
  BY <1>5 DEF p
<1>7. j < AllGroups
  <2> SUFFICES ASSUME AllGroups <= j PROVE FALSE
    BY <1>1, <1>6
  <2> DEFINE d == j - AllGroups
             m == NOPCount * AllGroups
             e == NOPCount * d
  <2>1. d \in Nat /\ j = AllGroups + d
    BY <1>1, <1>6
  <2> HIDE DEF d
  <2>2. j * NOPCount = m + e /\ e \in Nat /\ m \in Nat
    BY <1>1, <2>1
  <2> HIDE DEF m, e
  <2>3. b = m + (e + p) /\ e + p \in Nat
    BY <1>6, <2>2
  <2> DEFINE f == e + p
  <2>4. f \in Nat /\ b = m + f
    BY <2>3
  <2> HIDE DEF f
  <2>5. b * Cols = Cols * m + Cols * f /\ Cols * f \in Nat /\ Cols * m \in Nat
    BY <1>1, <2>2, <2>4
  <2>6. q < Cols * m
    BY <1>4 DEF m
  <2> QED BY <1>2, <2>5, <2>6
<1>8. /\ Groups \in Nat /\ Edge \in 0 .. Cols - 1 /\ N = Cols * Groups + Edge /\ AllGroups <= Groups + 1
  BY GroupsIs
<1>9. j * Cols \in Nat /\ j * Cols = Cols * j /\ Cols * Groups \in Nat
  BY <1>1, <1>6, <1>8
<1>10. j * Cols + c < N
  <2>1. CASE j < Groups
    <3> DEFINE d == Groups - (j + 1)
    <3>1. d \in Nat /\ Groups = (j + 1) + d
      BY <1>6, <1>8, <2>1
    <3> HIDE DEF d
    <3>2. Cols * Groups = Cols * j + Cols + Cols * d /\ Cols * d \in Nat
      BY <1>1, <1>6, <3>1
    <3> QED BY <1>1, <1>2, <1>8, <1>9, <3>2
  <2>2. CASE ~(j < Groups)
    <3>1. j = Groups
      BY <1>1, <1>6, <1>7, <1>8, <2>2
    <3>2. c < Edge
      BY <1>3, <2>2 DEF Width
    <3> QED BY <1>2, <1>8, <1>9, <3>1, <3>2
  <2> QED BY <2>1, <2>2
<1>11. N \in Nat
  BY ProgramAssumption
<1>12. OutputAt(q) \in 0 .. N - 1 /\ Cols * j <= OutputAt(q)
  BY <1>2, <1>3, <1>9, <1>10, <1>11
<1> QED BY <1>12 DEF j, b

\* The tile when the program is at x: the sums it has read, and what was there.
Tile(x) == [k \in 0 .. N - 1 |-> IF k < Before(4, x) THEN Convolution[k] ELSE Output0(k)]

\* What the program sends is the word that is due.
LEMMA SendsDue ==
    ASSUME pc \in Here, ~Finished, Tile_Output = Tile(pc), NEW n \in 1 .. 3, Program[pc].n = n
    PROVE  dataa = Due(n, Before(n, pc)) /\ SentBefore(pc) = DueAt(n, Before(n, pc))
<1> DEFINE counts == [some \in Kinds |-> Before(some, pc)]
           q == Before(n, pc)
<1>1. pc \in 1 .. Len(Program) /\ pc + 1 \in Here
  BY BeforeIs DEF Here, Finished
<1>2. PICK kind \in Kinds :
          /\ Program[pc] = Instr(kind, Before(kind, pc)) /\ InOrder(kind, counts)
          /\ \A other \in Kinds :
                Before(other, pc + 1) = Before(other, pc) + (IF other = kind THEN 1 ELSE 0)
  BY <1>1, BeforeIs
<1>3. kind = n /\ n # 4 /\ n \in Kinds
  BY <1>2 DEF Instr, Kinds
<1>4. /\ counts[1] = Before(1, pc) /\ counts[2] = Before(2, pc) /\ counts[3] = Before(3, pc)
      /\ counts[4] = Before(4, pc) /\ counts[n] = q
  BY <1>3 DEF Kinds
<1>5. q \in Nat /\ Before(4, pc) \in Nat
  BY <1>3, BeforeIs DEF Kinds
<1>6. InOrder(n, counts) /\ Program[pc].at = Instr(n, q).at
  BY <1>2, <1>3
<1> HIDE DEF counts
<1>7. /\ Before(1, pc) + Before(2, pc) + Before(3, pc) = Place(n, q \div Per(n), q % Per(n))
      /\ Before(4, pc) <= Cols * ((q \div Per(n)) \div NOPCount)
  BY <1>3, <1>4, <1>6 DEF InOrder
<1>8. SentBefore(pc) = DueAt(n, q)
  BY <1>7 DEF SentBefore, DueAt
<1>9. dataa = Due(n, q)
  <2>1. CASE n = 1
    <3>1. Program[pc].at = WeightAt(q)
      BY <1>6, <2>1 DEF Instr
    <3>2. dataa = Tile_Weight(Program[pc].at)
      BY <2>1 DEF dataa
    <3> QED BY <1>5, <2>1, <3>1, <3>2, DueIs
  <2>2. CASE n = 2
    <3>1. Program[pc].at = ImageAt(q)
      BY <1>6, <2>2 DEF Instr
    <3>2. dataa = Tile_Img2Col(Program[pc].at)
      BY <2>2 DEF dataa
    <3> QED BY <1>5, <2>2, <3>1, <3>2, DueIs
  <2>3. CASE n = 3
    <3> DEFINE k == OutputAt(q)
    <3>1. Program[pc].at = k
      BY <1>6, <2>3 DEF Instr
    <3>2. dataa = IF Program[pc].at = Zeros THEN Zero ELSE Tile_Output[Program[pc].at]
      BY <2>3 DEF dataa
    <3>3. Due(n, q) = OutputWord(k)
      BY <1>5, <2>3, DueIs
    <3>4. ASSUME k # Zeros PROVE Tile_Output[k] = Output0(k)
      <4>1. q < Total(3)
        <5>1. Before(3, pc + 1) = Before(3, pc) + 1 /\ Before(3, pc + 1) <= Total(3)
          BY <1>1, <1>2, <1>3, <2>3, BeforeIs
        <5>2. Total(3) \in Nat
          <6>1. Total(3) = Before(3, Len(Program) + 1) /\ Len(Program) + 1 \in Here /\ 3 \in Kinds
            BY BeforeIs DEF Here, Kinds
          <6> QED BY <6>1, BeforeIs
        <5> QED BY <1>5, <2>3, <5>1, <5>2
      <4>2. k \in 0 .. N - 1 /\ Cols * ((q \div Cols) \div NOPCount) <= k
        BY <1>5, <3>4, <4>1, OutputAtIs
      <4>3. Before(4, pc) <= Cols * ((q \div Cols) \div NOPCount)
        BY <1>7, <2>3 DEF Per
      <4>4. Cols * ((q \div Cols) \div NOPCount) \in Int
        <5>1. q \div Cols \in Nat /\ Cols \in Nat \ {0} /\ NOPCount \in Nat \ {0}
          BY <1>5, Sizes, DivMod
        <5>2. (q \div Cols) \div NOPCount \in Nat
          BY <5>1, DivMod
        <5> QED BY <5>1, <5>2
      <4> DEFINE g == Cols * ((q \div Cols) \div NOPCount)
      <4> HIDE DEF g, k
      <4>5. ~(k < Before(4, pc))
        <5>1. Before(4, pc) <= g /\ g <= k /\ g \in Int /\ k \in Int
          BY <4>2, <4>3, <4>4, ProgramAssumption DEF g
        <5> QED BY <1>5, <5>1
      <4> QED BY <4>2, <4>5 DEF Tile
    <3> HIDE DEF k
    <3> QED BY <3>1, <3>2, <3>3, <3>4 DEF OutputWord
  <2> QED BY <2>1, <2>2, <2>3
<1> QED BY <1>8, <1>9

\* The read address after a clock, when a sum that has to wait makes all wait.
LEMMA ReadAddressStep ==
    ASSUME NEW q \in Nat, Output_Read_Address = q % Cols, NEW read \in BOOLEAN,
           ~Valid => \A c \in ColNo : ~ACC_DataOutValid(acc[c])
    PROVE  ReadAddress(read) = (q + One(read /\ Valid)) % Cols
<1> DEFINE others == \E c \in ColNo \ {LastCol} : ACC_DataOutValid(acc[c])
           a == q % Cols
<1>1. /\ Cols \in Nat \ {0} /\ a \in ColNo /\ 0 \in 0 .. Cols - 1 /\ LastCol \in ColNo
      /\ (q + 1) % Cols = (a + 1) % Cols
  BY Sizes, DivMod, ShareStep DEF ColNo
<1>2. a = Output_Read_Address
  OBVIOUS
<1>3. ReadAddress(read) = IF read /\ ACC_DataOutValid(acc[LastCol]) /\ a = LastCol
                          THEN 0 ELSE Counter(a, read /\ others, Cols)
  BY DEF ReadAddress
<1>4. CASE read /\ Valid /\ a = LastCol
  <2>1. ReadAddress(read) = 0
    BY <1>2, <1>3, <1>4 DEF Valid
  <2>2. (a + 1) % Cols = 0
    <3>1. a + 1 = Cols /\ Cols % Cols = 0
      BY <1>1, <1>4 DEF LastCol
    <3> QED BY <3>1
  <2>3. q + One(read /\ Valid) = q + 1
    BY <1>4 DEF One
  <2> QED BY <1>1, <2>1, <2>2, <2>3
<1>5. CASE read /\ Valid /\ a # LastCol
  <2>1. others
    BY <1>1, <1>2, <1>5 DEF Valid
  <2>2. ReadAddress(read) = (a + 1) % Cols
    BY <1>3, <1>5, <2>1 DEF Counter
  <2>3. q + One(read /\ Valid) = q + 1
    BY <1>5 DEF One
  <2> QED BY <1>1, <2>2, <2>3
<1>6. CASE ~(read /\ Valid)
  <2>1. ~(read /\ others) /\ ~(read /\ ACC_DataOutValid(acc[LastCol]) /\ a = LastCol)
    BY <1>1, <1>6
  <2>2. ReadAddress(read) = a
    BY <1>3, <2>1 DEF Counter
  <2>3. q + One(read /\ Valid) = q
    BY <1>6 DEF One
  <2> QED BY <2>2, <2>3
<1> QED BY <1>4, <1>5, <1>6

-----------------------------------------------------------------------------
(***************************************************************************)
(* The invariant: the counts of before, the array on time, and with it the *)
(* read address and the tile.                                              *)
(***************************************************************************)
CallInv ==
    /\ ArrayInv
    /\ Output_Read_Address = Before(4, pc) % Cols
    /\ Tile_Output = Tile(pc)
    /\ \E t \in Nat : \E h : OnTime(pe, acc, pc, h, t)

\* A reset.
LEMMA ResetCall ==
    ASSUME Fits
    PROVE  /\ Start => CallInv
           /\ Restart => CallInv'
<1>1. Before(4, 1) = 0 /\ \A k : ~(k \in Nat /\ k < 0)
  BY BeforeIs DEF Kinds
<1>2. 0 % Cols = 0
  <2>1. 0 \in 0 .. Cols - 1 /\ Cols \in Nat \ {0}
    BY Sizes
  <2> QED BY <2>1, ShareNone
<1>3. Tile(1) = [k \in 0 .. N - 1 |-> Output0(k)]
  <2>1. \A k \in 0 .. N - 1 : ~(k < Before(4, 1))
    BY <1>1
  <2> QED BY <2>1 DEF Tile
<1>4. ASSUME Start PROVE CallInv
  <2>1. ArrayInv
    BY <1>4, ResetInv DEF Start
  <2>2. Output_Read_Address = Before(4, pc) % Cols /\ Tile_Output = Tile(pc)
    BY <1>1, <1>2, <1>3, <1>4 DEF Start, Init
  <2>3. /\ \A r \in RowNo, c \in ColNo : pe[<<r, c>>] = PEReset
        /\ \A c \in ColNo : acc[c] = ACCReset
    BY <1>4 DEF Start, Init
  <2>4. \E t \in Nat : \E h : OnTime(pe, acc, 1, h, t)
    BY <2>3, OnTimeReset
  <2>5. pc = 1
    BY <1>4 DEF Start
  <2> QED BY <2>1, <2>2, <2>4, <2>5 DEF CallInv
<1>5. ASSUME Restart PROVE CallInv'
  <2>1. ArrayInv'
    BY <1>5, ResetInv DEF Restart
  <2>2. pc' = 1 /\ Output_Read_Address' = 0 /\ Tile_Output' = Tile(1)
    BY <1>3, <1>5 DEF Restart, Reset
  <2>3. /\ \A r \in RowNo, c \in ColNo : pe'[<<r, c>>] = PEReset
        /\ \A c \in ColNo : acc'[c] = ACCReset
    BY <1>5 DEF Restart, Reset
  <2>4. \E t \in Nat : \E h : OnTime(pe', acc', 1, h, t)
    BY <2>3, OnTimeReset
  <2>5. Before(4, pc') % Cols = 0
    BY <1>1, <1>2, <2>2
  <2> QED BY <2>1, <2>2, <2>4, <2>5 DEF CallInv
<1> QED BY <1>4, <1>5

\* A read finds the sum that is due, or no accumulator has one.
LEMMA ReadInTime ==
    ASSUME CallInv, NEW q, q = Before(4, pc)
    PROVE  /\ q \in Nat /\ q % Cols \in ColNo /\ q \div Cols \in Nat
           /\ ~Valid => \A c \in ColNo : ~ACC_DataOutValid(acc[c])
           /\ Valid => Result = <<GroupSums(Sums(q % Cols))[q \div Cols]>>
<1> DEFINE a == q % Cols
<1>1. pc \in Here /\ Output_Read_Address = a
  BY DEF CallInv, ArrayInv
<1>2. q \in Nat
  BY <1>1, BeforeIs DEF Kinds
<1>3. PICK t \in Nat : \E h : OnTime(pe, acc, pc, h, t)
  BY DEF CallInv
<1>4. PICK h : OnTime(pe, acc, pc, h, t)
  BY <1>3
<1>5. h \in Times /\ Spread(h) /\ \E at : Schedule(h, at) /\ ArrayShows(pe, acc, pc, h, at, t)
  BY <1>1, <1>4, OnTimeIs
<1>6. PICK at : Schedule(h, at) /\ ArrayShows(pe, acc, pc, h, at, t)
  BY <1>5
<1>7. a = q % Cols
  OBVIOUS
<1> HIDE DEF a
<1>8. /\ a \in ColNo /\ q \div Cols \in Nat
      /\ ACC_DataOutValid(acc[a]) => ACC_DataOut(acc[a]) = <<GroupSums(Sums(a))[q \div Cols]>>
      /\ ~ACC_DataOutValid(acc[a]) => \A c \in ColNo : ~ACC_DataOutValid(acc[c])
  BY <1>2, <1>5, <1>6, <1>7, ReadFinds
<1>9. /\ Valid <=> ACC_DataOutValid(acc[a])
      /\ Result = ACC_DataOut(acc[a])
  BY <1>1 DEF Valid, Result
<1> QED BY <1>2, <1>7, <1>8, <1>9

\* The sum of a read is written to its place.
LEMMA TileStep ==
    ASSUME CallInv, NEW n \in 0 .. 4, NEW start \in BOOLEAN, NEW word, Instructs(n, start, word)
    PROVE  Tile_Output' = Tile(pc')
<1> DEFINE q == Before(4, pc)
           r == Result[1]
           here == Program[pc].at
<1>1. pc \in Here /\ Tile_Output = Tile(pc) /\ q \in Nat
  BY BeforeIs DEF CallInv, ArrayInv, Kinds
<1>2. /\ Tile_Output' = (IF n = 4 /\ Valid /\ here # Zeros
                         THEN [Tile_Output EXCEPT ![here] = r] ELSE Tile_Output)
      /\ Before(4, pc') = q + One(n = 4 /\ Valid)
      /\ n = 4 => ~Finished /\ Program[pc].n = 4
  BY DEF Instructs
<1>3. CASE n = 4 /\ Valid
  <2>1. pc \in 1 .. Len(Program)
    BY <1>1, <1>2, <1>3, BeforeIs DEF Here, Finished
  <2>2. PICK kind \in Kinds : Program[pc] = Instr(kind, Before(kind, pc))
    BY <2>1, BeforeIs
  <2>3. kind = 4
    BY <1>2, <1>3, <2>2 DEF Instr
  <2>4. here = SumAt(q)
    BY <2>2, <2>3 DEF Instr
  <2>5. Before(4, pc') = q + 1
    BY <1>2, <1>3 DEF One
  <2> HIDE DEF here
  <2>6. CASE q < N
    <3>1. here = q /\ q # Zeros
      BY <1>1, <2>4, <2>6 DEF SumAt, Zeros
    <3>2. r = Convolution[q]
      <4> DEFINE g == q \div Cols
                 c == q % Cols
      <4>1. g \in Nat /\ c \in ColNo /\ r = GroupSums(Sums(c))[g]
        BY <1>3, ReadInTime
      <4>2. q = Cols * g + c
        <5>1. Cols \in Nat \ {0} /\ q = g * Cols + c
          BY <1>1, Sizes, DivMod
        <5>2. g * Cols = Cols * g
          BY <4>1, <5>1
        <5> QED BY <5>1, <5>2
      <4> HIDE DEF g, c, q, r
      <4>3. GroupSums(Sums(c))[g] = Convolution[Cols * g + c]
        BY <2>6, <4>1, <4>2, ColumnSumIs
      <4> QED BY <4>1, <4>2, <4>3
    <3> HIDE DEF q, r
    <3>3. Tile_Output' = [Tile(pc) EXCEPT ![q] = r]
      BY <1>1, <1>2, <1>3, <3>1
    <3>4. Tile(pc) = [k \in 0 .. N - 1 |-> IF k < q THEN Convolution[k] ELSE Output0(k)]
      BY DEF Tile, q
    <3>5. Tile(pc') = [k \in 0 .. N - 1 |-> IF k < q + 1 THEN Convolution[k] ELSE Output0(k)]
      BY <2>5 DEF Tile
    <3>6. \A k \in 0 .. N - 1 : k < q + 1 <=> k < q \/ k = q
      BY <1>1, ProgramAssumption
    <3>7. [Tile(pc) EXCEPT ![q] = r]
             = [k \in 0 .. N - 1 |-> IF k = q THEN r ELSE IF k < q THEN Convolution[k] ELSE Output0(k)]
      BY <3>4
    <3>8. Tile(pc') = [k \in 0 .. N - 1 |-> IF k = q THEN r ELSE IF k < q THEN Convolution[k] ELSE Output0(k)]
      BY <3>2, <3>5, <3>6
    <3> QED BY <3>3, <3>7, <3>8
  <2>7. CASE ~(q < N)
    <3>1. here = Zeros
      BY <2>4, <2>7 DEF SumAt
    <3>2. Tile_Output' = Tile(pc)
      BY <1>1, <1>2, <3>1
    <3>3. \A k \in 0 .. N - 1 : k < q /\ k < q + 1
      BY <1>1, <2>7, ProgramAssumption
    <3>4. Tile(pc') = Tile(pc)
      BY <2>5, <3>3 DEF Tile
    <3> QED BY <3>2, <3>4
  <2> QED BY <2>6, <2>7
<1>4. CASE ~(n = 4 /\ Valid)
  <2>1. Tile_Output' = Tile_Output /\ Before(4, pc') = Before(4, pc)
    BY <1>1, <1>2, <1>4 DEF One
  <2>2. Tile(pc') = Tile(pc)
    BY <2>1 DEF Tile
  <2> QED BY <1>1, <2>1, <2>2
<1> QED BY <1>3, <1>4

\* A clock keeps the invariant.
LEMMA ClockCall ==
    ASSUME Fits, CallInv, NEW n \in 0 .. 4, NEW start \in BOOLEAN, NEW word,
           Instructs(n, start, word)
    PROVE  CallInv'
<1>1. /\ Clock(n, start, word) /\ pc' \in Here
      /\ \A k \in 1 .. 3 : Before(k, pc') = Before(k, pc) + One(n = k /\ start)
      /\ Before(4, pc') = Before(4, pc) + One(n = 4 /\ Valid)
      /\ n \in 1 .. 3 /\ start => ~Finished /\ Program[pc].n = n /\ word = dataa
  BY DEF Instructs
<1>2. ArrayInv /\ pc \in Here /\ Output_Read_Address = Before(4, pc) % Cols /\ Tile_Output = Tile(pc)
  BY DEF CallInv, ArrayInv
<1>3. Before(4, pc') = Before(4, pc) + One(n = 4 /\ ACC_DataOutValid(acc[Output_Read_Address]))
  BY <1>1 DEF Valid
<1>4. ArrayInv'
  BY <1>1, <1>2, <1>3, ClockInv
<1>5. Output_Read_Address' = Before(4, pc') % Cols
  <2> DEFINE q == Before(4, pc)
             read == n = 4
  <2>1. Output_Read_Address' = ReadAddress(read)
    BY <1>1, ClockIs
  <2>2. /\ q \in Nat /\ Output_Read_Address = q % Cols /\ read \in BOOLEAN
        /\ ~Valid => \A c \in ColNo : ~ACC_DataOutValid(acc[c])
        /\ Before(4, pc') = q + One(read /\ Valid)
    BY <1>1, <1>2, ReadInTime
  <2> HIDE DEF q, read
  <2>3. ReadAddress(read) = (q + One(read /\ Valid)) % Cols
    BY <2>2, ReadAddressStep
  <2> QED BY <2>1, <2>2, <2>3, Zenon
<1>6. Tile_Output' = Tile(pc')
  BY TileStep
<1>7. \E t \in Nat : \E h : OnTime(pe', acc', pc', h, t)
  <2>1. PICK t \in Nat : \E h : OnTime(pe, acc, pc, h, t)
    BY DEF CallInv
  <2>2. PICK h : OnTime(pe, acc, pc, h, t)
    BY <2>1
  <2>3. n \in 1 .. 3 /\ start => /\ word = Due(n, Before(n, pc))
                                 /\ SentBefore(pc) = DueAt(n, Before(n, pc))
    <3> SUFFICES ASSUME n \in 1 .. 3, start
                 PROVE  word = Due(n, Before(n, pc)) /\ SentBefore(pc) = DueAt(n, Before(n, pc))
      OBVIOUS
    <3>1. ~Finished /\ Program[pc].n = n /\ word = dataa
      BY <1>1
    <3>2. dataa = Due(n, Before(n, pc)) /\ SentBefore(pc) = DueAt(n, Before(n, pc))
      BY <1>2, <3>1, SendsDue
    <3> QED BY <3>1, <3>2
  <2>4. \E later : OnTime(pe', acc', pc', later, t + 1)
    BY <1>1, <1>2, <1>3, <2>2, <2>3, OnTimeStep
  <2>5. t + 1 \in Nat
    OBVIOUS
  <2> QED BY <2>4, <2>5
<1> QED BY <1>4, <1>5, <1>6, <1>7 DEF CallInv

\* Every step keeps the invariant.
LEMMA CallStep ==
    ASSUME Fits, CallInv, [Next]_vars
    PROVE  CallInv'
<1>1. CASE Send \/ Read \/ Idle
  <2>1. pc \in Here /\ CellsOK(pe, acc) /\ Output_Read_Address \in ColNo
    BY DEF CallInv, ArrayInv
  <2>2. PICK n \in 0 .. 4, start \in BOOLEAN : \E word : Instructs(n, start, word)
    BY <1>1, <2>1, Instructed
  <2>3. PICK word : Instructs(n, start, word)
    BY <2>2
  <2> QED BY <2>3, ClockCall
<1>2. CASE Restart
  BY <1>2, ResetCall
<1>3. CASE UNCHANGED vars
  <2>1. /\ pc' = pc /\ pe' = pe /\ acc' = acc /\ Tile_Output' = Tile_Output
        /\ Output_Read_Address' = Output_Read_Address
    BY <1>3 DEF vars, array
  <2>2. ArrayInv'
    BY ArrayStep DEF CallInv
  <2> QED BY <2>1, <2>2 DEF CallInv
<1> QED BY <1>1, <1>2, <1>3 DEF Next, Instruction

LEMMA CallInvHolds == ASSUME Fits PROVE Spec => []CallInv
<1>1. Start => CallInv
  BY ResetCall
<1>2. CallInv /\ [Next]_vars => CallInv'
  BY CallStep
<1> QED BY <1>1, <1>2, PTL DEF Spec

-----------------------------------------------------------------------------
(* What the invariant says of the properties *)

LEMMA ReadsBeforeIs == ASSUME NEW x \in Here PROVE ReadsBefore[x] = Before(4, x)
BY DEF ReadsBefore, Here

\* The array as it is, with the schedule it is on.
LEMMA ArrayNow ==
    ASSUME CallInv
    PROVE  /\ pc \in Here /\ CellsOK(pe, acc) /\ AddressesOK(pc)
           /\ \E t \in Nat, sent \in Times :
                 /\ Spread(sent) /\ sent[SentBefore(pc)] = t
                 /\ \E at : Schedule(sent, at) /\ ArrayShows(pe, acc, pc, sent, at, t)
<1>1. pc \in Here /\ CellsOK(pe, acc) /\ AddressesOK(pc)
  BY DEF CallInv, ArrayInv
<1>2. PICK t \in Nat : \E h : OnTime(pe, acc, pc, h, t)
  BY DEF CallInv
<1>3. PICK h : OnTime(pe, acc, pc, h, t)
  BY <1>2
<1>4. /\ h \in Times /\ Spread(h) /\ h[SentBefore(pc)] = t
      /\ \E at : Schedule(h, at) /\ ArrayShows(pe, acc, pc, h, at, t)
  BY <1>1, <1>3, OnTimeIs
<1> QED BY <1>1, <1>4

\* The read address counts the reads.
LEMMA CallReads == ASSUME CallInv PROVE ReadAddressInStep
<1>1. pc \in Here /\ Output_Read_Address = Before(4, pc) % Cols
  BY DEF CallInv, ArrayInv
<1> QED BY <1>1, ReadsBeforeIs DEF ReadAddressInStep

LEMMA CallResults == ASSUME CallInv PROVE ResultsCorrect
<1>1. pc \in Here /\ Tile_Output = Tile(pc)
  BY DEF CallInv, ArrayInv
<1>2. ReadsBefore[pc] = Before(4, pc)
  BY <1>1, ReadsBeforeIs
<1> QED BY <1>1, <1>2 DEF ResultsCorrect, Tile

LEMMA CallRoom == ASSUME Fits, CallInv PROVE ResultsFindRoom
<1>1. PICK t \in Nat, sent \in Times :
          /\ Spread(sent)
          /\ \E at : Schedule(sent, at) /\ ArrayShows(pe, acc, pc, sent, at, t)
  BY ArrayNow
<1>2. PICK at : Schedule(sent, at) /\ ArrayShows(pe, acc, pc, sent, at, t)
  BY <1>1
<1>3. ASSUME NEW r \in RowNo, NEW c \in ColNo PROVE O_OutRdy(r, c) = TRUE
  <2>1. CellsOK(pe, acc)
    BY ArrayNow
  <2> QED BY <1>1, <1>2, <2>1, ReadyOnTime
<1> QED BY <1>3 DEF ResultsFindRoom

\* The word that is sent goes to a cell that has room for it.
LEMMA CallSends == ASSUME Fits, CallInv PROVE NoSendIsLost
<1> SUFFICES ASSUME ~Finished
             PROVE  /\ Program[pc].n = 1 => DataInRdy(pe[<<Kernel_Address, 0>>].W)
                    /\ Program[pc].n = 2 =>
                          DataInRdy(pe[IF Input_Address < Cols THEN <<0, Input_Address>>
                                       ELSE <<Input_Address - LastCol, LastCol>>].I)
                    /\ Program[pc].n = 3 => O_DataInRdy(pe[<<0, Output_Write_Address>>])
  BY DEF NoSendIsLost, SendsFindRoom
<1>1. pc \in Here /\ CellsOK(pe, acc) /\ AddressesOK(pc)
  BY ArrayNow
<1>2. PICK t \in Nat, sent \in Times :
          /\ Spread(sent) /\ sent[SentBefore(pc)] = t
          /\ \E at : Schedule(sent, at) /\ ArrayShows(pe, acc, pc, sent, at, t)
  BY ArrayNow
<1>3. PICK at : Schedule(sent, at) /\ ArrayShows(pe, acc, pc, sent, at, t)
  BY <1>2
<1>4. ASSUME NEW r \in RowNo, NEW c \in ColNo
      PROVE  /\ (\E b \in Nat : WeightIn(sent, r, c)[b] = t + 1) => DataInRdy(pe[<<r, c>>].W)
             /\ (\E b \in Nat : ImageIn(sent, r, c)[b] = t + 1) => DataInRdy(pe[<<r, c>>].I)
             /\ O_DataInRdy(pe[<<r, c>>])
  <2>1. CellShows(pe[<<r, c>>], Plan(sent, at, r, c), t)
    BY <1>3 DEF ArrayShows
  <2> QED BY <1>2, <1>3, <2>1, CellRoom
<1>5. ASSUME NEW n \in 1 .. 3, Program[pc].n = n
      PROVE  Address(n) \in Slots(n) /\ \E b \in Nat : sent[Place(n, b, Address(n))] = t
  <2> DEFINE q == Before(n, pc)
  <2>1. SentBefore(pc) = DueAt(n, q)
    BY <1>1, <1>5, SendsDue DEF CallInv
  <2>2. q \in Nat
    BY <1>1, BeforeIs DEF Kinds
  <2>3. Address(n) = q % Per(n)
    BY <1>1, SlotsAre
  <2>4. q \div Per(n) \in Nat /\ q % Per(n) \in Slots(n)
    BY <2>2, SlotsAre
  <2>5. sent[Place(n, q \div Per(n), q % Per(n))] = t
    BY <1>2, <2>1 DEF DueAt
  <2> HIDE DEF q
  <2> QED BY <2>3, <2>4, <2>5
<1>6. ASSUME Program[pc].n = 1 PROVE DataInRdy(pe[<<Kernel_Address, 0>>].W)
  <2>1. Kernel_Address \in RowNo /\ \E b \in Nat : sent[Place(1, b, Kernel_Address)] = t
    BY <1>5, <1>6 DEF Address, Slots
  <2>2. PICK b \in Nat : sent[Place(1, b, Kernel_Address)] = t
    BY <2>1
  <2>3. WeightIn(sent, Kernel_Address, 0)[b] = t + 1
    BY <2>2 DEF WeightIn
  <2> QED BY <1>4, <2>1, <2>3, Sizes
<1>7. ASSUME Program[pc].n = 2
      PROVE  DataInRdy(pe[IF Input_Address < Cols THEN <<0, Input_Address>>
                          ELSE <<Input_Address - LastCol, LastCol>>].I)
  <2>1. /\ Input_Address \in 0 .. Images - 1
        /\ \E b \in Nat : sent[Place(2, b, Input_Address)] = t
    BY <1>5, <1>7 DEF Address, Slots
  <2>2. PICK b \in Nat : sent[Place(2, b, Input_Address)] = t
    BY <2>1
  <2> DEFINE r == IF Input_Address < Cols THEN 0 ELSE Input_Address - LastCol
             c == IF Input_Address < Cols THEN Input_Address ELSE LastCol
  <2>3. r \in RowNo /\ c \in ColNo /\ r + c = Input_Address /\ Hops(r, c) = 0
    BY <2>1, ImagesIs, Sizes, ArrayAssumption DEF RowNo, ColNo, LastRow, LastCol, Hops, Images
  <2>4. <<r, c>> = IF Input_Address < Cols THEN <<0, Input_Address>>
                   ELSE <<Input_Address - LastCol, LastCol>>
    OBVIOUS
  <2> HIDE DEF r, c
  <2>5. ImageIn(sent, r, c)[b] = t + 1
    BY <2>2, <2>3 DEF ImageIn
  <2>6. DataInRdy(pe[<<r, c>>].I)
    BY <1>4, <2>3, <2>5
  <2> QED BY <2>4, <2>6
<1>8. ASSUME Program[pc].n = 3 PROVE O_DataInRdy(pe[<<0, Output_Write_Address>>])
  <2>1. Output_Write_Address \in ColNo
    BY <1>5, <1>8 DEF Address, Slots
  <2> QED BY <1>4, <2>1, Sizes
<1> QED BY <1>6, <1>7, <1>8

-----------------------------------------------------------------------------
(***************************************************************************)
(* What a call computes if the words are whole numbers: for column k of    *)
(* the tile the product of the row of weights with the words that meet     *)
(* them, block by block.                                                   *)
(***************************************************************************)
WholeNumbers ==
    /\ Zero = 0
    /\ \A a, b \in Int : FPADD(a, b) = a + b /\ FPMUL(a, b) = a * b
    /\ \A a \in Nat : Tile_Weight(a) \in Int /\ Tile_Img2Col(a) \in Int /\ Output0(a) \in Int

Added(terms, number) ==
    LET sum[q \in 0 .. number] == IF q = 0 THEN 0 ELSE sum[q - 1] + terms[q - 1]
    IN  sum[number]

BlockProduct(g, p, c) ==
    Added([r \in RowNo |-> Tile_Weight(p * Rows + r)
                             * Tile_Img2Col((g * NOPCount + p) * Images + r + c)], Rows)

TileProduct(k) ==
    Added([p \in 0 .. NOPCount - 1 |-> BlockProduct(k \div Cols, p, k % Cols)], NOPCount)

PartialSums(f, terms, n) ==
    f = [q \in 0 .. n |-> IF q = 0 THEN 0 ELSE f[q - 1] + terms[q - 1]]

LEMMA PartialSumsExist ==
    ASSUME NEW terms, NEW n \in Nat
    PROVE  \E f : PartialSums(f, terms, n)
<1> DEFINE S == {q \in Nat : \E f : PartialSums(f, terms, q)}
<1>1. 0 \in S
  <2>1. PartialSums([q \in 0 .. 0 |-> 0], terms, 0)
    BY DEF PartialSums
  <2> QED BY <2>1
<1>2. ASSUME NEW n0 \in S, n0 \in Nat PROVE n0 + 1 \in S
  <2>1. PICK g : PartialSums(g, terms, n0)
    BY <1>2
  <2> DEFINE f == [q \in 0 .. n0 + 1 |-> IF q <= n0 THEN g[q] ELSE g[n0] + terms[n0]]
  <2>2. ASSUME NEW q \in 0 .. n0 + 1
        PROVE  f[q] = IF q = 0 THEN 0 ELSE f[q - 1] + terms[q - 1]
    <3>1. CASE q = 0
      BY <1>2, <2>1, <3>1 DEF PartialSums
    <3>2. CASE q \in 1 .. n0
      <4>1. g[q] = g[q - 1] + terms[q - 1]
        BY <1>2, <2>1, <3>2 DEF PartialSums
      <4>2. q - 1 \in 0 .. n0 + 1 /\ q - 1 <= n0 /\ q <= n0
        BY <1>2, <3>2
      <4> QED BY <3>2, <4>1, <4>2
    <3>3. CASE q = n0 + 1
      BY <1>2, <3>3
    <3> QED BY <1>2, <3>1, <3>2, <3>3
  <2>3. f = [q \in 0 .. n0 + 1 |-> IF q = 0 THEN 0 ELSE f[q - 1] + terms[q - 1]]
    BY <2>2
  <2>4. PartialSums(f, terms, n0 + 1)
    BY <2>3, Zenon DEF PartialSums
  <2> QED BY <1>2, <2>4
<1>3. Nat \subseteq S
  <2> HIDE DEF S
  <2> QED BY <1>1, <1>2, Induction
<1> QED BY <1>3

\* A chain of additions adds its words to its base.
LEMMA ChainAdds ==
    ASSUME WholeNumbers, NEW n \in Nat \ {0}, NEW base \in Int,
           NEW word, \A q \in 0 .. n - 1 : word[q] \in Int,
           NEW f, \A q \in 0 .. n - 1 : f[q] = FPADD(word[q], IF q = 0 THEN base ELSE f[q - 1])
    PROVE  /\ Added(word, n) \in Int
           /\ f[n - 1] = base + Added(word, n)
<1> DEFINE g == CHOOSE h : PartialSums(h, word, n)
<1>1. PartialSums(g, word, n)
  BY PartialSumsExist
<1>2. Added(word, n) = g[n]
  BY Zenon DEF Added, PartialSums
<1> HIDE DEF g
<1>3. g[0] = 0 /\ \A q \in 0 .. n - 1 : g[q + 1] = g[q] + word[q]
  <2>1. \A q \in 0 .. n : g[q] = IF q = 0 THEN 0 ELSE g[q - 1] + word[q - 1]
    BY <1>1 DEF PartialSums
  <2>2. g[0] = 0
    BY <2>1
  <2>3. ASSUME NEW q \in 0 .. n - 1 PROVE g[q + 1] = g[q] + word[q]
    <3>1. q + 1 \in 0 .. n /\ q + 1 # 0 /\ (q + 1) - 1 = q
      OBVIOUS
    <3> QED BY <2>1, <3>1
  <2> QED BY <2>2, <2>3
<1>4. \A a, b \in Int : FPADD(a, b) = a + b
  BY DEF WholeNumbers
<1> DEFINE S == {q \in Nat : q < n => g[q + 1] \in Int /\ f[q] = base + g[q + 1]}
<1>5. 0 \in S
  <2>1. 0 \in 0 .. n - 1 /\ word[0] \in Int
    OBVIOUS
  <2>2. g[0 + 1] = word[0] /\ f[0] = FPADD(word[0], base)
    BY <1>3, <2>1
  <2>3. FPADD(word[0], base) = word[0] + base
    BY <1>4, <2>1
  <2> QED BY <2>1, <2>2, <2>3
<1>6. ASSUME NEW q \in S, q \in Nat PROVE q + 1 \in S
  <2> SUFFICES ASSUME q + 1 < n PROVE g[(q + 1) + 1] \in Int /\ f[q + 1] = base + g[(q + 1) + 1]
    BY <1>6
  <2>1. q + 1 \in 0 .. n - 1 /\ (q + 1) - 1 = q /\ q + 1 # 0 /\ q < n
    BY <1>6
  <2>2. g[q + 1] \in Int /\ f[q] = base + g[q + 1] /\ word[q + 1] \in Int
    BY <1>6, <2>1
  <2>3. g[(q + 1) + 1] = g[q + 1] + word[q + 1]
    BY <1>3, <2>1
  <2>4. f[q + 1] = FPADD(word[q + 1], f[q])
    BY <2>1
  <2>5. f[q] \in Int
    BY <2>2
  <2>6. FPADD(word[q + 1], f[q]) = word[q + 1] + f[q]
    BY <1>4, <2>2, <2>5
  <2> QED BY <2>2, <2>3, <2>4, <2>5, <2>6
<1>7. Nat \subseteq S
  <2> HIDE DEF S
  <2> QED BY <1>5, <1>6, Induction
<1>8. n - 1 \in S /\ n - 1 < n /\ (n - 1) + 1 = n
  BY <1>7
<1>9. g[n] \in Int /\ f[n - 1] = base + g[n]
  BY <1>8
<1> QED BY <1>2, <1>9

\* What a column makes of a block of whole numbers.
LEMMA BlockAdds ==
    ASSUME WholeNumbers, NEW g \in Nat, NEW c \in ColNo, Cols * g + c < N,
           NEW p \in 0 .. NOPCount - 1, NEW b, b = NOPCount * g + p
    PROVE  /\ BlockProduct(g, p, c) \in Int /\ Output0(g * Cols + c) \in Int
           /\ Results(LastRow, c)[b] =
                 (IF p = 0 THEN Output0(g * Cols + c) ELSE 0) + BlockProduct(g, p, c)
<1>1. /\ b \in Nat
      /\ \A r \in RowNo : /\ Weight(r)[b] = Tile_Weight(p * Rows + r)
                          /\ Image(r + c)[b] = Tile_Img2Col((g * NOPCount + p) * Images + r + c)
      /\ Output(c)[b] = IF p = 0 THEN Output0(g * Cols + c) ELSE Zero
  BY WordsAre
<1>2. RowNo = 0 .. Rows - 1 /\ LastRow = Rows - 1 /\ Rows \in Nat \ {0}
  BY Sizes DEF RowNo, LastRow
<1>3. g * Cols + c \in Nat /\ c \in Nat /\ p \in Nat /\ g * NOPCount + p \in Nat /\ Images \in Nat
  BY Sizes, ImagesIs DEF ColNo
<1> DEFINE word == [r \in RowNo |-> Tile_Weight(p * Rows + r)
                                      * Tile_Img2Col((g * NOPCount + p) * Images + r + c)]
           base == IF p = 0 THEN Output0(g * Cols + c) ELSE 0
           f == [r \in RowNo |-> Results(r, c)[b]]
<1>4. base \in Int /\ Output0(g * Cols + c) \in Int
  <2> DEFINE k == g * Cols + c
  <2>1. k \in Nat
    BY <1>3
  <2> HIDE DEF k
  <2>2. Output0(k) \in Int
    BY <2>1 DEF WholeNumbers
  <2> QED BY <2>2 DEF k
<1>5. ASSUME NEW r \in RowNo
      PROVE  /\ word[r] \in Int
             /\ f[r] = FPADD(word[r], IF r = 0 THEN base ELSE f[r - 1])
  <2> DEFINE x == Tile_Weight(p * Rows + r)
             y == Tile_Img2Col((g * NOPCount + p) * Images + r + c)
  <2>1. x \in Int /\ y \in Int
    <3>1. p * Rows + r \in Nat
      BY <1>2, <1>3
    <3>2. (g * NOPCount + p) * Images + r + c \in Nat
      <4> DEFINE a == g * NOPCount + p
      <4>1. a \in Nat /\ r \in Nat
        BY <1>2, <1>3
      <4> HIDE DEF a
      <4>2. a * Images \in Nat
        BY <1>3, <4>1
      <4>3. a * Images + r + c \in Nat
        BY <1>3, <4>1, <4>2
      <4> QED BY <4>3 DEF a
    <3> QED BY <3>1, <3>2 DEF WholeNumbers
  <2>2. word[r] = x * y
    OBVIOUS
  <2>3. FPMUL(x, y) = x * y
    BY <2>1 DEF WholeNumbers
  <2>4. Results(r, c)[b] = FPADD(FPMUL(x, y), (IF r = 0 THEN Output(c) ELSE Results(r - 1, c))[b])
    <3>1. Results(r, c)[b] = FPADD(FPMUL(Weight(r)[b], Image(r + c)[b]),
                                   (IF r = 0 THEN Output(c) ELSE Results(r - 1, c))[b])
      BY <1>1, ResultsAre
    <3> QED BY <1>1, <3>1
  <2>5. Output(c)[b] = base
    BY <1>1 DEF WholeNumbers
  <2>6. f[r] = Results(r, c)[b] /\ (r # 0 => f[r - 1] = Results(r - 1, c)[b])
    <3>1. r # 0 => r - 1 \in RowNo
      BY Sizes
    <3> QED BY <3>1
  <2> HIDE DEF word, f, base, x, y
  <2>7. x * y \in Int
    BY <2>1
  <2> QED BY <2>2, <2>3, <2>4, <2>5, <2>6, <2>7
<1>6. BlockProduct(g, p, c) = Added(word, Rows)
  BY DEF BlockProduct
<1>7. f[LastRow] = Results(LastRow, c)[b]
  BY Sizes
<1> HIDE DEF word, base, f
<1>8. Added(word, Rows) \in Int /\ f[Rows - 1] = base + Added(word, Rows)
  BY <1>2, <1>4, <1>5, ChainAdds
<1> QED BY <1>2, <1>4, <1>6, <1>7, <1>8 DEF base

\* The convolution of whole numbers is a product.
LEMMA ConvolutionAdds ==
    ASSUME WholeNumbers, NEW k \in 0 .. N - 1
    PROVE  Convolution[k] = Output0(k) + TileProduct(k)
<1> DEFINE g == k \div Cols
           c == k % Cols
<1>1. g \in Nat /\ c \in ColNo /\ k = g * Cols + c /\ Cols * g = g * Cols
  <2>1. Cols \in Nat \ {0} /\ k \in Nat
    BY Sizes
  <2>2. g \in Nat /\ c \in 0 .. Cols - 1 /\ k = g * Cols + c
    BY <2>1, DivMod
  <2> QED BY <2>1, <2>2 DEF ColNo
<1> DEFINE last == NOPCount - 1
           block == [p \in 0 .. NOPCount - 1 |-> BlockProduct(g, p, c)]
<1>2. TileProduct(k) = Added(block, NOPCount)
  BY DEF TileProduct
<1>3. NOPCount \in Nat \ {0} /\ N \in Nat
  BY CellSizes, ProgramAssumption
<1> HIDE DEF g, c
<1>4. Cols * g + c = k /\ Cols * g + c < N
  BY <1>1, <1>3
<1> DEFINE word == [p \in 0 .. NOPCount - 1 |-> Results(LastRow, c)[NOPCount * g + p]]
           run == Sums(c)
           f == [p \in 0 .. NOPCount - 1 |-> run[NOPCount * g + p]]
<1>5. f[last] = Convolution[k]
  <2>1. GroupSums(run)[g] = Convolution[k]
    BY <1>1, <1>4, ColumnSumIs
  <2> QED BY <1>1, <1>3, <2>1 DEF GroupSums, LastOf
<1>6. ASSUME NEW p \in 0 .. last
      PROVE  /\ block[p] \in Int /\ Output0(k) \in Int
             /\ word[p] = (IF p = 0 THEN Output0(k) ELSE 0) + block[p]
             /\ f[p] = FPADD(word[p], IF p = 0 THEN 0 ELSE f[p - 1])
  <2> DEFINE b == NOPCount * g + p
  <2>1. word[p] = Results(LastRow, c)[b] /\ f[p] = run[b] /\ block[p] = BlockProduct(g, p, c)
    OBVIOUS
  <2>2. /\ BlockProduct(g, p, c) \in Int /\ Output0(k) \in Int
        /\ Results(LastRow, c)[b] = (IF p = 0 THEN Output0(k) ELSE 0) + BlockProduct(g, p, c)
    BY <1>1, <1>4, BlockAdds
  <2>3. b \in Nat /\ b % NOPCount = p
    <3>1. b \in Nat
      BY <1>1, <1>3
    <3> QED BY <1>1, <1>3, <3>1, Element
  <2>4. run[b] = FPADD(Results(LastRow, c)[b], IF b % NOPCount = 0 THEN Zero ELSE run[b - 1])
    BY <1>1, <2>3, SumsRun DEF Running
  <2>5. p # 0 => p - 1 \in 0 .. NOPCount - 1 /\ b - 1 = NOPCount * g + (p - 1)
    <3>1. NOPCount * g \in Nat
      BY <1>1, <1>3
    <3> QED BY <1>3, <3>1
  <2>6. p # 0 => f[p - 1] = run[b - 1]
    BY <2>5
  <2>7. Zero = 0
    BY DEF WholeNumbers
  <2> HIDE DEF word, f, b, run, block
  <2> QED BY <2>1, <2>2, <2>3, <2>4, <2>6, <2>7
<1>7. \A p \in 0 .. last : f[p] = FPADD(block[p], IF p = 0 THEN Output0(k) ELSE f[p - 1])
  <2> SUFFICES ASSUME NEW p \in 0 .. last
               PROVE  f[p] = FPADD(block[p], IF p = 0 THEN Output0(k) ELSE f[p - 1])
    OBVIOUS
  <2> HIDE DEF word, f, block
  <2>1. CASE p = 0
    <3>1. word[p] \in Int
      BY <1>6, <2>1
    <3>2. FPADD(word[p], 0) = word[p] + 0
      <4> DEFINE x == word[p]
      <4> HIDE DEF x
      <4>1. x \in Int => FPADD(x, 0) = x + 0
        BY DEF WholeNumbers
      <4> QED BY <3>1, <4>1 DEF x
    <3>3. FPADD(block[p], Output0(k)) = block[p] + Output0(k)
      BY <1>6 DEF WholeNumbers
    <3> QED BY <1>6, <2>1, <3>1, <3>2, <3>3
  <2>2. CASE p # 0
    <3>1. word[p] = block[p]
      BY <1>6, <2>2
    <3> QED BY <1>6, <2>2, <3>1
  <2> QED BY <2>1, <2>2
<1>8. Output0(k) \in Int
  BY <1>3 DEF WholeNumbers
<1> HIDE DEF word, f, block
<1>9. f[NOPCount - 1] = Output0(k) + Added(block, NOPCount)
  BY <1>3, <1>6, <1>7, <1>8, ChainAdds
<1> QED BY <1>2, <1>5, <1>9

\* After the last instruction every sum of the tile is read.
LEMMA AllSumsRead ==
    ASSUME pc \in Here, Finished, NEW k \in 0 .. N - 1
    PROVE  k < ReadsBefore[pc]
<1>1. pc = Len(Program) + 1
  BY BeforeIs DEF Finished, Here
<1>2. ReadsBefore[pc] = Cols * AllGroups
  BY <1>1, ReadsBeforeIs, BeforeIs, TotalIs DEF Kinds
<1>3. N <= Cols * AllGroups
  <2>1. /\ Groups \in Nat /\ Edge \in 0 .. Cols - 1 /\ N = Cols * Groups + Edge
        /\ Cols \in Nat \ {0} /\ Cols * Groups \in Nat
    BY GroupsIs, Sizes
  <2>2. CASE Edge = 0
    BY <2>1, <2>2 DEF AllGroups
  <2>3. CASE Edge # 0
    <3>1. Cols * (Groups + 1) = Cols * Groups + Cols
      BY <2>1
    <3> QED BY <2>1, <2>3, <3>1 DEF AllGroups
  <2> QED BY <2>2, <2>3
<1>4. Cols * AllGroups \in Nat
  BY TotalIs, Sizes
<1> QED BY <1>2, <1>3, <1>4, ProgramAssumption

\* What is in the tile when the call has finished.
LEMMA CallAdds ==
    ASSUME WholeNumbers, CallInv, Finished, NEW k \in 0 .. N - 1
    PROVE  Tile_Output[k] = Output0(k) + TileProduct(k)
<1>1. pc \in Here
  BY DEF CallInv, ArrayInv
<1>2. k < ReadsBefore[pc]
  BY <1>1, AllSumsRead
<1>3. Tile_Output[k] = Convolution[k]
  BY <1>2, CallResults DEF ResultsCorrect
<1> QED BY <1>3, ConvolutionAdds

-----------------------------------------------------------------------------
\* SumsFindRoom: an accumulator's buffer has a slot for every finished sum
\* although ACC.v does not look, if it has as many slots as the tile has whole
\* groups.  Nothing is assumed of latencies, idle clocks or restarts, nor that no
\* word is lost on the way.
THEOREM Accelerator_SumsFindRoom ==
    ASSUME Groups <= ACCBufferSize
    PROVE  Spec => []SumsFindRoom
<1>1. ArrayInv => SumsFindRoom
  BY SumsFindRoomInv
<1> QED BY <1>1, ArrayInvHolds, PTL

\* NothingLeftBehind: if the reads of a finished call took the columns in the
\* order of the program, no word is left in the array and all four addresses are
\* back at 0, for every size of array and tile: the next call starts clean.
THEOREM Accelerator_NothingLeftBehind ==
    Spec => [](ReadAddressInStep => NothingLeftBehind)
<1>1. ArrayInv => (ReadAddressInStep => NothingLeftBehind)
  BY FinishedClean
<1> QED BY <1>1, ArrayInvHolds, PTL

\* ReadAddressInStep: an array whose sizes fit reads its columns in the order of
\* the program: while a read waits, the read address stays, whatever the other
\* columns have ready, whatever idle clocks and restarts come.
THEOREM Accelerator_ReadAddressInStep ==
    ASSUME Fits
    PROVE  Spec => []ReadAddressInStep
<1>1. CallInv => ReadAddressInStep
  BY CallReads
<1> QED BY <1>1, CallInvHolds, PTL

\* ResultsCorrect: every sum the program has read is the convolution of its
\* column, added in the order of the array, and is in its element of the tile;
\* the other elements are unchanged.  So it is for every tile and arithmetic, and
\* for every number of clocks between two instructions.
THEOREM Accelerator_ResultsCorrect ==
    ASSUME Fits
    PROVE  Spec => []ResultsCorrect
<1>1. CallInv => ResultsCorrect
  BY CallResults
<1> QED BY <1>1, CallInvHolds, PTL

\* NoSendIsLost: the buffer that takes a word from the program always has room
\* for it, although the instruction is done whether it has or not.
THEOREM Accelerator_NoSendIsLost ==
    ASSUME Fits
    PROVE  Spec => []NoSendIsLost
<1>1. CallInv => NoSendIsLost
  BY CallSends
<1> QED BY <1>1, CallInvHolds, PTL

\* ResultsFindRoom: a result that leaves a MAC unit finds room in the cell or the
\* accumulator below, which was asked only when the multiplication began.
THEOREM Accelerator_ResultsFindRoom ==
    ASSUME Fits
    PROVE  Spec => []ResultsFindRoom
<1>1. CallInv => ResultsFindRoom
  BY CallRoom
<1> QED BY <1>1, CallInvHolds, PTL

\* NothingLeftBehind, with the order of the reads proved too: an array whose
\* sizes fit is empty after every finished call.
THEOREM Accelerator_CallsStartClean ==
    ASSUME Fits
    PROVE  Spec => []NothingLeftBehind
<1>1. CallInv => NothingLeftBehind
  BY CallReads, FinishedClean DEF CallInv
<1> QED BY <1>1, CallInvHolds, PTL

\* In whole numbers, a finished call has added to element k of the tile the sum,
\* over blocks p and rows r, of weight p * Rows + r times word r + k % Cols of the
\* block: the product that Tiling's PE_Instruction stands for (hello_world.c:202-291).
THEOREM Accelerator_CallAddsTheProduct ==
    ASSUME Fits, WholeNumbers
    PROVE  Spec => [](Finished => \A k \in 0 .. N - 1 :
                                     Tile_Output[k] = Output0(k) + TileProduct(k))
<1>1. CallInv => (Finished => \A k \in 0 .. N - 1 : Tile_Output[k] = Output0(k) + TileProduct(k))
  BY CallAdds
<1> QED BY <1>1, CallInvHolds, PTL
=============================================================================
