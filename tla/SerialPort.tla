----------------------------- MODULE SerialPort -----------------------------
(***************************************************************************)
(* What /dev/jtag_uart promises: two queues of characters, one each way.   *)
(* The characters of a stream are numbered, so that a lost, doubled or     *)
(* overtaking one is seen.                                                 *)
(***************************************************************************)
EXTENDS Naturals, Sequences

CONSTANT MaxCount  \* most characters of a call

VARIABLES given,      \* number of the program's next character
          toHost,     \* accepted from the program, not yet at the host
          typed,      \* number of the host's next character
          toProgram,  \* sent by the host, not yet read
          got         \* what the read call in progress has obtained

vars == <<given, toHost, typed, toProgram, got>>

Run(first, n) == [i \in 1..n |-> first + i - 1]

Init == /\ given = 0 /\ toHost = <<>>
        /\ typed = 0 /\ toProgram = <<>> /\ got = <<>>

Accept == \E n \in 1..MaxCount :
    /\ toHost' = toHost \o Run(given, n)
    /\ given' = given + n
    /\ UNCHANGED <<typed, toProgram, got>>

Arrive == /\ toHost # <<>>
          /\ toHost' = Tail(toHost)
          /\ UNCHANGED <<given, typed, toProgram, got>>

Type == /\ toProgram' = Append(toProgram, typed)
        /\ typed' = typed + 1
        /\ UNCHANGED <<given, toHost, got>>

Obtain == \E n \in 1..Len(toProgram) :
    /\ got' = got \o SubSeq(toProgram, 1, n)
    /\ toProgram' = SubSeq(toProgram, n + 1, Len(toProgram))
    /\ UNCHANGED <<given, toHost, typed>>

Return == /\ got' = <<>>
          /\ UNCHANGED <<given, toHost, typed, toProgram>>

Next == Accept \/ Arrive \/ Type \/ Obtain \/ Return

Spec == Init /\ [][Next]_vars
=============================================================================
