---------------------------- MODULE DmaChannels ----------------------------
(***************************************************************************)
(* What the two channels of the DMA device promise (HAL/inc/sys/alt_dma.h, *)
(* alt_dma_dev.h): requests are carried out in the order they were posted, *)
(* a transmit request together with a receive request unless one side has  *)
(* been given a fixed register, and each is followed by its callback.      *)
(***************************************************************************)
EXTENDS Naturals, Sequences

CONSTANTS Capacity,  \* requests a channel can hold
          Lens

VARIABLES pending,   \* of each channel, requests not yet carried out
          finished,  \* of each channel, how many have been carried out
          called,    \* of each channel, how many callbacks have been made
          moved,     \* the last transfer
          stream     \* the side with a fixed register, "none" by default

vars == <<pending, finished, called, moved, stream>>

Channels == {"tx", "rx"}
Register == 0
Nothing == [from |-> Register, to |-> Register, len |-> 0]

Shorter(a, b) == IF a < b THEN a ELSE b

Init == /\ pending = [c \in Channels |-> <<>>]
        /\ finished = [c \in Channels |-> 0] /\ called = [c \in Channels |-> 0]
        /\ moved = Nothing /\ stream = "none"

Post(c) == \E len \in Lens :
    /\ Len(pending[c]) < Capacity
    /\ pending' = [pending EXCEPT ![c] =
         Append(@, [id |-> finished[c] + Len(@) + 1, len |-> len])]
    /\ UNCHANGED <<finished, called, moved, stream>>

\* The sides that take part in a transfer with a request of their own.
Asked == Channels \ {stream}

Transfer ==
    /\ \A c \in Asked : pending[c] # <<>>
    /\ LET tx == Head(pending["tx"])
           rx == Head(pending["rx"])
       IN  moved' = CASE stream = "none" -> [from |-> tx.id, to |-> rx.id,
                                             len |-> Shorter(tx.len, rx.len)]
                      [] stream = "rx" -> [from |-> tx.id, to |-> Register, len |-> tx.len]
                      [] OTHER -> [from |-> Register, to |-> rx.id, len |-> rx.len]
    /\ pending' = [c \in Channels |-> IF c \in Asked THEN Tail(pending[c]) ELSE pending[c]]
    /\ finished' = [c \in Channels |-> IF c \in Asked THEN finished[c] + 1 ELSE finished[c]]
    /\ UNCHANGED <<called, stream>>

Callback(c) == /\ called[c] < finished[c]
               /\ called' = [called EXCEPT ![c] = @ + 1]
               /\ UNCHANGED <<pending, finished, moved, stream>>

\* A callback may itself post a request.
CallbackAndPost(c) == \E d \in Channels, len \in Lens :
    /\ called[c] < finished[c] /\ Len(pending[d]) < Capacity
    /\ called' = [called EXCEPT ![c] = @ + 1]
    /\ pending' = [pending EXCEPT ![d] =
         Append(@, [id |-> finished[d] + Len(@) + 1, len |-> len])]
    /\ UNCHANGED <<finished, moved, stream>>

SetStream == /\ \A c \in Channels : pending[c] = <<>>
             /\ stream' \in Channels \cup {"none"}
             /\ UNCHANGED <<pending, finished, called, moved>>

Next == \/ \E c \in Channels : Post(c) \/ Callback(c) \/ CallbackAndPost(c)
        \/ Transfer \/ SetStream

Spec == Init /\ [][Next]_vars
=============================================================================
