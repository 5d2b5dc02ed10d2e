----------------------------- MODULE BoundedFifo -----------------------------
(***************************************************************************)
(* What an output queue promises its clients: a first-in first-out channel *)
(* that holds at most Capacity texts, loses none, invents none and keeps   *)
(* their order.  A text that is handed in while the channel is full has to *)
(* wait.                                                                   *)
(***************************************************************************)
EXTENDS Naturals, Sequences

CONSTANTS Texts, Capacity

VARIABLES
  put,   \* the texts handed in, in order
  got    \* the texts handed out, in order

vars == <<put, got>>

Init == put = <<>> /\ got = <<>>

Put(text) ==
  /\ Len(put) - Len(got) < Capacity
  /\ put' = Append(put, text)
  /\ UNCHANGED got

Get ==
  /\ Len(got) < Len(put)
  /\ got' = Append(got, put[Len(got) + 1])
  /\ UNCHANGED put

Next == Get \/ \E text \in Texts : Put(text)

Spec == Init /\ [][Next]_vars
=============================================================================
