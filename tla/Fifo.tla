-------------------------------- MODULE Fifo --------------------------------
(***************************************************************************)
(* What "typed, unbounded, thread-safe channel" (README 363) promises: a   *)
(* queue per channel; a message sent is received once, in the order sent.  *)
(***************************************************************************)
EXTENDS Sequences

CONSTANTS Channel, Msg
VARIABLES queue, got      \* what is in transit, what has been received

Init ==
  /\ queue = [c \in Channel |-> <<>>]
  /\ got   = [c \in Channel |-> <<>>]

Send(c, v) == queue' = [queue EXCEPT ![c] = Append(@, v)] /\ UNCHANGED got
Recv(c) ==
  /\ queue[c] # <<>>
  /\ got'   = [got EXCEPT ![c] = Append(@, Head(queue[c]))]
  /\ queue' = [queue EXCEPT ![c] = Tail(@)]

Next == \E c \in Channel : Recv(c) \/ \E v \in Msg : Send(c, v)
Spec == Init /\ [][Next]_<<queue, got>>
============================================================================
