-------------------------------- MODULE Fifo --------------------------------
(***************************************************************************)
(* What a signal queue promises: everything pushed is received, once and   *)
(* in the order of the pushes.                                             *)
(***************************************************************************)
EXTENDS Naturals, Sequences

CONSTANT Items

VARIABLES
  queue,   \* pushed and not yet received
  got      \* received so far

fvars == <<queue, got>>

Init == queue = <<>> /\ got = <<>>

\* One or more items are added at the end.
Put ==
  /\ Len(queue') > Len(queue)
  /\ SubSeq(queue', 1, Len(queue)) = queue
  /\ \A i \in Len(queue) + 1 .. Len(queue') : queue'[i] \in Items
  /\ UNCHANGED got

Get ==
  /\ queue # <<>>
  /\ got' = Append(got, Head(queue))
  /\ queue' = Tail(queue)

Next == Put \/ Get

Spec == Init /\ [][Next]_fvars
=============================================================================
