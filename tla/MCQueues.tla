------------------------------ MODULE MCQueues ------------------------------
(***************************************************************************)
(* Two signal queues for TLC: one with a single consumer, which the        *)
(* configuration describes, and one that two consumers share.  `part',     *)
(* chosen initially, says which of them runs; the other stays as it is.    *)
(***************************************************************************)
EXTENDS MCSignalQueue

VARIABLES
  part,
  kpc, ktime, kdelta, kready, ktrig, kupdate, kdelay, kproc, kevents, kdelayed, kpool,
  made, queue, value, after, used, at, given, taken

shared == <<kpc, ktime, kdelta, kready, ktrig, kupdate, kdelay, kproc, kevents, kdelayed, kpool,
            made, queue, value, after, used, at, given, taken>>
mcvars == <<part, allvars, shared>>

Shared == INSTANCE SignalQueue WITH
  pc <- kpc, time <- ktime, deltaCount <- kdelta, readyPool <- kready, trigPool <- ktrig,
  updatePool <- kupdate, delayPool <- kdelay, procPool <- kproc, events <- kevents,
  delayed <- kdelayed, evPool <- kpool,
  sourced <- made, mem <- queue, val <- value, next <- after, created <- used, step <- at,
  pushed <- given, received <- taken,
  Producers <- MCProducers, Pushers <- MCNoPusher, Consumers <- MCTwoConsumers,
  Procs <- MCTwoConsumersProcs

ASSUME Shared!DesignAssumption

MCInit == part \in {"single", "shared"} /\ QInit /\ Shared!QInit

MCNext ==
  /\ UNCHANGED part
  /\ \/ part = "single" /\ QNext /\ UNCHANGED shared
     \/ part = "shared" /\ Shared!QNext /\ UNCHANGED allvars

MCSpec == MCInit /\ [][MCNext]_mcvars

\* Whoever shares a queue, until a bpop raises: nobody is left waiting for what has
\* happened when a time step has settled, and bpush puts its item in an empty queue.
QueuesServed == QTypeOK /\ Shared!QTypeOK /\ Shared!NoStall /\ Shared!BpushCapacity
=============================================================================
