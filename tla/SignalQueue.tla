---------------------------- MODULE SignalQueue ----------------------------
(***************************************************************************)
(* The queue of a Signal (sydpy/_signal.py) behind an isig or Itlm         *)
(* interface (intfs/isig.py, intfs/itlm.py), used by processes that the    *)
(* kernel of module Simulator schedules: producers that call bpush or      *)
(* push, consumers that loop on bpop, each possibly waiting for a Delay    *)
(* between two calls.  Interfaces connected as slaves share the signal of  *)
(* their master, so the consumers of all of them are consumers here.       *)
(***************************************************************************)
EXTENDS Simulator, Sequences

CONSTANTS
  Producers,          \* processes that push MaxItems items each
  Pushers,            \* the producers that call push (Itlm.write), not bpush
  Consumers,          \* processes that loop on bpop
  MaxItems,           \* bound on the items of a producer
  Enqueued, Updated,  \* the signal's events of these names
  Signal,             \* the signal
  Dflt                \* the interface's default value

Items == Producers \X (1 .. MaxItems)

ASSUME DesignAssumption ==
  /\ Producers \cap Consumers = {}
  /\ Procs = Producers \cup Consumers
  /\ Pushers \subseteq Producers
  /\ Events = {Enqueued, Updated} /\ Enqueued # Updated
  /\ Chain = [e \in Events |-> {}]
  /\ Sigs = {Signal}
  /\ MaxItems \in Nat
  /\ Dflt \notin Items

VARIABLES
  sourced,    \* isig._sourced: the first write has made the Signal
  mem,        \* Signal.mem
  val,        \* Signal._val
  next,       \* Signal._next
  created,    \* the events the event set holds, made at their first use
  step,       \* where each consumer stands in bpop
  pushed,     \* pushed[p]: how many items p has pushed
  received    \* received[c]: what the bpop calls of c returned

sigvars == <<sourced, mem, val, next, created>>
qvars   == <<sigvars, step, pushed, received>>
allvars == <<vars, qvars>>

QTypeOK ==
  /\ sourced \in BOOLEAN
  /\ mem \in Seq(Items)
  /\ val \in Items \cup {Dflt}
  /\ next \in Items \cup {Dflt}
  /\ created \subseteq Events
  /\ step \in [Consumers -> {"idle", "src_wait", "pop_wait", "upd_wait"}]
  /\ pushed \in [Producers -> 0 .. MaxItems]
  /\ received \in [Consumers -> Seq(Items \cup {Dflt})]

QInit ==
  /\ Init
  /\ sourced = FALSE
  /\ mem = <<>>
  /\ val = Dflt
  /\ next = Dflt
  /\ created = {}
  /\ step = [c \in Consumers |-> "idle"]
  /\ pushed = [p \in Producers |-> 0]
  /\ received = [c \in Consumers |-> <<>>]

-----------------------------------------------------------------------------
(* Producers *)

\* The next n items of producer p
Burst(p, n) == [i \in 1 .. n |-> <<p, pushed[p] + i>>]

\* A bpush that tests the queue once, with "if" and not "while"
MayPushOnceWoken(p) == p \in Pushers \/ mem = <<>> \/ Updated \in events[p]

\* push is free, bpush has to find the queue empty.
MayPush(p) == p \in Pushers \/ mem = <<>>

\* A push that tells nobody
EnqueueTriggersNone == {}

\* push triggers enqueued only if somebody has used the event before.
EnqueueTriggers == {Enqueued} \cap created

\* bpush with a non-empty queue: wait for updated; when woken the test is repeated.
BpushBlocks(p) ==
  /\ pushed[p] < MaxItems
  /\ ~MayPush(p)
  /\ RunProc(p, {}, {}, {Updated}, NoDelay)
  /\ created' = created \cup {Updated}
  /\ UNCHANGED <<sourced, mem, val, next, step, pushed, received>>

\* What the process waits for after its last push of the slice: a Delay, the room
\* for its next bpush, or nothing once it has pushed everything.
AfterPush(p, n, W, d) ==
  IF pushed[p] + n = MaxItems THEN W = {} /\ d = NoDelay
  ELSE \/ W = {} /\ d \in Delays
       \/ p \notin Pushers /\ W = {Updated} /\ d = NoDelay

\* A slice with n pushes: one when they are guarded by bpush, any number when not.
Push(p) ==
  /\ pushed[p] < MaxItems
  /\ MayPush(p)
  /\ \E n \in 1 .. MaxItems - pushed[p], W \in {{}, {Updated}}, d \in Delays \cup {NoDelay} :
       /\ p \in Pushers \/ n = 1
       /\ AfterPush(p, n, W, d)
       /\ RunProc(p, EnqueueTriggers, {}, W, d)
       /\ mem' = mem \o Burst(p, n)
       /\ pushed' = [pushed EXCEPT ![p] = @ + n]
       /\ created' = created \cup W
  /\ sourced' = TRUE
  /\ UNCHANGED <<val, next, step, received>>

-----------------------------------------------------------------------------
(* Consumers *)

\* A bpop that was waiting for its update returns the value of the signal.
Returns(c) ==
  received' = IF step[c] = "upd_wait" THEN [received EXCEPT ![c] = Append(@, val)]
              ELSE received

\* The process waits for a Delay before its next bpop.
Rest(c) ==
  /\ step[c] = "upd_wait"
  /\ \E d \in Delays : RunProc(c, {}, {}, {}, d)
  /\ step' = [step EXCEPT ![c] = "idle"]
  /\ Returns(c)
  /\ UNCHANGED <<sigvars, pushed>>

\* bpop finds nothing to pop: isig.bpop when the signal does not exist yet,
\* Signal.bpop when its queue is empty.
BpopBlocks(c) ==
  /\ step[c] # "pop_wait"
  /\ mem = <<>>
  /\ RunProc(c, {}, {}, {Enqueued}, NoDelay)
  /\ step' = [step EXCEPT ![c] = IF sourced THEN "pop_wait" ELSE "src_wait"]
  /\ created' = created \cup {Enqueued}
  /\ Returns(c)
  /\ UNCHANGED <<sourced, mem, val, next, pushed>>

\* list.pop() for list.pop(0): the newest item first
PopLast(q) == [item |-> q[Len(q)], left |-> SubSeq(q, 1, Len(q) - 1)]

\* list.pop(0)
Pop(q) == [item |-> Head(q), left |-> Tail(q)]

\* The head of the queue becomes the next value; bpop waits for it to be updated.
BpopTakes(c) ==
  /\ mem # <<>>
  /\ RunProc(c, {}, {Signal}, {Updated}, NoDelay)
  /\ next' = Pop(mem).item
  /\ mem' = Pop(mem).left
  /\ step' = [step EXCEPT ![c] = "upd_wait"]
  /\ created' = created \cup {Updated}
  /\ Returns(c)
  /\ UNCHANGED <<sourced, val, pushed>>

\* bpop woken by enqueued does not look at the queue again: pop(0) raises when
\* another consumer has emptied it.
BpopRaises(c) ==
  /\ step[c] = "pop_wait"
  /\ mem = <<>>
  /\ Abort(c, {}, {})
  /\ UNCHANGED qvars

-----------------------------------------------------------------------------

\* An update that tells nobody
UpdateTriggersNone == {}

\* Every update of the signal triggers updated, if somebody has used the event.
UpdateTriggers == {Updated} \cap created

\* Signal._update, for the signal if it is in the update pool
SignalUpdate ==
  /\ Update(IF Signal \in updatePool THEN UpdateTriggers ELSE {})
  /\ val' = IF Signal \in updatePool THEN next ELSE val
  /\ UNCHANGED <<sourced, mem, next, created, step, pushed, received>>

QNext ==
  \/ \E p \in Procs : ProcReg(p) /\ UNCHANGED qvars
  \/ KernelStep /\ UNCHANGED qvars
  \/ \E p \in Producers : BpushBlocks(p) \/ Push(p)
  \/ \E c \in Consumers : Rest(c) \/ BpopBlocks(c) \/ BpopTakes(c) \/ BpopRaises(c)
  \/ SignalUpdate
  \/ DeltaEnd({}) /\ UNCHANGED qvars
  \/ Terminated /\ UNCHANGED qvars

QSpec == QInit /\ [][QNext]_allvars

-----------------------------------------------------------------------------
(* Properties *)

\* bpush puts its item in an empty queue: it never stands behind another one, however
\* many producers one update wakes.  (So the queue of a design without push holds one.)
BpushCapacity == \A k \in DOMAIN mem : mem[k][1] \notin Pushers => k = 1

\* Nobody is left behind when a time step has settled: items stay in the queue only
\* while every consumer rests on a Delay or is not started, and a producer stays
\* blocked in bpush only while there are items.
NoStall ==
  pc = "loop" /\ ~Pending =>
    /\ mem # <<>> => \A c \in Consumers \cap procPool : c \in delayed
    /\ \A p \in Producers : Updated \in events[p] => mem # <<>>
    /\ \A c \in Consumers : step[c] # "upd_wait"

\* A simulation that ends because nothing is left to do, not at its time or delta
\* limit, has passed on everything: every producer is done and every item received.
Drained ==
  /\ pc = "finished" /\ time <= Duration /\ deltaCount <= MaxDelta
  /\ Consumers \subseteq procPool
  =>
  /\ \A p \in Producers \cap procPool : pushed[p] = MaxItems
  /\ \A p \in Producers, k \in 1 .. MaxItems :
       k <= pushed[p] => \E c \in Consumers : \E i \in DOMAIN received[c] : received[c][i] = <<p, k>>

\* The docstring of bpop: if the queue is empty, wait for the value to become
\* available.  So no bpop ends in an exception.
BpopWaits == pc # "aborted"

\* The queue as its single consumer sees it: the item between pop and update is
\* still on its way.
Channel == INSTANCE Fifo WITH
  queue <- (IF \E c \in Consumers : step[c] = "upd_wait" THEN <<next>> ELSE <<>>) \o mem,
  got   <- received[CHOOSE c \in Consumers : TRUE]

ChannelSpec == Channel!Spec
=============================================================================
