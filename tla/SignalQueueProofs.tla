------------------------- MODULE SignalQueueProofs --------------------------
(***************************************************************************)
(* Proofs about the signal queue of module SignalQueue, for any number of  *)
(* producers, consumers and items.  The queue is built on the kernel, so   *)
(* they rest on the theorems of module SimulatorProofs.                    *)
(***************************************************************************)
EXTENDS SignalQueue, SimulatorProofs

-----------------------------------------------------------------------------
(* The queue uses the kernel as it is *)

LEMMA QueueEvents ==
  /\ Enqueued \in Events /\ Updated \in Events
  /\ EnqueueTriggers \subseteq Events /\ UpdateTriggers \subseteq Events
BY DesignAssumption DEF EnqueueTriggers, UpdateTriggers

LEMMA QueueIsKernelStep ==
  ASSUME [QNext]_allvars
  PROVE  [Next]_vars
<1> USE DesignAssumption, QueueEvents
<1>1. CASE \E p \in Procs : ProcReg(p) /\ UNCHANGED qvars
  BY <1>1 DEF Next, DesignStep
<1>2. CASE KernelStep \/ Terminated
  BY <1>2 DEF Next
<1>3. ASSUME NEW p \in Producers, BpushBlocks(p) PROVE Next
  BY <1>3, SliceIsKernelStep DEF BpushBlocks
<1>4. ASSUME NEW p \in Producers, Push(p) PROVE Next
  BY <1>4, SliceIsKernelStep DEF Push
<1>5. ASSUME NEW c \in Consumers, Rest(c) PROVE Next
  BY <1>5, SliceIsKernelStep DEF Rest
<1>6. ASSUME NEW c \in Consumers, BpopBlocks(c) PROVE Next
  BY <1>6, SliceIsKernelStep DEF BpopBlocks
<1>7. ASSUME NEW c \in Consumers, BpopTakes(c) PROVE Next
  BY <1>7, SliceIsKernelStep DEF BpopTakes
<1>8. ASSUME NEW c \in Consumers, BpopRaises(c) PROVE Next
  BY <1>8 DEF BpopRaises, Next, DesignStep
<1>9. CASE SignalUpdate
  BY <1>9 DEF SignalUpdate, Next, DesignStep
<1>10. CASE DeltaEnd({})
  BY <1>10 DEF Next, DesignStep
<1>11. CASE UNCHANGED allvars
  BY <1>11 DEF allvars
<1> QED
  BY <1>1, <1>2, <1>3, <1>4, <1>5, <1>6, <1>7, <1>8, <1>9, <1>10, <1>11 DEF QNext

\* Whatever is proved of the kernel holds while it runs a signal queue.
THEOREM KernelImplemented == QSpec => Spec
<1>1. QInit => Init
  BY DEF QInit
<1>2. [QNext]_allvars => [Next]_vars
  BY QueueIsKernelStep
<1> QED BY <1>1, <1>2, PTL DEF QSpec, Spec

-----------------------------------------------------------------------------
(* Types *)

LEMMA BurstType ==
  ASSUME QTypeOK, NEW p \in Producers, NEW n \in 1 .. MaxItems - pushed[p]
  PROVE  Burst(p, n) \in Seq(Items) /\ Len(Burst(p, n)) = n
<1>1. \A i \in 1 .. n : <<p, pushed[p] + i>> \in Items
  BY DesignAssumption DEF QTypeOK, Items
<1>2. n \in Nat
  OBVIOUS
<1> QED BY <1>1, <1>2 DEF Burst

LEMMA NextQTypeOK == QTypeOK /\ [QNext]_allvars => QTypeOK'
<1> SUFFICES ASSUME QTypeOK, [QNext]_allvars PROVE QTypeOK'
  OBVIOUS
<1> USE DesignAssumption
<1>1. CASE UNCHANGED qvars
  BY <1>1 DEF QTypeOK, qvars, sigvars
<1>2. ASSUME NEW p \in Producers, BpushBlocks(p) PROVE QTypeOK'
  BY <1>2, QueueEvents DEF QTypeOK, BpushBlocks
<1>3. ASSUME NEW p \in Producers, Push(p) PROVE QTypeOK'
  <2>1. PICK n \in 1 .. MaxItems - pushed[p], W \in {{}, {Updated}} :
          /\ mem' = mem \o Burst(p, n)
          /\ pushed' = [pushed EXCEPT ![p] = @ + n]
          /\ created' = created \cup W
    BY <1>3 DEF Push
  <2>2. mem' \in Seq(Items)
    BY <2>1, BurstType DEF QTypeOK
  <2>3. pushed' \in [Producers -> 0 .. MaxItems]
    BY <2>1 DEF QTypeOK
  <2> QED BY <1>3, <2>1, <2>2, <2>3, QueueEvents DEF Push, QTypeOK
<1>4. ASSUME NEW c \in Consumers, Returns(c)
      PROVE received' \in [Consumers -> Seq(Items \cup {Dflt})]
  <2>1. Append(received[c], val) \in Seq(Items \cup {Dflt})
    BY DEF QTypeOK
  <2> QED BY <1>4, <2>1 DEF Returns, QTypeOK
<1>5. ASSUME NEW c \in Consumers, Rest(c) PROVE QTypeOK'
  BY <1>4, <1>5 DEF Rest, QTypeOK, sigvars
<1>6. ASSUME NEW c \in Consumers, BpopBlocks(c) PROVE QTypeOK'
  BY <1>4, <1>6, QueueEvents DEF BpopBlocks, QTypeOK
<1>7. ASSUME NEW c \in Consumers, BpopTakes(c) PROVE QTypeOK'
  <2>1. Head(mem) \in Items /\ Tail(mem) \in Seq(Items)
    BY <1>7 DEF BpopTakes, QTypeOK
  <2> QED BY <1>4, <1>7, <2>1, QueueEvents DEF BpopTakes, QTypeOK, Pop
<1>8. CASE SignalUpdate
  BY <1>8 DEF SignalUpdate, QTypeOK
<1> QED
  BY <1>1, <1>2, <1>3, <1>5, <1>6, <1>7, <1>8 DEF QNext, BpopRaises, allvars

\* The types of the queue's state.
THEOREM QTypeCorrect == QSpec => []QTypeOK
<1>1. QInit => QTypeOK
  <2>1. \A S : <<>> \in Seq(S)
    OBVIOUS
  <2>2. 0 \in 0 .. MaxItems
    BY DesignAssumption
  <2> QED BY <2>1, <2>2 DEF QInit, QTypeOK
<1> QED BY <1>1, NextQTypeOK, PTL DEF QSpec

-----------------------------------------------------------------------------
(* The capacity of bpush *)

LEMMA NextCapacity == QTypeOK /\ BpushCapacity /\ [QNext]_allvars => BpushCapacity'
<1> SUFFICES ASSUME QTypeOK, BpushCapacity, [QNext]_allvars
             PROVE  BpushCapacity'
  OBVIOUS
<1>1. CASE mem' = mem
  BY <1>1 DEF BpushCapacity
<1>2. ASSUME NEW p \in Producers, Push(p) PROVE BpushCapacity'
  <2>1. PICK n \in 1 .. MaxItems - pushed[p] : (p \in Pushers \/ n = 1) /\ mem' = mem \o Burst(p, n)
    BY <1>2 DEF Push
  <2>2. /\ mem \in Seq(Items) /\ Burst(p, n) \in Seq(Items) /\ Len(Burst(p, n)) = n
        /\ \A i \in 1 .. n : Burst(p, n)[i][1] = p
    BY BurstType DEF QTypeOK, Burst
  <2>3. CASE p \in Pushers
    \* what was pushed stays behind what was there
    BY <2>1, <2>2, <2>3 DEF BpushCapacity
  <2>4. CASE p \notin Pushers
    \* the queue is empty when bpush pushes, and it pushes one item
    <3>1. mem = <<>> /\ n = 1
      BY <1>2, <2>1, <2>4 DEF Push, MayPush
    <3> QED BY <2>1, <2>2, <3>1 DEF BpushCapacity
  <2> QED BY <2>3, <2>4
<1>3. ASSUME NEW c \in Consumers, BpopTakes(c) PROVE BpushCapacity'
  <2>1. mem \in Seq(Items) /\ mem # <<>> /\ mem' = Tail(mem)
    BY <1>3 DEF BpopTakes, Pop, QTypeOK
  <2>2. \A k \in DOMAIN mem' : k + 1 \in DOMAIN mem /\ mem'[k] = mem[k + 1] /\ k + 1 # 1
    BY <2>1
  <2> QED BY <2>2 DEF BpushCapacity
<1> QED
  BY <1>1, <1>2, <1>3
  DEF QNext, BpushBlocks, Rest, BpopBlocks, BpopRaises, SignalUpdate, allvars, qvars, sigvars

\* An item that bpush has put in the queue never stands behind another one, however
\* many producers one update wakes.
THEOREM CapacityKept == QSpec => []BpushCapacity
<1>1. QInit => BpushCapacity
  BY DEF QInit, BpushCapacity
<1> QED BY <1>1, NextCapacity, QTypeCorrect, PTL DEF QSpec

-----------------------------------------------------------------------------
(* Nobody is left behind *)

Waiting(c) == step[c] \in {"src_wait", "pop_wait"}

\* What a process waits for follows from where it stands, and the event exists, so
\* that it will be triggered.
WaitsMatch ==
  /\ \A c \in Consumers :
       /\ Waiting(c) => events[c] = {Enqueued} /\ Enqueued \in created
       /\ step[c] = "upd_wait" => events[c] = {Updated} /\ Updated \in created
       /\ step[c] # "idle" => c \notin delayed
  /\ \A p \in Producers : Updated \in events[p] => Updated \in created

\* Whoever has something to wait for no longer is owed a slice, or will be by the
\* update that is to come.
Served ==
  pc # "aborted" =>
    /\ \A c \in Consumers :
         /\ Waiting(c) /\ mem # <<>> => Owed(c)
         /\ step[c] = "upd_wait" => Owed(c) \/ Signal \in updatePool
         /\ step[c] = "idle" /\ c \in procPool => c \in readyPool \/ c \in delayed
    /\ \A p \in Producers :
         Updated \in events[p] /\ mem = <<>> => Owed(p) \/ Signal \in updatePool

LEMMA NextWaitsMatch == KernelInv /\ QTypeOK /\ WaitsMatch /\ [QNext]_allvars => WaitsMatch'
<1> SUFFICES ASSUME KernelInv, QTypeOK, WaitsMatch, [QNext]_allvars PROVE WaitsMatch'
  OBVIOUS
<1> USE DesignAssumption, QueueEvents, DelaysAssumption DEF KernelInv
<1>1. CASE Quiet /\ UNCHANGED qvars
  BY <1>1, QuietEffect DEF WaitsMatch, Waiting, qvars, sigvars
<1>2. CASE SignalUpdate
  BY <1>2 DEF SignalUpdate, Update, WaitsMatch, Waiting, subs
<1>3. ASSUME NEW p \in Producers, BpushBlocks(p) PROVE WaitsMatch'
  <2>1. RunProc(p, {}, {}, {Updated}, NoDelay)
    BY <1>3 DEF BpushBlocks
  <2>2. SliceKeeps(p, {Updated}, NoDelay)
    BY <2>1, SliceEffect
  <2> QED BY <1>3, <2>2 DEF BpushBlocks, WaitsMatch, Waiting, SliceKeeps
<1>4. ASSUME NEW p \in Producers, Push(p) PROVE WaitsMatch'
  <2>1. PICK W \in {{}, {Updated}}, d \in Delays \cup {NoDelay} :
          RunProc(p, EnqueueTriggers, {}, W, d) /\ created' = created \cup W
    BY <1>4 DEF Push
  <2>2. SliceKeeps(p, W, d)
    BY <2>1, SliceEffect
  <2> QED BY <1>4, <2>1, <2>2 DEF Push, WaitsMatch, Waiting, SliceKeeps
<1>5. ASSUME NEW c \in Consumers, Rest(c) PROVE WaitsMatch'
  <2>1. PICK d \in Delays : RunProc(c, {}, {}, {}, d)
    BY <1>5 DEF Rest
  <2>2. SliceKeeps(c, {}, d)
    BY <2>1, SliceEffect
  <2> QED BY <1>5, <2>2 DEF Rest, WaitsMatch, Waiting, SliceKeeps, QTypeOK, sigvars
<1>6. ASSUME NEW c \in Consumers, BpopBlocks(c) PROVE WaitsMatch'
  <2>1. RunProc(c, {}, {}, {Enqueued}, NoDelay)
    BY <1>6 DEF BpopBlocks
  <2>2. SliceKeeps(c, {Enqueued}, NoDelay)
    BY <2>1, SliceEffect
  <2> QED BY <1>6, <2>2 DEF BpopBlocks, WaitsMatch, Waiting, SliceKeeps, QTypeOK
<1>7. ASSUME NEW c \in Consumers, BpopTakes(c) PROVE WaitsMatch'
  <2>1. RunProc(c, {}, {Signal}, {Updated}, NoDelay)
    BY <1>7 DEF BpopTakes
  <2>2. SliceKeeps(c, {Updated}, NoDelay)
    BY <2>1, SliceEffect
  <2> QED BY <1>7, <2>2 DEF BpopTakes, WaitsMatch, Waiting, SliceKeeps, QTypeOK
<1>8. ASSUME NEW c \in Consumers, BpopRaises(c) PROVE WaitsMatch'
  BY <1>8 DEF BpopRaises, Abort, WaitsMatch, Waiting, qvars, sigvars
<1> QED
  BY <1>1, <1>2, <1>3, <1>4, <1>5, <1>6, <1>7, <1>8
  DEF QNext, Quiet, allvars

LEMMA NextServed ==
  /\ KernelInv /\ QTypeOK /\ WaitsMatch /\ Served
  /\ KernelInv' /\ QTypeOK' /\ WaitsMatch'
  /\ [QNext]_allvars
  => Served'
<1> SUFFICES ASSUME KernelInv, QTypeOK, WaitsMatch, Served, KernelInv', QTypeOK',
                    WaitsMatch', [QNext]_allvars, pc' # "aborted"
             PROVE Served'
  BY DEF Served
<1> USE DesignAssumption, QueueEvents, DelaysAssumption DEF KernelInv
<1>1. ASSUME NEW q \in Procs, NEW e \in events'[q], e \in Events, e \in trigPool'
      PROVE  Owed(q)'
  BY <1>1, NotifiedEvents DEF SubscriptionsExact, Owed, Woken
<1>2. CASE Quiet /\ UNCHANGED qvars
  <2>1. pc # "aborted"
    BY <1>2, QuietEffect
  <2> QED BY <1>2, <2>1, QuietEffect DEF Served, Waiting, qvars, sigvars
<1>3. CASE SignalUpdate
  <2>1. pc = "resolve" /\ trigPool = {} /\ UNCHANGED <<events, delayed, readyPool, procPool>>
    BY <1>3 DEF SignalUpdate, Update, subs
  <2>2. ASSUME NEW q \in Procs, Owed(q) PROVE Owed(q)'
    BY <2>1, <2>2 DEF Owed
  <2>3. ASSUME NEW q \in Procs, Updated \in events[q], Updated \in created, Signal \in updatePool
        PROVE  Owed(q)'
    BY <1>1, <1>3, <2>1, <2>3 DEF SignalUpdate, Update, UpdateTriggers
  <2> QED BY <1>3, <2>1, <2>2, <2>3 DEF SignalUpdate, Served, Waiting, WaitsMatch
<1>4. ASSUME NEW p \in Producers, BpushBlocks(p) PROVE Served'
  <2>1. RunProc(p, {}, {}, {Updated}, NoDelay)
    BY <1>4 DEF BpushBlocks
  <2>2. SliceKeeps(p, {Updated}, NoDelay)
    BY <2>1, SliceEffect
  <2>3. /\ pc # "aborted" /\ UNCHANGED <<procPool, updatePool>>
    BY <2>1 DEF RunProc
  <2> QED BY <1>4, <2>2, <2>3 DEF BpushBlocks, MayPush, Served, Waiting, SliceKeeps
<1>5. ASSUME NEW p \in Producers, Push(p) PROVE Served'
  <2>1. PICK n \in 1 .. MaxItems - pushed[p], W \in {{}, {Updated}}, d \in Delays \cup {NoDelay} :
          RunProc(p, EnqueueTriggers, {}, W, d) /\ mem' = mem \o Burst(p, n)
    BY <1>5 DEF Push
  <2>2. SliceKeeps(p, W, d)
    BY <2>1, SliceEffect
  <2>3. /\ pc # "aborted" /\ UNCHANGED <<procPool, updatePool>>
        /\ trigPool' = trigPool \cup EnqueueTriggers
    BY <2>1 DEF RunProc
  <2>4. mem' # <<>>
    BY <2>1, BurstType DEF QTypeOK
  <2>5. ASSUME NEW c \in Consumers, Waiting(c) PROVE Owed(c)'
    BY <1>1, <2>2, <2>3, <2>5 DEF WaitsMatch, SliceKeeps, EnqueueTriggers
  <2> QED BY <1>5, <2>2, <2>3, <2>4, <2>5 DEF Push, Served, Waiting, SliceKeeps
<1>6. ASSUME NEW c \in Consumers, Rest(c) PROVE Served'
  <2>1. PICK d \in Delays : RunProc(c, {}, {}, {}, d)
    BY <1>6 DEF Rest
  <2>2. SliceKeeps(c, {}, d)
    BY <2>1, SliceEffect
  <2>3. /\ pc # "aborted" /\ UNCHANGED <<procPool, updatePool>>
        /\ d # NoDelay
    BY <2>1 DEF RunProc, NoDelay
  <2> QED BY <1>6, <2>2, <2>3 DEF Rest, Served, Waiting, SliceKeeps, QTypeOK, sigvars
<1>7. ASSUME NEW c \in Consumers, BpopBlocks(c) PROVE Served'
  <2>1. RunProc(c, {}, {}, {Enqueued}, NoDelay)
    BY <1>7 DEF BpopBlocks
  <2>2. SliceKeeps(c, {Enqueued}, NoDelay)
    BY <2>1, SliceEffect
  <2>3. /\ pc # "aborted" /\ UNCHANGED <<procPool, updatePool>>
    BY <2>1 DEF RunProc
  <2> QED BY <1>7, <2>2, <2>3 DEF BpopBlocks, Served, Waiting, SliceKeeps, QTypeOK
<1>8. ASSUME NEW c \in Consumers, BpopTakes(c) PROVE Served'
  <2>1. RunProc(c, {}, {Signal}, {Updated}, NoDelay)
    BY <1>8 DEF BpopTakes
  <2>2. SliceKeeps(c, {Updated}, NoDelay)
    BY <2>1, SliceEffect
  <2>3. /\ pc # "aborted" /\ UNCHANGED procPool /\ Signal \in updatePool'
    BY <2>1 DEF RunProc
  <2> QED BY <1>8, <2>2, <2>3 DEF BpopTakes, Served, Waiting, SliceKeeps, QTypeOK
<1>9. ASSUME NEW c \in Consumers, BpopRaises(c) PROVE FALSE
  BY <1>9 DEF BpopRaises, Abort
<1> QED
  BY <1>2, <1>3, <1>4, <1>5, <1>6, <1>7, <1>8, <1>9
  DEF QNext, Quiet, allvars

LEMMA ServedIsNoStall ==
  ASSUME KernelInv, WaitsMatch, Served, QTypeOK
  PROVE  NoStall
<1> SUFFICES ASSUME pc = "loop", readyPool = {}, trigPool = {}
             PROVE  /\ mem # <<>> => \A c \in Consumers \cap procPool : c \in delayed
                    /\ \A p \in Producers : Updated \in events[p] => mem # <<>>
                    /\ \A c \in Consumers : step[c] # "upd_wait"
  BY DEF NoStall, Pending
<1>1. \A q \in Procs : ~Owed(q)
  BY DEF Owed
<1>2. updatePool = {}
  BY DEF KernelInv, WritesSettle
<1> QED BY <1>1, <1>2, DesignAssumption DEF Served, Waiting, QTypeOK

LEMMA ServedCorrect == QSpec => [](KernelInv /\ QTypeOK /\ WaitsMatch /\ Served)
<1>1. QInit => WaitsMatch /\ Served
  BY DesignAssumption, QueueEvents DEF QInit, Init, WaitsMatch, Served, Waiting
<1>2. Spec => []KernelInv
  BY TypeCorrect, SubscriptionsCorrect, WritesCorrect, PTL DEF KernelInv
<1> QED
  BY <1>1, <1>2, NextWaitsMatch, NextServed, QTypeCorrect, KernelImplemented, PTL DEF QSpec

\* When a time step has settled, nobody waits for something that has already happened:
\* no consumer for an item that is there, no producer for room that is there.
THEOREM NobodyStalls == QSpec => []NoStall
<1>1. KernelInv /\ QTypeOK /\ WaitsMatch /\ Served => NoStall
  BY ServedIsNoStall
<1> QED BY <1>1, ServedCorrect, PTL

-----------------------------------------------------------------------------
(* One consumer *)

\* The protocol between the consumer and the queue, in the middle of a delta cycle too.
Handshake(c) ==
  /\ pc = "elaborate" => step[c] = "idle"
  \* an update is requested, or its event triggered, for the consumer's pop alone
  /\ Signal \in updatePool \/ Updated \in trigPool =>
       step[c] = "upd_wait" /\ c \notin readyPool
  /\ Signal \in updatePool => Updated \notin trigPool
  \* enqueued is pending with nothing in the queue just after the consumer took it all
  /\ mem = <<>> /\ Enqueued \in trigPool => Signal \in updatePool
  \* so that nothing wakes it from its wait for an item before there is one
  /\ mem = <<>> /\ step[c] = "pop_wait" => c \notin readyPool
  \* what was popped has become the value when the consumer is to return it
  /\ step[c] = "upd_wait" /\ Signal \notin updatePool => val = next

LEMMA NextHandshake ==
  ASSUME NEW c, Consumers = {c}, KernelInv, TimersExact, QTypeOK, WaitsMatch, Handshake(c),
         pc # "aborted", [QNext]_allvars
  PROVE  Handshake(c)' /\ pc' # "aborted"
<1> USE DesignAssumption, QueueEvents DEF KernelInv, Unchained
<1> DEFINE Kept == Handshake(c)' /\ pc' # "aborted"
<1>1. CASE Quiet /\ UNCHANGED qvars
  <2>1. CASE pc = "elaborate"
    BY <1>1, <2>1 DEF Quiet, KernelStep, Run, TimestepStart, DeltaStart, EvaluateDone,
       Resolve, DeltaLimit, AdvanceTime, NothingScheduled, ProcReg, DeltaEnd, Terminated,
       vars, pools, Handshake, qvars, sigvars
  <2>2. CASE pc # "elaborate"
    <3>1. UNCHANGED <<step, mem, val, next, updatePool, events>>
      BY <1>1, QuietEffect DEF qvars, sigvars
    <3>2. trigPool' \subseteq trigPool /\ pc' # "elaborate" /\ pc' # "aborted"
      BY <1>1, <2>2 DEF Quiet, KernelStep, Run, TimestepStart, DeltaStart, EvaluateDone,
         Resolve, DeltaLimit, AdvanceTime, NothingScheduled, ProcReg, DeltaEnd, Terminated,
         vars, pools
    <3>3. step[c] = "upd_wait" /\ c \notin readyPool /\ c \in readyPool' =>
            Updated \in trigPool /\ Updated \notin trigPool'
      BY <1>1, <2>2, WhoIsWoken DEF WaitsMatch
    <3>4. step[c] = "pop_wait" /\ c \notin readyPool /\ c \in readyPool' =>
            Enqueued \in trigPool
      BY <1>1, <2>2, WhoIsWoken DEF WaitsMatch, Waiting
    <3> QED BY <3>1, <3>2, <3>3, <3>4 DEF Handshake
  <2> QED BY <2>1, <2>2
<1>2. CASE SignalUpdate
  BY <1>2 DEF SignalUpdate, Update, UpdateTriggers, Handshake
<1>3. ASSUME NEW p \in Producers, BpushBlocks(p) PROVE Kept
  <2>1. RunProc(p, {}, {}, {Updated}, NoDelay)
    BY <1>3 DEF BpushBlocks
  <2> QED BY <1>3, <2>1 DEF BpushBlocks, RunProc, Handshake
<1>4. ASSUME NEW p \in Producers, Push(p) PROVE Kept
  <2>1. PICK n \in 1 .. MaxItems - pushed[p], W \in {{}, {Updated}}, d \in Delays \cup {NoDelay} :
          RunProc(p, EnqueueTriggers, {}, W, d) /\ mem' = mem \o Burst(p, n)
    BY <1>4 DEF Push
  <2>2. mem' # <<>>
    BY <2>1, BurstType DEF QTypeOK
  <2>3. UNCHANGED <<step, val, next>>
    BY <1>4 DEF Push
  <2> QED BY <2>1, <2>2, <2>3 DEF RunProc, Handshake, EnqueueTriggers
<1>5. CASE Rest(c)
  <2>1. PICK d \in Delays : RunProc(c, {}, {}, {}, d)
    BY <1>5 DEF Rest
  <2> QED BY <1>5, <2>1 DEF Rest, RunProc, Handshake, QTypeOK, sigvars
<1>6. CASE BpopBlocks(c)
  <2>1. RunProc(c, {}, {}, {Enqueued}, NoDelay)
    BY <1>6 DEF BpopBlocks
  <2> QED BY <1>6, <2>1 DEF BpopBlocks, RunProc, Handshake, QTypeOK
<1>7. CASE BpopTakes(c)
  <2>1. RunProc(c, {}, {Signal}, {Updated}, NoDelay)
    BY <1>7 DEF BpopTakes
  <2> QED BY <1>7, <2>1 DEF BpopTakes, RunProc, Handshake, QTypeOK
<1>8. ~BpopRaises(c)
  BY DEF BpopRaises, Abort, Handshake
<1> QED
  BY <1>1, <1>2, <1>3, <1>4, <1>5, <1>6, <1>7, <1>8
  DEF QNext, Quiet, allvars

LEMMA HandshakeCorrect ==
  ASSUME NEW CONSTANT c, Consumers = {c}
  PROVE  QSpec => [](Handshake(c) /\ BpopWaits)
<1>1. QInit => Handshake(c) /\ BpopWaits
  BY DEF QInit, Init, Handshake, BpopWaits
<1>2. /\ KernelInv /\ TimersExact /\ QTypeOK /\ WaitsMatch
      /\ Handshake(c) /\ BpopWaits
      /\ [QNext]_allvars
      => Handshake(c)' /\ BpopWaits'
  BY NextHandshake DEF BpopWaits
<1> QED
  BY <1>1, <1>2, ServedCorrect, TimersCorrect, KernelImplemented, PTL DEF QSpec

\* A bpop of the only consumer waits until there is an item: it never finds the queue
\* empty after its wait, however many producers push and whenever they do.
THEOREM BpopNeverRaises ==
  ASSUME NEW CONSTANT c, Consumers = {c}
  PROVE  QSpec => []BpopWaits
BY HandshakeCorrect, PTL

-----------------------------------------------------------------------------
(* The queue implements module Fifo *)

\* Facts about sequences.
LEMMA AppendOne ==
  ASSUME NEW S, NEW x \in S, NEW q \in Seq(S)
  PROVE  /\ <<x>> \o q \in Seq(S) /\ <<x>> \o q # <<>>
         /\ Head(<<x>> \o q) = x /\ Tail(<<x>> \o q) = q
OBVIOUS

LEMMA HeadTail ==
  ASSUME NEW S, NEW q \in Seq(S), q # <<>>
  PROVE  <<Head(q)>> \o Tail(q) = q
OBVIOUS

LEMMA ConcatGrows ==
  ASSUME NEW S, NEW q \in Seq(S), NEW R, NEW b \in Seq(R), Len(b) >= 1
  PROVE  /\ Len(q \o b) > Len(q)
         /\ SubSeq(q \o b, 1, Len(q)) = q
         /\ \A i \in Len(q) + 1 .. Len(q \o b) : (q \o b)[i] \in R
OBVIOUS

LEMMA ConcatAssoc ==
  ASSUME NEW S, NEW x \in S, NEW q \in Seq(S), NEW b \in Seq(S)
  PROVE  <<x>> \o (q \o b) = (<<x>> \o q) \o b
OBVIOUS

\* The queue as the consumer c sees it, with the item that bpop has taken out of mem
\* and not yet returned.
InFlight(c) == IF step[c] = "upd_wait" THEN <<next>> \o mem ELSE mem

LEMMA InFlightGrows ==
  ASSUME NEW c, NEW S, next \in S, mem \in Seq(S), NEW b \in Seq(S), mem' = mem \o b,
         UNCHANGED <<step, next>>
  PROVE  InFlight(c)' = InFlight(c) \o b
<1>1. CASE step[c] = "upd_wait"
  <2>1. InFlight(c)' = <<next>> \o (mem \o b) /\ InFlight(c) = <<next>> \o mem
    BY <1>1 DEF InFlight
  <2> QED BY <2>1, ConcatAssoc
<1>2. CASE step[c] # "upd_wait"
  BY <1>2 DEF InFlight
<1> QED BY <1>1, <1>2

LEMMA ChannelMapping ==
  ASSUME NEW c, Consumers = {c}, mem \in Seq(Items)
  PROVE  /\ (IF \E k \in Consumers : step[k] = "upd_wait" THEN <<next>> ELSE <<>>) \o mem
              = InFlight(c)
         /\ received[CHOOSE k \in Consumers : TRUE] = received[c]
<1>1. <<>> \o mem = mem
  OBVIOUS
<1>2. (CHOOSE k \in Consumers : TRUE) = c
  OBVIOUS
<1> QED BY <1>1, <1>2 DEF InFlight

LEMMA ChannelMappingPrime ==
  ASSUME NEW c, Consumers = {c}, mem' \in Seq(Items)
  PROVE  /\ (IF \E k \in Consumers : step'[k] = "upd_wait" THEN <<next'>> ELSE <<>>) \o mem'
              = InFlight(c)'
         /\ received'[CHOOSE k \in Consumers : TRUE] = received'[c]
<1>1. <<>> \o mem' = mem'
  OBVIOUS
<1>2. (CHOOSE k \in Consumers : TRUE) = c
  OBVIOUS
<1> QED BY <1>1, <1>2 DEF InFlight

\* An addition to the end of the queue, and the delivery of its first item.
Grows(c) ==
  /\ Len(InFlight(c)') > Len(InFlight(c))
  /\ SubSeq(InFlight(c)', 1, Len(InFlight(c))) = InFlight(c)
  /\ \A i \in Len(InFlight(c)) + 1 .. Len(InFlight(c)') : InFlight(c)'[i] \in Items
  /\ UNCHANGED received

Delivers(c) ==
  /\ InFlight(c) # <<>>
  /\ received'[c] = Append(received[c], Head(InFlight(c)))
  /\ InFlight(c)' = Tail(InFlight(c))

\* Each step adds to the end of the queue, or hands its first item to the consumer,
\* or does neither.
LEMMA ChannelStep ==
  ASSUME NEW c, Consumers = {c}, QTypeOK, Handshake(c), [QNext]_allvars
  PROVE  \/ Grows(c) /\ \E p \in Producers : Push(p)
         \/ Delivers(c) /\ UNCHANGED pushed
         \/ UNCHANGED <<InFlight(c), received, pushed>>
<1> DEFINE S == Items \cup {Dflt}
<1> mem \in Seq(S) /\ next \in S /\ mem \in Seq(Items)
  BY DEF QTypeOK
<1>1. CASE UNCHANGED <<step, next, mem, received, pushed>>
  BY <1>1 DEF InFlight
<1>2. ASSUME NEW p \in Producers, Push(p) PROVE Grows(c)
  <2>1. PICK n \in 1 .. MaxItems - pushed[p] : mem' = mem \o Burst(p, n)
    BY <1>2 DEF Push
  <2>2. Burst(p, n) \in Seq(Items) /\ Burst(p, n) \in Seq(S) /\ Len(Burst(p, n)) >= 1
    BY BurstType
  <2>3. InFlight(c) \in Seq(S)
    BY AppendOne DEF InFlight
  <2>4. InFlight(c)' = InFlight(c) \o Burst(p, n)
    <3>1. UNCHANGED <<step, next>>
      BY <1>2 DEF Push
    <3> QED BY <2>1, <2>2, <3>1, InFlightGrows
  <2>5. UNCHANGED received
    BY <1>2 DEF Push
  <2> HIDE DEF S
  <2> QED BY <2>2, <2>3, <2>4, <2>5, ConcatGrows DEF Grows
<1>3. ASSUME step[c] = "upd_wait", Returns(c), InFlight(c)' = mem, c \in readyPool
      PROVE  Delivers(c)
  <2>1. val = next
    BY <1>3 DEF Handshake
  <2>2. received'[c] = Append(received[c], next)
    BY <1>3, <2>1 DEF Returns, QTypeOK
  <2>3. InFlight(c) = <<next>> \o mem
    BY <1>3 DEF InFlight
  <2>4. <<next>> \o mem # <<>> /\ Head(<<next>> \o mem) = next /\ Tail(<<next>> \o mem) = mem
    BY AppendOne
  <2> QED BY <1>3, <2>2, <2>3, <2>4 DEF Delivers
<1>4. CASE Rest(c)
  <2>1. /\ step[c] = "upd_wait" /\ Returns(c) /\ c \in readyPool /\ InFlight(c)' = mem
        /\ UNCHANGED pushed
    BY <1>4 DEF Rest, RunProc, InFlight, QTypeOK, sigvars
  <2> QED BY <1>3, <2>1
<1>5. CASE BpopBlocks(c)
  <2>1. Returns(c) /\ c \in readyPool /\ InFlight(c)' = mem /\ UNCHANGED pushed
    BY <1>5 DEF BpopBlocks, RunProc, InFlight, QTypeOK
  <2> QED BY <1>3, <2>1 DEF Returns, InFlight
<1>6. CASE BpopTakes(c)
  <2>1. Returns(c) /\ c \in readyPool /\ UNCHANGED pushed
    BY <1>6 DEF BpopTakes, RunProc
  <2>2. InFlight(c)' = mem
    BY <1>6, HeadTail DEF BpopTakes, Pop, InFlight, QTypeOK
  <2> QED BY <1>3, <2>1, <2>2 DEF Returns, InFlight
<1> QED
  BY <1>1, <1>2, <1>4, <1>5, <1>6
  DEF QNext, BpushBlocks, BpopRaises, SignalUpdate, allvars, qvars, sigvars

\* With one consumer the signal queue is a FIFO channel: bpop returns every item once,
\* in the order of the pushes, and returns no other value.
THEOREM ChannelImplemented ==
  ASSUME NEW CONSTANT c, Consumers = {c}
  PROVE  QSpec => ChannelSpec
<1>1. QInit /\ QTypeOK => Channel!Init
  BY ChannelMapping DEF QInit, Channel!Init, InFlight
<1>2. QTypeOK /\ QTypeOK' /\ Handshake(c) /\ [QNext]_allvars => [Channel!Next]_(Channel!fvars)
  <2> SUFFICES ASSUME QTypeOK, QTypeOK', Handshake(c), [QNext]_allvars
               PROVE  [Channel!Next]_(Channel!fvars)
    OBVIOUS
  <2>1. mem \in Seq(Items) /\ mem' \in Seq(Items)
    BY DEF QTypeOK
  <2>2. CASE Grows(c)
    BY <2>1, <2>2, ChannelMapping, ChannelMappingPrime
    DEF Grows, Channel!Next, Channel!Put
  <2>3. CASE Delivers(c)
    BY <2>1, <2>3, ChannelMapping, ChannelMappingPrime
    DEF Delivers, Channel!Next, Channel!Get
  <2>4. CASE UNCHANGED <<InFlight(c), received>>
    BY <2>1, <2>4, ChannelMapping, ChannelMappingPrime DEF Channel!fvars
  <2> QED BY <2>2, <2>3, <2>4, ChannelStep
<1> QED
  BY <1>1, <1>2, HandshakeCorrect, QTypeCorrect, PTL DEF QSpec, ChannelSpec, Channel!Spec

-----------------------------------------------------------------------------
(* Everything pushed is received *)

\* A producer that has not pushed everything is on its way to its next push: it is to
\* run, it rests on a Delay, or it is blocked in bpush.
ProducersGoOn ==
  pc # "aborted" =>
    \A p \in Producers \cap procPool :
      pushed[p] < MaxItems => p \in readyPool \/ p \in delayed \/ Updated \in events[p]

\* Every item that was pushed has been received by c or is on its way to it.
Accounted(c) ==
  \A p \in Producers, k \in 1 .. MaxItems :
    k <= pushed[p] => \/ \E i \in DOMAIN received[c] : received[c][i] = <<p, k>>
                      \/ \E i \in DOMAIN InFlight(c) : InFlight(c)[i] = <<p, k>>

\* Where the elements of two concatenated sequences are.
LEMMA ConcatAt ==
  ASSUME NEW S, NEW q \in Seq(S), NEW b \in Seq(S)
  PROVE  /\ \A i \in DOMAIN q : i \in DOMAIN (q \o b) /\ (q \o b)[i] = q[i]
         /\ \A j \in 1 .. Len(b) : /\ Len(q) + j \in DOMAIN (q \o b)
                                 /\ (q \o b)[Len(q) + j] = b[j]
OBVIOUS

LEMMA NextProducersGoOn ==
  ASSUME KernelInv, QTypeOK, ProducersGoOn, [QNext]_allvars, pc' # "aborted"
  PROVE  ProducersGoOn'
<1> USE DesignAssumption, QueueEvents, DelaysAssumption DEF KernelInv
<1>1. CASE Quiet /\ UNCHANGED qvars
  BY <1>1, QuietEffect DEF ProducersGoOn, qvars
<1>2. CASE SignalUpdate
  BY <1>2 DEF SignalUpdate, Update, ProducersGoOn, subs
<1>3. ASSUME NEW p \in Producers, BpushBlocks(p) PROVE ProducersGoOn'
  <2>1. RunProc(p, {}, {}, {Updated}, NoDelay)
    BY <1>3 DEF BpushBlocks
  <2>2. SliceKeeps(p, {Updated}, NoDelay) /\ pc # "aborted" /\ procPool' = procPool
    BY <2>1, SliceEffect
  <2> QED BY <1>3, <2>2 DEF BpushBlocks, ProducersGoOn, SliceKeeps
<1>4. ASSUME NEW p \in Producers, Push(p) PROVE ProducersGoOn'
  <2>1. PICK n \in 1 .. MaxItems - pushed[p], W \in {{}, {Updated}}, d \in Delays \cup {NoDelay} :
          /\ AfterPush(p, n, W, d)
          /\ RunProc(p, EnqueueTriggers, {}, W, d)
          /\ pushed' = [pushed EXCEPT ![p] = @ + n]
    BY <1>4 DEF Push
  <2>2. SliceKeeps(p, W, d) /\ pc # "aborted" /\ procPool' = procPool
    BY <2>1, SliceEffect
  <2>3. pushed'[p] < MaxItems => p \in delayed' \/ Updated \in events'[p]
    BY <2>1, <2>2 DEF AfterPush, SliceKeeps, NoDelay, QTypeOK
  <2>4. \A q \in Producers \ {p} : pushed'[q] = pushed[q]
    BY <2>1 DEF QTypeOK
  <2> QED BY <2>2, <2>3, <2>4 DEF ProducersGoOn, SliceKeeps
<1>5. ASSUME NEW c \in Consumers, NEW U \in SUBSET Sigs, NEW W \in SUBSET Events,
             NEW d \in Delays \cup {NoDelay}, RunProc(c, {}, U, W, d), UNCHANGED pushed
      PROVE  ProducersGoOn'
  <2>1. SliceKeeps(c, W, d) /\ pc # "aborted" /\ procPool' = procPool
    BY <1>5, SliceEffect
  <2> QED BY <1>5, <2>1 DEF ProducersGoOn, SliceKeeps
<1>6. ASSUME NEW c \in Consumers, Rest(c) \/ BpopBlocks(c) \/ BpopTakes(c)
      PROVE  ProducersGoOn'
  BY <1>5, <1>6 DEF Rest, BpopBlocks, BpopTakes
<1>7. ASSUME NEW c \in Consumers PROVE ~BpopRaises(c)
  BY DEF BpopRaises, Abort
<1> QED
  BY <1>1, <1>2, <1>3, <1>4, <1>6, <1>7 DEF QNext, Quiet, allvars

LEMMA NextAccounted ==
  ASSUME NEW c, Consumers = {c}, QTypeOK, QTypeOK', Handshake(c), Accounted(c),
         [QNext]_allvars
  PROVE  Accounted(c)'
<1> DEFINE S == Items \cup {Dflt}
<1>0. /\ mem \in Seq(Items) /\ mem \in Seq(S) /\ next \in S
      /\ InFlight(c) \in Seq(S) /\ received[c] \in Seq(S)
  <2>1. mem \in Seq(Items) /\ mem \in Seq(S) /\ next \in S /\ received[c] \in Seq(S)
    BY DEF QTypeOK
  <2> QED BY <2>1, AppendOne DEF InFlight
<1> HIDE DEF S
<1>1. ASSUME NEW p \in Producers, Push(p) PROVE Accounted(c)'
  <2>1. PICK n \in 1 .. MaxItems - pushed[p] :
          mem' = mem \o Burst(p, n) /\ pushed' = [pushed EXCEPT ![p] = @ + n]
    BY <1>1 DEF Push
  <2>2. Burst(p, n) \in Seq(S) /\ Len(Burst(p, n)) = n
    BY <2>1, BurstType DEF S
  <2>3. InFlight(c)' = InFlight(c) \o Burst(p, n)
    <3>1. UNCHANGED <<step, next>>
      BY <1>1 DEF Push
    <3> QED BY <1>0, <2>1, <2>2, <3>1, InFlightGrows
  <2> SUFFICES ASSUME NEW q \in Producers, NEW k \in 1 .. MaxItems, k <= pushed'[q]
               PROVE  \/ \E i \in DOMAIN received'[c] : received'[c][i] = <<q, k>>
                      \/ \E i \in DOMAIN InFlight(c)' : InFlight(c)'[i] = <<q, k>>
    BY DEF Accounted
  <2>4. CASE k <= pushed[q]
    <3>1. CASE \E i \in DOMAIN received[c] : received[c][i] = <<q, k>>
      BY <1>1, <3>1 DEF Push
    <3>2. CASE \E i \in DOMAIN InFlight(c) : InFlight(c)[i] = <<q, k>>
      <4>1. PICK i \in DOMAIN InFlight(c) : InFlight(c)[i] = <<q, k>>
        BY <3>2
      <4>2. i \in DOMAIN InFlight(c)' /\ InFlight(c)'[i] = <<q, k>>
        BY <1>0, <2>2, <2>3, <4>1, ConcatAt
      <4> QED BY <4>2
    <3> QED BY <2>4, <3>1, <3>2 DEF Accounted
  <2>5. CASE ~(k <= pushed[q])
    <3>1. q = p /\ pushed[p] \in Nat /\ k - pushed[p] \in 1 .. n
      BY <2>1, <2>5, DesignAssumption DEF QTypeOK
    <3>2. Burst(p, n)[k - pushed[p]] = <<q, k>>
      BY <3>1, DesignAssumption DEF Burst
    <3>3. \E i \in DOMAIN (InFlight(c) \o Burst(p, n)) :
            (InFlight(c) \o Burst(p, n))[i] = <<q, k>>
      <4>1. k - pushed[p] \in 1 .. Len(Burst(p, n))
        BY <2>2, <3>1
      <4>2. InFlight(c) \in Seq(S) /\ Burst(p, n) \in Seq(S)
        BY <1>0, <2>2
      <4>3. \A j \in 1 .. Len(Burst(p, n)) :
              /\ Len(InFlight(c)) + j \in DOMAIN (InFlight(c) \o Burst(p, n))
              /\ (InFlight(c) \o Burst(p, n))[Len(InFlight(c)) + j] = Burst(p, n)[j]
        BY <4>2, ConcatAt
      <4> QED BY <3>2, <4>1, <4>3, Zenon
    <3> QED BY <2>3, <3>3
  <2> QED BY <2>4, <2>5
<1>2. CASE Delivers(c) /\ UNCHANGED pushed
  <2> DEFINE f == InFlight(c)
  <2>1. /\ received'[c] = Append(received[c], Head(f)) /\ InFlight(c)' = Tail(f) /\ f # <<>>
    BY <1>2 DEF Delivers
  <2>2. f \in Seq(S)
    BY <1>0
  <2> HIDE DEF f
  <2> SUFFICES ASSUME NEW q \in Producers, NEW k \in 1 .. MaxItems, k <= pushed[q]
               PROVE  \/ \E i \in DOMAIN received'[c] : received'[c][i] = <<q, k>>
                      \/ \E i \in DOMAIN InFlight(c)' : InFlight(c)'[i] = <<q, k>>
    BY <1>2 DEF Accounted
  <2>3. CASE \E i \in DOMAIN received[c] : received[c][i] = <<q, k>>
    <3>1. PICK i \in DOMAIN received[c] : received[c][i] = <<q, k>>
      BY <2>3
    <3>2. i \in DOMAIN received'[c] /\ received'[c][i] = <<q, k>>
      BY <1>0, <2>1, <2>2, <3>1
    <3> QED BY <3>2
  <2>4. CASE \E i \in DOMAIN f : f[i] = <<q, k>>
    <3>1. PICK i \in DOMAIN f : f[i] = <<q, k>>
      BY <2>4
    <3>2. CASE i = 1
      <4>1. /\ Len(received[c]) + 1 \in DOMAIN received'[c]
            /\ received'[c][Len(received[c]) + 1] = <<q, k>>
        BY <1>0, <2>1, <2>2, <3>1, <3>2
      <4> QED BY <4>1
    <3>3. CASE i # 1
      <4>1. i - 1 \in DOMAIN Tail(f) /\ Tail(f)[i - 1] = <<q, k>>
        BY <2>1, <2>2, <3>1, <3>3
      <4> QED BY <2>1, <4>1
    <3> QED BY <3>2, <3>3
  <2> QED BY <2>3, <2>4 DEF Accounted, f
<1>3. CASE UNCHANGED <<InFlight(c), received, pushed>>
  BY <1>3 DEF Accounted
<1> QED BY <1>1, <1>2, <1>3, ChannelStep

LEMMA DrainedAtEnd ==
  ASSUME NEW c, Consumers = {c}, KernelInv, TimersExact, EndsSettled, QTypeOK, WaitsMatch,
         Served, ProducersGoOn, Accounted(c)
  PROVE  Drained
<1> USE DesignAssumption DEF KernelInv
<1> SUFFICES ASSUME pc = "finished", time <= Duration, deltaCount <= MaxDelta,
                    Consumers \subseteq procPool
             PROVE  /\ \A p \in Producers \cap procPool : pushed[p] = MaxItems
                    /\ \A p \in Producers, k \in 1 .. MaxItems :
                         k <= pushed[p] => \E i \in DOMAIN received[c] : received[c][i] = <<p, k>>
  BY DEF Drained
<1>1. readyPool = {} /\ trigPool = {} /\ Scheduled = {} /\ updatePool = {}
  BY DEF EndsSettled, Pending, WritesSettle
<1>2. \A q \in Procs : ~Owed(q) /\ q \notin delayed
  BY <1>1 DEF Owed, TimersExact, Scheduled
\* the consumer waits for an item, and there is none
<1>3. Waiting(c) /\ mem = <<>>
  BY <1>1, <1>2 DEF Served, Waiting, QTypeOK
\* so that no producer is left blocked
<1>4. \A p \in Producers : Updated \notin events[p]
  BY <1>1, <1>2, <1>3 DEF Served
<1>5. \A p \in Producers \cap procPool : pushed[p] = MaxItems
  <2> TAKE p \in Producers \cap procPool
  <2>1. p \notin readyPool /\ p \notin delayed /\ Updated \notin events[p]
    BY <1>1, <1>2, <1>4
  <2>2. ~ (pushed[p] < MaxItems)
    BY <2>1 DEF ProducersGoOn
  <2>3. pushed[p] \in 0 .. MaxItems
    BY DEF QTypeOK
  <2> QED BY <2>2, <2>3
<1>6. DOMAIN InFlight(c) = {}
  BY <1>3 DEF InFlight, Waiting
<1> QED BY <1>5, <1>6 DEF Accounted

\* With one consumer, a simulation that ends because nothing is left to do has passed
\* everything on: all producers are done, and every item they pushed was received.
THEOREM AllDrained ==
  ASSUME NEW CONSTANT c, Consumers = {c}
  PROVE  QSpec => []Drained
<1> DEFINE Inv == ProducersGoOn /\ Accounted(c)
<1>1. QInit => Inv
  <2> SUFFICES ASSUME QInit PROVE ProducersGoOn /\ Accounted(c)
    OBVIOUS
  <2>1. \A p \in Producers : pushed[p] = 0
    BY DEF QInit
  <2> QED BY <2>1 DEF QInit, Init, ProducersGoOn, Accounted
<1>2. /\ KernelInv /\ QTypeOK /\ QTypeOK' /\ Handshake(c) /\ BpopWaits' /\ Inv
      /\ [QNext]_allvars
      => Inv'
  BY NextProducersGoOn, NextAccounted DEF BpopWaits
<1>3. /\ KernelInv /\ TimersExact /\ EndsSettled /\ QTypeOK /\ WaitsMatch /\ Served /\ Inv
      => Drained
  BY DrainedAtEnd
<1> QED
  BY <1>1, <1>2, <1>3, ServedCorrect, TimersCorrect, EndsSettledCorrect, HandshakeCorrect,
     QTypeCorrect, KernelImplemented, PTL DEF QSpec
=============================================================================
