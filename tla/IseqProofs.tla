----------------------------- MODULE IseqProofs -----------------------------
(***************************************************************************)
(* Proofs about the sequential interface of module Iseq, for any number of *)
(* items, any clock, any pushes and any behaviour of ready.  The interface *)
(* is built on the kernel, so they rest on the theorems of module          *)
(* SimulatorProofs.                                                        *)
(***************************************************************************)
EXTENDS Iseq, SimulatorProofs

-----------------------------------------------------------------------------
(* The interface uses the kernel as it is *)

\* The slices of the processes other than FIFO
OtherSlice == FFStart \/ FFSample \/ ClkStart \/ ClkToggle \/ GenPush
              \/ (Rdy \in Procs /\ RdyDrive)

LEMMA OtherSliceIsSlice ==
  ASSUME OtherSlice
  PROVE  \E p \in Procs \ {FIFO}, T \in SUBSET Events, U \in SUBSET Sigs, W \in SUBSET Events,
            d \in Delays \cup {NoDelay} : RunProc(p, T, U, W, d)
<1> USE IseqAssumption
<1>1. CASE FFStart \/ FFSample
  BY <1>1 DEF FFStart, FFSample
<1>2. CASE ClkStart \/ ClkToggle
  BY <1>2 DEF ClkStart, ClkToggle
<1>3. CASE GenPush
  BY <1>3 DEF GenPush
<1>4. CASE Rdy \in Procs /\ RdyDrive
  BY <1>4 DEF RdyDrive
<1> QED BY <1>1, <1>2, <1>3, <1>4 DEF OtherSlice

LEMMA IseqIsKernelStep ==
  ASSUME [INext]_allvars
  PROVE  [Next]_vars
<1> USE IseqAssumption
<1>1. CASE OtherSlice
  BY <1>1, OtherSliceIsSlice, SliceIsKernelStep
<1>2. CASE FifoBlocks
  BY <1>2, SliceIsKernelStep DEF FifoBlocks
<1>3. CASE FifoTakes
  BY <1>3, SliceIsKernelStep DEF FifoTakes
<1>4. CASE FifoOffers
  BY <1>4, SliceIsKernelStep DEF FifoOffers, OfferedUntil
<1>5. CASE IseqUpdate
  BY <1>5 DEF IseqUpdate, Triggers, Next, DesignStep
<1> QED
  BY <1>1, <1>2, <1>3, <1>4, <1>5
  DEF INext, IseqStep, OtherSlice, allvars, Next, DesignStep

\* Whatever is proved of the kernel holds while it runs a sequential interface.
THEOREM IseqOnKernel == ISpec => Spec
<1>1. IInit => Init
  BY DEF IInit
<1> QED BY <1>1, IseqIsKernelStep, PTL DEF ISpec, Spec

-----------------------------------------------------------------------------
(* Types *)

LEMMA BurstOfGen ==
  ASSUME ITypeOK, NEW n \in 0 .. MaxItems - pushed
  PROVE  /\ [i \in 1 .. n |-> pushed + i] \in Seq(Item)
         /\ Len([i \in 1 .. n |-> pushed + i]) = n
<1>1. n \in Nat /\ \A i \in 1 .. n : pushed + i \in Item
  BY IseqAssumption DEF ITypeOK, Item
<1> QED BY <1>1

\* The queue holds what was pushed and not yet taken.
QueueExact == mem = [i \in 1 .. pushed - taken |-> taken + i]

\* next is written and val updated by values of their types.
LEMMA SetNext ==
  ASSUME ITypeOK, NEW s \in Sigs, NEW v \in 0 .. MaxItems,
         s \in {"valid", "ready", "last", "clk"} => v \in Bit
  PROVE  /\ [next EXCEPT ![s] = v] \in [Sigs -> 0 .. MaxItems]
         /\ \A t \in {"valid", "ready", "last", "clk"} : [next EXCEPT ![s] = v][t] \in Bit
BY IseqAssumption DEF ITypeOK

\* A sequence is the function of its elements.
LEMMA SeqOfNumbers ==
  ASSUME NEW S, NEW q \in Seq(S), NEW n \in Nat, NEW a \in Nat, Len(q) = n,
         \A i \in 1 .. n : q[i] = a + i
  PROVE  q = [i \in 1 .. n |-> a + i]
OBVIOUS

LEMMA HeadOfQueue ==
  ASSUME ITypeOK, QueueExact, mem # <<>>
  PROVE  /\ Head(mem) = taken + 1 /\ taken < pushed
         /\ Tail(mem) = [i \in 1 .. pushed - (taken + 1) |-> (taken + 1) + i]
         /\ Tail(mem) \in Seq(Item)
<1>1. pushed \in Nat /\ taken \in Nat /\ pushed - taken \in Nat
  BY IseqAssumption DEF ITypeOK
<1>2. pushed - taken # 0
  <2>1. ASSUME pushed - taken = 0 PROVE mem = <<>>
    BY <1>1, <2>1 DEF QueueExact
  <2> QED BY <2>1
<1>3. Len(mem) = pushed - taken /\ \A i \in 1 .. Len(mem) : mem[i] = taken + i
  BY <1>1 DEF QueueExact
<1>4. Head(mem) = taken + 1
  BY <1>1, <1>2, <1>3 DEF ITypeOK
<1>5. /\ Len(Tail(mem)) = pushed - (taken + 1)
      /\ \A i \in 1 .. Len(Tail(mem)) : Tail(mem)[i] = (taken + 1) + i
      /\ Tail(mem) \in Seq(Item)
  BY <1>1, <1>2, <1>3 DEF ITypeOK
<1>6. Tail(mem) = [i \in 1 .. pushed - (taken + 1) |-> (taken + 1) + i]
  <2>1. pushed - (taken + 1) \in Nat /\ taken + 1 \in Nat
    BY <1>1, <1>2
  <2> QED BY <1>5, <2>1, SeqOfNumbers
<1> QED BY <1>1, <1>2, <1>4, <1>5, <1>6

LEMMA NextITypeOK ==
  ASSUME ITypeOK, QueueExact, [INext]_allvars
  PROVE  ITypeOK' /\ QueueExact'
<1> USE IseqAssumption
<1> DEFINE Good == ITypeOK' /\ QueueExact'
<1>1. CASE UNCHANGED ivars
  BY <1>1 DEF ITypeOK, QueueExact, ivars
<1>2. CASE FifoBlocks
  BY <1>2 DEF ITypeOK, QueueExact, FifoBlocks
<1>3. CASE FifoTakes
  <2>1. /\ Head(mem) = taken + 1 /\ taken < pushed
        /\ Tail(mem) = [i \in 1 .. pushed - (taken + 1) |-> (taken + 1) + i]
        /\ Tail(mem) \in Seq(Item)
    BY <1>3, HeadOfQueue DEF FifoTakes
  <2>2. taken + 1 \in 0 .. MaxItems /\ taken' = taken + 1 /\ taken' \in 0 .. pushed
    <3>1. taken \in Nat /\ pushed \in Nat /\ pushed <= MaxItems
      BY DEF ITypeOK
    <3> QED BY <1>3, <2>1, <3>1 DEF FifoTakes
  <2>3. next' = [next EXCEPT !["data"] = taken + 1] /\ mem' = Tail(mem)
    BY <1>3, <2>1 DEF FifoTakes
  <2>4. /\ next' \in [Sigs -> 0 .. MaxItems]
        /\ \A s \in {"valid", "ready", "last", "clk"} : next'[s] \in Bit
    BY <2>2, <2>3, SetNext
  <2>5. QueueExact'
    BY <1>3, <2>1, <2>2, <2>3 DEF QueueExact, FifoTakes
  <2> QED BY <1>3, <2>1, <2>2, <2>3, <2>4, <2>5 DEF ITypeOK, FifoTakes
<1>4. CASE FifoOffers
  <2>1. next' = [next EXCEPT !["last"] = 0, !["valid"] = 1]
    BY <1>4 DEF FifoOffers
  <2>2. 0 \in Bit /\ 1 \in Bit /\ 0 \in 0 .. MaxItems /\ 1 \in 0 .. MaxItems
    BY DEF Bit
  <2>3. /\ next' \in [Sigs -> 0 .. MaxItems]
        /\ \A s \in {"valid", "ready", "last", "clk"} : next'[s] \in Bit
    BY <2>1, <2>2 DEF ITypeOK
  <2> QED BY <1>4, <2>3 DEF ITypeOK, QueueExact, FifoOffers, OfferedUntil
<1>5. CASE FFStart \/ ClkStart
  BY <1>5 DEF ITypeOK, QueueExact, FFStart, ClkStart, ivars
<1>6. CASE FFSample
  <2>1. val["data"] \in 0 .. MaxItems
    BY DEF ITypeOK
  <2> QED BY <1>6, <2>1, SetNext DEF ITypeOK, QueueExact, FFSample
<1>7. CASE ClkToggle
  <2>1. 1 - val["clk"] \in Bit /\ 1 - val["clk"] \in 0 .. MaxItems
    <3>1. val["clk"] \in {0, 1}
      BY DEF ITypeOK, Bit
    <3> QED BY <3>1 DEF Bit
  <2> QED BY <1>7, <2>1, SetNext DEF ITypeOK, QueueExact, ClkToggle
<1>8. CASE GenPush
  <2>1. PICK n \in 0 .. MaxItems - pushed :
          /\ mem' = mem \o [i \in 1 .. n |-> pushed + i]
          /\ pushed' = pushed + n
          /\ UNCHANGED <<val, next, created, stage, taken, out>>
    BY <1>8 DEF GenPush
  <2> DEFINE b == [i \in 1 .. n |-> pushed + i]
  <2>2. b \in Seq(Item) /\ Len(b) = n /\ n \in Nat
    BY BurstOfGen
  <2>3. pushed \in Nat /\ taken \in Nat /\ pushed - taken \in Nat /\ pushed + n \in 0 .. MaxItems
    BY DEF ITypeOK
  <2>4. Len(mem) = pushed - taken /\ \A i \in 1 .. Len(mem) : mem[i] = taken + i
    BY <2>3 DEF QueueExact
  <2>5. \A i \in 1 .. n : b[i] = pushed + i
    OBVIOUS
  <2> HIDE DEF b
  <2>6. mem' \in Seq(Item) /\ Len(mem') = pushed' - taken
    <3>1. mem' = mem \o b /\ mem \in Seq(Item) /\ b \in Seq(Item)
      BY <2>1, <2>2 DEF b, ITypeOK
    <3>2. mem' \in Seq(Item) /\ Len(mem') = Len(mem) + Len(b)
      BY <3>1
    <3> QED BY <2>1, <2>2, <2>3, <2>4, <3>2
  <2>7. \A i \in 1 .. Len(mem') : mem'[i] = taken + i
    <3> SUFFICES ASSUME NEW i \in 1 .. Len(mem') PROVE mem'[i] = taken + i
      OBVIOUS
    <3>1. mem' = mem \o b /\ mem \in Seq(Item) /\ b \in Seq(Item)
      BY <2>1, <2>2 DEF b, ITypeOK
    <3>2. CASE i \in 1 .. Len(mem)
      BY <2>4, <3>1, <3>2
    <3>3. CASE i - Len(mem) \in 1 .. n
      <4>1. mem'[i] = b[i - Len(mem)]
        BY <2>2, <3>1, <3>3
      <4> QED BY <2>3, <2>4, <2>5, <3>3, <4>1
    <3> QED BY <2>1, <2>2, <2>3, <2>4, <2>6, <3>2, <3>3
  <2>8. mem' = [i \in 1 .. pushed' - taken' |-> taken' + i]
    <3>1. taken' = taken /\ pushed' - taken \in Nat
      BY <2>1, <2>2, <2>3
    <3> QED BY <2>3, <2>6, <2>7, <3>1, SeqOfNumbers
  <2>9. pushed' \in 0 .. MaxItems /\ taken' \in 0 .. pushed'
    <3>1. taken \in 0 .. pushed
      BY DEF ITypeOK
    <3> QED BY <2>1, <2>2, <2>3, <3>1
  <2>10. ITypeOK'
    BY <2>1, <2>6, <2>9 DEF ITypeOK
  <2> QED BY <2>8, <2>10 DEF QueueExact
<1>9. CASE RdyDrive
  <2>1. PICK r \in Bit : next' = [next EXCEPT !["ready"] = r]
    BY <1>9 DEF RdyDrive
  <2>2. r \in 0 .. MaxItems
    BY DEF Bit
  <2> QED BY <1>9, <2>1, <2>2, SetNext DEF ITypeOK, QueueExact, RdyDrive
<1>10. CASE IseqUpdate
  <2>1. /\ val' \in [Sigs -> 0 .. MaxItems]
        /\ \A s \in {"valid", "ready", "last", "clk"} : val'[s] \in Bit
    BY <1>10 DEF IseqUpdate, ITypeOK
  <2>2. val'["_dout"] \in 0 .. MaxItems
    BY <2>1
  <2>3. Append(out, val'["_dout"]) \in Seq(0 .. MaxItems)
    BY <2>2 DEF ITypeOK
  <2> QED BY <1>10, <2>1, <2>3 DEF IseqUpdate, ITypeOK, QueueExact
<1> QED
  BY <1>1, <1>2, <1>3, <1>4, <1>5, <1>6, <1>7, <1>8, <1>9, <1>10
  DEF INext, IseqStep, allvars

\* The types of the interface's state, and what its queue holds.
THEOREM ITypeCorrect == ISpec => [](ITypeOK /\ QueueExact)
<1>1. IInit => ITypeOK /\ QueueExact
  <2> SUFFICES ASSUME IInit PROVE ITypeOK /\ QueueExact
    OBVIOUS
  <2>1. val \in [Sigs -> 0 .. MaxItems] /\ \A s \in {"valid", "ready", "last", "clk"} : val[s] \in Bit
    BY IseqAssumption DEF IInit, Bit
  <2>2. 0 \in 0 .. MaxItems /\ taken \in 0 .. pushed
    BY IseqAssumption DEF IInit
  <2>3. mem \in Seq(Item) /\ out \in Seq(0 .. MaxItems)
    BY DEF IInit
  <2>4. QueueExact
    BY DEF IInit, QueueExact
  <2> QED BY <2>1, <2>2, <2>3, <2>4, IseqAssumption DEF IInit, ITypeOK
<1> QED BY <1>1, NextITypeOK, PTL DEF ISpec

-----------------------------------------------------------------------------
(* The protocol between _fifo_proc and the register *)

\* What _fifo_proc waits for follows from where it stands, and the event exists.
FifoWaits ==
  /\ FIFO \notin delayed
  /\ pc = "elaborate" => stage = "start"
  /\ pc # "elaborate" => procPool = Procs
  /\ stage = "pop_wait" => events[FIFO] = {"data.enqueued"} /\ "data.enqueued" \in created
  /\ stage = "upd_wait" => events[FIFO] = {"data.updated"} /\ "data.updated" \in created
  /\ stage = "out_wait" => events[FIFO] = {"_dout.updated"} /\ "_dout.updated" \in created
  /\ taken > 1 \/ (taken = 1 /\ stage # "upd_wait") => "_dout.updated" \in created

\* Where the last item taken is: on its way to the value of data, or there and on offer.
\* The register shows it or the one before.
Offer ==
  /\ stage = "start" => taken = 0
  /\ next["data"] = taken
  /\ "data" \in updatePool => stage = "upd_wait"
  /\ val["data"] = IF "data" \in updatePool THEN taken - 1 ELSE taken
  /\ val["valid"] = 1 /\ next["valid"] = 1
  /\ "_dout" \in updatePool => next["_dout"] = val["data"]
  /\ Len(out) = val["_dout"]
  /\ val["_dout"] \in {val["data"] - 1, val["data"]}
  /\ stage \in {"start", "pop_wait"} \/ "data" \in updatePool => val["_dout"] = val["data"]

\* _fifo_proc is woken from the wait for the register by an update that shows its item:
\* one that shows the item before is over when it begins to wait.
Wakes ==
  /\ "data.updated" \in trigPool =>
       stage = "upd_wait" /\ FIFO \notin readyPool /\ "data" \notin updatePool
  /\ "data" \in updatePool => FIFO \notin readyPool
  /\ /\ stage = "upd_wait" /\ pc # "resolve"
     /\ FIFO \in readyPool /\ "_dout.updated" \in trigPool
     => val["_dout"] = taken
  /\ stage = "out_wait" /\ (FIFO \in readyPool \/ "_dout.updated" \in trigPool)
       => val["_dout"] = taken

\* _fifo_proc is owed a slice whenever it can go on.  From the second item on the event
\* of the register is in use, so that its update cannot go unnoticed.
FifoServed ==
  /\ stage = "start" /\ FIFO \in procPool => FIFO \in readyPool
  /\ stage = "pop_wait" /\ mem # <<>> => Owed(FIFO)
  /\ stage = "upd_wait" /\ "data" \notin updatePool => Owed(FIFO)
  /\ stage = "upd_wait" /\ val["_dout"] = taken /\ taken > 1 =>
       pc # "resolve" /\ FIFO \in readyPool /\ "_dout.updated" \in trigPool
  /\ stage = "out_wait" /\ val["_dout"] = taken /\ taken > 1 => Owed(FIFO)

Protocol == FifoWaits /\ Offer /\ Wakes /\ FifoServed

\* The steps in which no process runs and no subinterface is updated
IseqQuiet ==
  \/ \E p \in Procs : ProcReg(p)
  \/ Elaborated /\ KernelStep
  \/ DeltaEnd({})
  \/ Terminated
  \/ UNCHANGED vars

\* What they do to the pools, apart from what Quiet does in general.
LEMMA IseqQuietEffect ==
  ASSUME KernelInv, IseqQuiet
  PROVE  /\ Quiet
         /\ trigPool' \subseteq trigPool
         /\ pc = "resolve" => pc' = "resolve"
         /\ pc # "resolve" => trigPool' = trigPool
         /\ pc' = "resolve" /\ pc # "resolve" => readyPool = {}
         /\ pc' = "elaborate" => pc = "elaborate"
         /\ pc # "elaborate" => procPool' = procPool
         /\ pc = "elaborate" /\ pc' # "elaborate" => procPool' = Procs
<1>1. Quiet
  BY DEF IseqQuiet, Quiet
<1>2. ASSUME NEW p \in Procs, ProcReg(p) PROVE UNCHANGED <<pc, trigPool>> /\ pc = "elaborate"
  BY <1>2 DEF ProcReg
<1>3. ASSUME NEW e \in Events, Resolve(e)
      PROVE  trigPool' \subseteq trigPool /\ pc = "resolve" /\ UNCHANGED <<pc, procPool>>
  BY <1>3 DEF Resolve
<1>4. CASE \/ Run \/ TimestepStart \/ DeltaStart \/ EvaluateDone \/ DeltaLimit
           \/ AdvanceTime \/ NothingScheduled
  BY <1>1, <1>4 DEF IseqQuiet, Elaborated, Run, TimestepStart, DeltaStart, EvaluateDone,
     DeltaLimit, AdvanceTime, NothingScheduled, pools, ProcReg, DeltaEnd, Terminated, vars
<1>5. CASE DeltaEnd({}) \/ Terminated \/ UNCHANGED vars
  BY <1>1, <1>5 DEF DeltaEnd, Terminated, vars, pools
<1> QED BY <1>1, <1>2, <1>3, <1>4, <1>5 DEF IseqQuiet, KernelStep

\* What a slice of another process does: it may push items, which the event tells if it
\* is in use, and the register samples data.
OtherEffect(p, T, U, W, d) ==
  /\ RunProc(p, T, U, W, d)
  /\ T \subseteq {"data.enqueued"} /\ "data" \notin U
  /\ next'["data"] = next["data"] /\ next'["valid"] = next["valid"]
  /\ next'["_dout"] = IF "_dout" \in U THEN val["data"] ELSE next["_dout"]
  /\ mem' = mem \/ {"data.enqueued"} \cap created \subseteq T
  /\ UNCHANGED <<val, created, stage, taken, out>>

LEMMA OtherSliceEffect ==
  ASSUME ITypeOK, OtherSlice
  PROVE  \E p \in Procs \ {FIFO}, T \in SUBSET Events, U \in SUBSET Sigs, W \in SUBSET Events,
            d \in Delays \cup {NoDelay} : OtherEffect(p, T, U, W, d)
<1> USE IseqAssumption
<1>1. CASE FFStart
  <2>1. OtherEffect(FF, {}, {}, {"clk.posedge"}, NoDelay)
    BY <1>1 DEF FFStart, OtherEffect, ivars
  <2> QED BY <2>1
<1>2. CASE FFSample
  <2>1. OtherEffect(FF, {}, IF Enabled THEN {"_dout"} ELSE {}, {"clk.posedge"}, NoDelay)
    BY <1>2 DEF FFSample, OtherEffect, ITypeOK
  <2> QED BY <2>1
<1>3. CASE ClkStart
  <2>1. OtherEffect(Clk, {}, {}, {}, HalfPeriod)
    BY <1>3 DEF ClkStart, OtherEffect, ivars
  <2> QED BY <2>1
<1>4. CASE ClkToggle
  <2>1. OtherEffect(Clk, {}, {"clk"}, {}, HalfPeriod)
    BY <1>4 DEF ClkToggle, OtherEffect, ITypeOK
  <2> QED BY <2>1
<1>5. CASE GenPush
  <2>1. PICK n \in 0 .. MaxItems - pushed, d \in Delays \cup {NoDelay} :
          /\ RunProc(Gen, IF n > 0 THEN {"data.enqueued"} \cap created ELSE {}, {}, {}, d)
          /\ mem' = mem \o [i \in 1 .. n |-> pushed + i]
          /\ UNCHANGED <<val, next, created, stage, taken, out>>
    BY <1>5 DEF GenPush
  <2>2. n = 0 => mem' = mem
    <3>1. n = 0 => [i \in 1 .. n |-> pushed + i] = <<>>
      OBVIOUS
    <3>2. mem \o <<>> = mem
      BY DEF ITypeOK
    <3> QED BY <2>1, <3>1, <3>2
  <2>3. n \in Nat
    BY DEF ITypeOK
  <2>4. OtherEffect(Gen, IF n > 0 THEN {"data.enqueued"} \cap created ELSE {}, {}, {}, d)
    BY <2>1, <2>2, <2>3 DEF OtherEffect
  <2> QED BY <2>4
<1>6. CASE Rdy \in Procs /\ RdyDrive
  <2>1. OtherEffect(Rdy, {}, {"ready"}, {"clk.posedge"}, NoDelay)
    BY <1>6 DEF RdyDrive, OtherEffect, ITypeOK
  <2> QED BY <1>6, <2>1
<1> QED BY <1>1, <1>2, <1>3, <1>4, <1>5, <1>6 DEF OtherSlice

LEMMA QuietProtocol ==
  ASSUME KernelInv, TimersExact, ITypeOK, Protocol, pc # "aborted", IseqQuiet, UNCHANGED ivars
  PROVE  Protocol'
<1> USE IseqAssumption
<1>1. /\ UNCHANGED <<events, delayed, updatePool, val, next, mem, created, stage, taken, out>>
      /\ readyPool \subseteq readyPool'
      /\ Owed(FIFO) => Owed(FIFO)'
      /\ FIFO \in procPool' \ procPool => FIFO \in readyPool'
      /\ FIFO \in Procs
  BY IseqQuietEffect, QuietEffect DEF KernelInv, ivars
<1>2. ASSUME NEW f \in Events, events[FIFO] = {f}, stage # "start",
             FIFO \notin readyPool, FIFO \in readyPool'
      PROVE  f \in trigPool /\ f \notin trigPool'
  BY <1>1, <1>2, IseqQuietEffect, WhoIsWoken DEF Protocol, FifoWaits, Unchained
<1>3. FifoWaits'
  BY <1>1, IseqQuietEffect DEF Protocol, FifoWaits
<1>4. Offer'
  BY <1>1 DEF Protocol, Offer
<1>5. Wakes'
  <2>1. stage = "upd_wait" /\ FIFO \notin readyPool /\ FIFO \in readyPool' =>
          "data.updated" \in trigPool /\ "data.updated" \notin trigPool'
    BY <1>2 DEF Protocol, FifoWaits
  <2>2. stage = "out_wait" /\ FIFO \notin readyPool /\ FIFO \in readyPool' =>
          "_dout.updated" \in trigPool
    BY <1>2 DEF Protocol, FifoWaits
  <2> QED BY <1>1, <2>1, <2>2, IseqQuietEffect DEF Protocol, Wakes, Offer
<1>6. FifoServed'
  BY <1>1, IseqQuietEffect DEF Protocol, FifoServed
<1> QED BY <1>3, <1>4, <1>5, <1>6 DEF Protocol

LEMMA OtherProtocol ==
  ASSUME KernelInv, KernelInv', ITypeOK, Protocol, OtherSlice
  PROVE  Protocol'
<1> USE IseqAssumption
<1>1. PICK p \in Procs \ {FIFO}, T \in SUBSET Events, U \in SUBSET Sigs, W \in SUBSET Events,
            d \in Delays \cup {NoDelay} : OtherEffect(p, T, U, W, d)
  BY OtherSliceEffect
<1>2. /\ pc = "evaluate" /\ pc' = pc /\ procPool' = procPool
      /\ readyPool' = readyPool \ {p} /\ trigPool' = trigPool \cup T
      /\ updatePool' = updatePool \cup U
      /\ SliceKeeps(p, W, d)
  BY <1>1, SliceEffect DEF OtherEffect, KernelInv
<1>3. /\ events'[FIFO] = events[FIFO] /\ (FIFO \in delayed' <=> FIFO \in delayed)
      /\ Owed(FIFO) => Owed(FIFO)'
      /\ FIFO \in readyPool' <=> FIFO \in readyPool
  BY <1>1, <1>2 DEF SliceKeeps
<1>4. FifoWaits'
  BY <1>1, <1>2, <1>3 DEF Protocol, FifoWaits, OtherEffect
<1>5. Offer'
  BY <1>1, <1>2 DEF Protocol, Offer, OtherEffect
<1>6. Wakes'
  BY <1>1, <1>2, <1>3 DEF Protocol, Wakes, OtherEffect
<1>7. FifoServed'
  <2>1. ASSUME stage = "pop_wait", mem' # mem PROVE Owed(FIFO)'
    <3>1. "data.enqueued" \in trigPool' /\ "data.enqueued" \in events'[FIFO]
      BY <1>1, <1>2, <1>3, <2>1 DEF Protocol, FifoWaits, OtherEffect
    <3> QED BY <1>2, <3>1, NotifiedEvents DEF KernelInv, SubscriptionsExact, Owed, Woken
  <2> QED BY <1>1, <1>2, <1>3, <2>1 DEF Protocol, FifoServed, OtherEffect
<1> QED BY <1>4, <1>5, <1>6, <1>7 DEF Protocol

LEMMA FifoProtocol ==
  ASSUME KernelInv, KernelInv', ITypeOK, QueueExact, Protocol,
         FifoBlocks \/ FifoTakes \/ FifoOffers
  PROVE  Protocol'
<1> USE IseqAssumption
<1>1. ASSUME NEW U \in SUBSET Sigs, NEW e \in Events, RunProc(FIFO, {}, U, {e}, NoDelay)
      PROVE  /\ pc = "evaluate" /\ UNCHANGED <<pc, procPool, trigPool>>
             /\ FIFO \in readyPool /\ FIFO \notin readyPool'
             /\ updatePool' = updatePool \cup U
             /\ events'[FIFO] = {e} /\ FIFO \notin delayed'
             /\ e \in trigPool => Owed(FIFO)'
  <2>1. /\ pc = "evaluate" /\ UNCHANGED <<pc, procPool, trigPool>>
        /\ FIFO \in readyPool /\ readyPool' = readyPool \ {FIFO}
        /\ updatePool' = updatePool \cup U
        /\ SliceKeeps(FIFO, {e}, NoDelay)
    BY <1>1, SliceEffect DEF KernelInv, RunProc
  <2>2. e \in trigPool => Owed(FIFO)'
    BY <2>1, NotifiedEvents DEF KernelInv, SubscriptionsExact, SliceKeeps, Owed, Woken
  <2> QED BY <2>1, <2>2 DEF SliceKeeps
<1>2. CASE FifoBlocks
  <2>1. RunProc(FIFO, {}, {}, {"data.enqueued"}, NoDelay)
    BY <1>2 DEF FifoBlocks
  <2>2. FifoWaits'
    BY <1>1, <1>2, <2>1 DEF Protocol, FifoWaits, FifoBlocks, Offer
  <2>3. Offer'
    BY <1>1, <1>2, <2>1 DEF Protocol, Offer, Wakes, FifoBlocks
  <2>4. Wakes'
    BY <1>1, <1>2, <2>1 DEF Protocol, Wakes, FifoBlocks
  <2>5. FifoServed'
    BY <1>1, <1>2, <2>1 DEF FifoServed, FifoBlocks
  <2> QED BY <2>2, <2>3, <2>4, <2>5 DEF Protocol
<1>3. CASE FifoTakes
  <2>1. RunProc(FIFO, {}, {"data"}, {"data.updated"}, NoDelay)
    BY <1>3 DEF FifoTakes
  <2>2. next' = [next EXCEPT !["data"] = taken + 1] /\ taken' = taken + 1 /\ taken \in Nat
    <3>1. taken \in Nat
      BY DEF ITypeOK
    <3> QED BY <1>3, <3>1, HeadOfQueue DEF FifoTakes
  <2>3. "data" \notin updatePool /\ val["_dout"] = val["data"] /\ val["data"] = taken
    BY <1>1, <1>3, <2>1 DEF FifoTakes, Protocol, Offer, Wakes
  <2>4. FifoWaits'
    BY <1>1, <1>3, <2>1, <2>2 DEF Protocol, FifoWaits, FifoTakes
  <2>5. Offer'
    <3>1. next'["data"] = taken + 1 /\ \A s \in {"valid", "_dout"} : next'[s] = next[s]
      BY <2>2, IseqAssumption DEF ITypeOK
    <3>2. updatePool' = updatePool \cup {"data"}
      BY <2>1 DEF RunProc
    <3>3. stage' = "upd_wait" /\ UNCHANGED <<val, out>>
      BY <1>3 DEF FifoTakes
    <3> QED BY <2>2, <2>3, <3>1, <3>2, <3>3 DEF Protocol, Offer
  <2>6. Wakes'
    BY <1>1, <1>3, <2>1 DEF Protocol, Wakes, FifoTakes
  <2>7. FifoServed'
    BY <1>1, <1>3, <2>1, <2>2, <2>3 DEF FifoServed, FifoTakes
  <2> QED BY <2>4, <2>5, <2>6, <2>7 DEF Protocol
<1>4. CASE FifoOffers
  <2>1. RunProc(FIFO, {}, {"last", "valid"}, {"_dout.updated"}, NoDelay)
    BY <1>4 DEF FifoOffers, OfferedUntil
  <2>2. next'["data"] = next["data"] /\ next'["_dout"] = next["_dout"] /\ next'["valid"] = 1
    BY <1>4 DEF FifoOffers, ITypeOK
  <2>3. "data" \notin updatePool /\ "data.updated" \notin trigPool
    BY <1>1, <2>1 DEF Protocol, Wakes
  <2>4. FifoWaits'
    BY <1>1, <1>4, <2>1 DEF Protocol, FifoWaits, FifoOffers, OfferedUntil
  <2>5. Offer'
    BY <1>1, <1>4, <2>1, <2>2, <2>3 DEF Protocol, Offer, FifoOffers
  <2>6. Wakes'
    BY <1>1, <1>4, <2>1, <2>3 DEF Protocol, Wakes, FifoOffers
  <2>7. FifoServed'
    BY <1>1, <1>4, <2>1 DEF Protocol, FifoServed, FifoOffers
  <2> QED BY <2>4, <2>5, <2>6, <2>7 DEF Protocol
<1> QED BY <1>2, <1>3, <1>4

LEMMA UpdateProtocol ==
  ASSUME KernelInv, KernelInv', ITypeOK, Protocol, IseqUpdate
  PROVE  /\ Protocol'
         /\ out' = out \/ (out' = Append(out, Len(out) + 1) /\ Len(out) < taken)
<1> USE IseqAssumption
<1>1. /\ pc = "resolve" /\ pc' = "delta_end" /\ trigPool = {} /\ trigPool' = Triggers
      /\ updatePool' = {}
      /\ UNCHANGED <<readyPool, procPool, events, delayed>>
  BY DEF IseqUpdate, Update, subs
<1>2. /\ val' = [s \in Sigs |-> IF s \in updatePool THEN next[s] ELSE val[s]]
      /\ out' = IF val'["_dout"] # val["_dout"] THEN Append(out, val'["_dout"]) ELSE out
      /\ UNCHANGED <<next, mem, created, stage, pushed, taken>>
  BY DEF IseqUpdate
<1>3. taken \in Nat /\ val["_dout"] \in Nat /\ Len(out) \in Nat /\ FIFO \in Procs
  BY DEF ITypeOK
<1>4. /\ val'["data"] = taken /\ val'["valid"] = 1
      /\ val'["_dout"] = IF "_dout" \in updatePool THEN val["data"] ELSE val["_dout"]
  BY <1>2 DEF Protocol, Offer
<1>5. /\ "data.updated" \in trigPool' <=> "data" \in updatePool /\ "data.updated" \in created
      /\ "_dout.updated" \in trigPool' <=> "_dout" \in updatePool /\ "_dout.updated" \in created
  BY <1>1 DEF Triggers
<1>6. Owed(FIFO) <=> FIFO \in readyPool
  BY <1>1 DEF Owed
<1>7. ASSUME NEW e \in Events, e \in trigPool', e \in events[FIFO] PROVE Owed(FIFO)'
  BY <1>1, <1>3, <1>7, NotifiedEvents DEF KernelInv, SubscriptionsExact, Owed, Woken
<1>8. out' = out \/ (out' = Append(out, Len(out) + 1) /\ Len(out) < taken)
  BY <1>2, <1>3, <1>4 DEF Protocol, Offer
<1>9. Len(out') = val'["_dout"]
  BY <1>2, <1>3, <1>4, <1>8 DEF Protocol, Offer, ITypeOK
<1>10. FifoWaits'
  BY <1>1, <1>2 DEF Protocol, FifoWaits
<1>11. Offer'
  BY <1>1, <1>2, <1>3, <1>4, <1>9 DEF Protocol, Offer
<1>12. Wakes'
  BY <1>1, <1>2, <1>4, <1>5 DEF Protocol, Offer, Wakes
<1>13. FifoServed'
  <2>1. /\ stage = "start" /\ FIFO \in procPool => FIFO \in readyPool
        /\ stage = "pop_wait" /\ mem # <<>> => Owed(FIFO)'
    BY <1>1, <1>6 DEF Protocol, FifoServed, Owed
  <2>2. ASSUME stage = "upd_wait" PROVE Owed(FIFO)'
    <3>1. CASE "data" \in updatePool
      BY <1>1, <1>5, <1>7, <2>2, <3>1 DEF Protocol, FifoWaits
    <3>2. CASE "data" \notin updatePool
      BY <1>1, <1>6, <2>2, <3>2 DEF Protocol, FifoServed, Owed
    <3> QED BY <3>1, <3>2
  <2>3. ASSUME stage = "upd_wait", val'["_dout"] = taken, taken > 1
        PROVE  FIFO \in readyPool /\ "_dout.updated" \in trigPool'
    <3>1. "_dout" \in updatePool /\ val["data"] = taken
      BY <1>1, <1>4, <2>3 DEF Protocol, FifoServed
    <3>2. "data" \notin updatePool
      BY <1>3, <3>1 DEF Protocol, Offer
    <3> QED BY <1>5, <1>6, <2>3, <3>1, <3>2 DEF Protocol, FifoServed, FifoWaits
  <2>4. ASSUME stage = "out_wait", val'["_dout"] = taken, taken > 1 PROVE Owed(FIFO)'
    <3>1. CASE "_dout" \in updatePool
      BY <1>1, <1>5, <1>7, <2>4, <3>1 DEF Protocol, FifoWaits
    <3>2. CASE "_dout" \notin updatePool
      BY <1>1, <1>4, <1>6, <2>4, <3>2 DEF Protocol, FifoServed, Owed
    <3> QED BY <3>1, <3>2
  <2> QED BY <1>1, <1>2, <2>1, <2>2, <2>3, <2>4 DEF FifoServed
<1> QED BY <1>8, <1>10, <1>11, <1>12, <1>13 DEF Protocol

LEMMA IseqNeverAborts == pc # "aborted" /\ [INext]_allvars => pc' # "aborted"
<1> SUFFICES ASSUME pc # "aborted", [INext]_allvars PROVE pc' # "aborted"
  OBVIOUS
<1>1. CASE OtherSlice
  BY <1>1, OtherSliceIsSlice DEF RunProc
<1>2. CASE FifoBlocks \/ FifoTakes \/ FifoOffers \/ IseqUpdate
  BY <1>2 DEF FifoBlocks, FifoTakes, FifoOffers, IseqUpdate, RunProc, Update
<1> QED
  BY <1>1, <1>2
  DEF INext, IseqStep, OtherSlice, KernelStep, Run, TimestepStart, DeltaStart, EvaluateDone,
      Resolve, DeltaLimit, AdvanceTime, NothingScheduled, ProcReg, DeltaEnd, Terminated, vars,
      allvars

LEMMA NextProtocol ==
  ASSUME KernelInv, KernelInv', TimersExact, ITypeOK, QueueExact, Protocol, pc # "aborted",
         [INext]_allvars
  PROVE  Protocol'
<1>1. CASE IseqQuiet /\ UNCHANGED ivars
  BY <1>1, QuietProtocol
<1>2. CASE OtherSlice
  BY <1>2, OtherProtocol
<1>3. CASE FifoBlocks \/ FifoTakes \/ FifoOffers
  BY <1>3, FifoProtocol
<1>4. CASE IseqUpdate
  BY <1>4, UpdateProtocol
<1> QED
  BY <1>1, <1>2, <1>3, <1>4 DEF INext, IseqStep, IseqQuiet, OtherSlice, allvars

LEMMA KernelOfIseq == ISpec => [](KernelInv /\ TimersExact)
<1>1. Spec => [](KernelInv /\ TimersExact)
  BY TypeCorrect, SubscriptionsCorrect, WritesCorrect, TimersCorrect, PTL DEF KernelInv
<1> QED BY <1>1, IseqOnKernel, PTL

LEMMA ProtocolCorrect == ISpec => [](Protocol /\ ITypeOK /\ QueueExact /\ KernelInv)
<1> DEFINE Inv == Protocol /\ pc # "aborted"
<1>1. IInit => Inv
  <2> SUFFICES ASSUME IInit PROVE Protocol /\ pc # "aborted"
    OBVIOUS
  <2> USE IseqAssumption
  <2>1. /\ pc = "elaborate" /\ delayed = {} /\ trigPool = {} /\ updatePool = {} /\ procPool = {}
        /\ stage = "start" /\ taken = 0 /\ pushed = 0 /\ out = <<>> /\ next = val
        /\ val = [s \in Sigs |-> IF s \in {"valid", "ready"} THEN 1 ELSE 0]
    BY DEF IInit, Init
  <2>2. FifoWaits
    BY <2>1 DEF FifoWaits
  <2>3. Offer
    BY <2>1 DEF Offer
  <2>4. Wakes /\ FifoServed
    BY <2>1 DEF Wakes, FifoServed
  <2> QED BY <2>1, <2>2, <2>3, <2>4 DEF Protocol
<1>2. /\ KernelInv /\ KernelInv' /\ TimersExact /\ ITypeOK /\ QueueExact
      /\ Inv /\ [INext]_allvars
      => Inv'
  BY NextProtocol, IseqNeverAborts
<1> QED BY <1>1, <1>2, KernelOfIseq, ITypeCorrect, PTL DEF ISpec

\* No clock edge is wasted: when a time step has settled with items left in the queue,
\* the next one the register has to take is on offer and valid.
THEOREM NoEdgeWasted == ISpec => []NoBubble
<1>1. Protocol /\ ITypeOK /\ KernelInv => NoBubble
  <2> SUFFICES ASSUME Protocol, ITypeOK, KernelInv, pc = "loop", readyPool = {}, trigPool = {},
                      mem # <<>>, taken > 1
               PROVE  taken = Len(out) + 1 /\ val["data"] = taken /\ val["valid"] = 1
    BY DEF NoBubble, Pending
  <2>1. ~Owed(FIFO) /\ updatePool = {} /\ FIFO \in Procs
    BY IseqAssumption DEF Owed, KernelInv, WritesSettle
  <2>2. stage = "out_wait" /\ val["_dout"] # taken
    BY <2>1 DEF Protocol, FifoServed, FifoWaits, ITypeOK
  <2>3. taken \in Nat /\ val["_dout"] \in Nat
    BY IseqAssumption DEF ITypeOK
  <2> QED BY <2>1, <2>2, <2>3 DEF Protocol, Offer
<1> QED BY <1>1, ProtocolCorrect, PTL

-----------------------------------------------------------------------------
(* The interface implements module Fifo *)

\* A step pushes some items, or shows the next one, or does neither.
LEMMA TransferStep ==
  ASSUME ITypeOK, KernelInv, KernelInv', Protocol, [INext]_allvars
  PROVE  \/ pushed' > pushed /\ out' = out
         \/ pushed' = pushed /\ out' = Append(out, Len(out) + 1) /\ Len(out) < pushed
         \/ UNCHANGED <<pushed, out>>
<1> USE IseqAssumption
<1>1. CASE GenPush
  <2>1. PICK n \in 0 .. MaxItems - pushed : pushed' = pushed + n /\ out' = out
    BY <1>1 DEF GenPush
  <2>2. n \in Nat /\ pushed \in Nat
    BY DEF ITypeOK
  <2>3. CASE n = 0
    BY <2>1, <2>2, <2>3
  <2>4. CASE n # 0
    BY <2>1, <2>2, <2>4
  <2> QED BY <2>3, <2>4
<1>2. CASE IseqUpdate
  <2>1. out' = out \/ (out' = Append(out, Len(out) + 1) /\ Len(out) < taken)
    BY <1>2, UpdateProtocol
  <2>2. taken \in Nat /\ pushed \in Nat /\ taken <= pushed /\ Len(out) \in Nat /\ pushed' = pushed
    BY <1>2 DEF ITypeOK, IseqUpdate
  <2> QED BY <2>1, <2>2
<1>3. CASE UNCHANGED <<pushed, out>>
  BY <1>3
<1> QED
  BY <1>1, <1>2, <1>3
  DEF INext, IseqStep, FifoBlocks, FifoTakes, FifoOffers, FFStart, FFSample, ClkStart,
      ClkToggle, RdyDrive, allvars, ivars

\* What is shown has been pushed.
OutWithin == pushed \in Nat /\ Len(out) \in Nat /\ Len(out) <= pushed /\ pushed <= MaxItems

LEMMA OutBounds ==
  ASSUME ITypeOK, Protocol
  PROVE  OutWithin
<1>1. pushed \in Nat /\ pushed <= MaxItems /\ taken \in Nat /\ taken <= pushed
  BY IseqAssumption DEF ITypeOK
<1>2. val["data"] \in Nat /\ val["_dout"] \in Nat /\ Len(out) \in Nat
  BY IseqAssumption DEF ITypeOK
<1>3. val["data"] <= taken /\ Len(out) <= val["data"]
  BY <1>1, <1>2 DEF Protocol, Offer
<1> QED BY <1>1, <1>2, <1>3 DEF OutWithin

\* The numbers from one on to another, as the items in transit are.
LEMMA NumbersFrom ==
  ASSUME NEW a \in Nat, NEW b \in Nat, a <= b
  PROVE  /\ [i \in 1 .. b - a |-> a + i] \in Seq(Nat)
         /\ Len([i \in 1 .. b - a |-> a + i]) = b - a
         /\ a < b => /\ Head([i \in 1 .. b - a |-> a + i]) = a + 1
                     /\ [i \in 1 .. b - a |-> a + i] # <<>>
         /\ \A i \in 1 .. b - a : [j \in 1 .. b - a |-> a + j][i] = a + i
<1>1. b - a \in Nat
  OBVIOUS
<1>2. [i \in 1 .. b - a |-> a + i] \in Seq(Nat)
  BY <1>1
<1>3. Len([i \in 1 .. b - a |-> a + i]) = b - a
  BY <1>1
<1> QED BY <1>1, <1>2, <1>3

LEMMA TailOfNumbers ==
  ASSUME NEW a \in Nat, NEW b \in Nat, a < b
  PROVE  Tail([i \in 1 .. b - a |-> a + i]) = [i \in 1 .. b - (a + 1) |-> (a + 1) + i]
<1> DEFINE q == [i \in 1 .. b - a |-> a + i]
<1>1. q \in Seq(Nat) /\ Len(q) = b - a /\ \A i \in 1 .. b - a : q[i] = a + i
  BY NumbersFrom
<1> HIDE DEF q
<1>2. b - (a + 1) \in Nat /\ a + 1 \in Nat
  OBVIOUS
<1>3. /\ Tail(q) \in Seq(Nat) /\ Len(Tail(q)) = b - (a + 1)
      /\ \A i \in 1 .. b - (a + 1) : Tail(q)[i] = (a + 1) + i
  BY <1>1, <1>2
<1>4. Tail(q) = [i \in 1 .. b - (a + 1) |-> (a + 1) + i]
  BY <1>2, <1>3, SeqOfNumbers
<1> QED BY <1>4 DEF q

\* The sequential interface is a FIFO channel from push to _dout: every item pushed is
\* shown once and in order, whatever the clock, the pushes and ready do.
THEOREM TransferImplemented == ISpec => TransferSpec
<1>1. IInit => Transfer!Init
  <2> SUFFICES ASSUME IInit PROVE InTransit = <<>> /\ out = <<>>
    BY DEF Transfer!Init
  <2>1. pushed = 0 /\ out = <<>>
    BY DEF IInit
  <2>2. Len(out) = 0
    BY <2>1
  <2>3. InTransit = [i \in 1 .. 0 - 0 |-> 0 + i]
    BY <2>1, <2>2 DEF InTransit
  <2>4. InTransit = <<>>
    BY <2>3
  <2> QED BY <2>1, <2>4
<1>2. /\ ITypeOK /\ KernelInv /\ KernelInv' /\ Protocol /\ OutWithin /\ OutWithin'
      /\ [INext]_allvars
      => [Transfer!Next]_(Transfer!fvars)
  <2> SUFFICES ASSUME ITypeOK, KernelInv, KernelInv', Protocol, OutWithin, OutWithin',
                      [INext]_allvars
               PROVE  [Transfer!Next]_(Transfer!fvars)
    OBVIOUS
  <2>1. /\ pushed \in Nat /\ Len(out) \in Nat /\ Len(out) <= pushed
        /\ pushed' \in Nat /\ Len(out') \in Nat /\ Len(out') <= pushed'
        /\ pushed' <= MaxItems /\ MaxItems \in Nat /\ out \in Seq(0 .. MaxItems)
    BY IseqAssumption DEF ITypeOK, OutWithin
  <2>2. InTransit = [i \in 1 .. pushed - Len(out) |-> Len(out) + i]
    BY DEF InTransit
  <2>3. CASE pushed' > pushed /\ out' = out
    <3>1. InTransit' = [i \in 1 .. pushed' - Len(out) |-> Len(out) + i]
      BY <2>3 DEF InTransit
    <3>2. /\ InTransit \in Seq(Nat) /\ Len(InTransit) = pushed - Len(out)
          /\ \A i \in 1 .. pushed - Len(out) : InTransit[i] = Len(out) + i
      BY <2>1, <2>2, NumbersFrom
    <3>3. /\ InTransit' \in Seq(Nat) /\ Len(InTransit') = pushed' - Len(out)
          /\ \A i \in 1 .. pushed' - Len(out) : InTransit'[i] = Len(out) + i
      BY <2>1, <2>3, <3>1, NumbersFrom
    <3>4. SubSeq(InTransit', 1, Len(InTransit)) = InTransit
      BY <2>1, <2>3, <3>2, <3>3
    <3>5. \A i \in Len(InTransit) + 1 .. Len(InTransit') : InTransit'[i] \in Item
      <4> TAKE i \in Len(InTransit) + 1 .. Len(InTransit')
      <4>1. i \in 1 .. pushed' - Len(out)
        BY <2>1, <3>2, <3>3
      <4>2. InTransit'[i] = Len(out) + i
        BY <3>3, <4>1
      <4> QED BY <2>1, <4>1, <4>2 DEF Item
    <3>6. Len(InTransit') > Len(InTransit)
      BY <2>1, <2>3, <3>2, <3>3
    <3>7. Transfer!Put
      BY <2>3, <3>4, <3>5, <3>6 DEF Transfer!Put
    <3> QED BY <3>7 DEF Transfer!Next
  <2>4. CASE pushed' = pushed /\ out' = Append(out, Len(out) + 1) /\ Len(out) < pushed
    <3>1. Len(out') = Len(out) + 1
      BY <2>1, <2>4
    <3>2. InTransit' = [i \in 1 .. pushed - (Len(out) + 1) |-> (Len(out) + 1) + i]
      BY <2>4, <3>1 DEF InTransit
    <3>3. InTransit # <<>> /\ Head(InTransit) = Len(out) + 1 /\ Tail(InTransit) = InTransit'
      BY <2>1, <2>2, <2>4, <3>2, NumbersFrom, TailOfNumbers
    <3>4. Transfer!Get
      BY <2>4, <3>3 DEF Transfer!Get
    <3> QED BY <3>4 DEF Transfer!Next
  <2>5. CASE UNCHANGED <<pushed, out>>
    BY <2>5 DEF InTransit, Transfer!fvars
  <2> QED BY <2>3, <2>4, <2>5, TransferStep
<1>3. ITypeOK /\ Protocol => OutWithin
  BY OutBounds
<1> QED
  BY <1>1, <1>2, <1>3, ProtocolCorrect, PTL DEF ISpec, TransferSpec, Transfer!Spec
=============================================================================
