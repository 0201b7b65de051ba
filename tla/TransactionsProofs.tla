------------------------- MODULE TransactionsProofs -------------------------
(***************************************************************************)
(* Proofs about the transactions of module Transactions, for any number    *)
(* and length of transactions, any delays and limits, and designs of any   *)
(* number of stages that stall as they like.                               *)
(***************************************************************************)
EXTENDS Transactions, SimulatorProofs, SequenceTheorems

\* A transaction has left the design before the second one after it has gone in. Else the
\* passive architecture, which is blocked by the transaction it has written and not had
\* compared, misses an update of the channel it watches.
ReferenceKeepsUp ==
  \A t \in 1 .. Len(Lens) - 1 : Latency < Lens[t] + Lens[t + 1]

-----------------------------------------------------------------------------
(* The kernel *)

\* The steps of the design are slices of its processes.
LEMMA MainOnKernel ==
  ASSUME TransactionsAssumption, MainNext \/ MainBlocks \/ MainPush
  PROVE  Next
<1> USE DEF TransactionsAssumption, Enqueued, Updated
<1>1. CASE MainNext
  <2>1. PICK d \in SendDelays \ {0} : RunProc("main", {}, {}, {}, d)
    BY <1>1 DEF MainNext
  <2> QED BY <2>1, SliceIsKernelStep
<1>2. CASE MainBlocks
  BY <1>2, SliceIsKernelStep DEF MainBlocks
<1>3. CASE MainPush
  <2>1. \E d \in Delays \cup {NoDelay}, W \in SUBSET Events :
          RunProc("main", {"in.enqueued"}, {}, W, d)
    BY <1>3 DEF MainPush
  <2> QED BY <2>1, SliceIsKernelStep
<1> QED BY <1>1, <1>2, <1>3

LEMMA AcquireOnKernel ==
  ASSUME TransactionsAssumption, AcquirePop \/ AcquireFill \/ Send
  PROVE  Next
<1> USE DEF TransactionsAssumption, Enqueued, Updated, Queues
<1>1. CASE AcquirePop
  BY <1>1, SliceIsKernelStep DEF AcquirePop, PopBlocks, PopTakes
<1>2. CASE AcquireFill
  BY <1>2, SliceIsKernelStep DEF AcquireFill
<1>3. CASE Send
  <2>1. \E T \in SUBSET Events, U \in SUBSET Sigs : RunProc("send", T, U, {"clk.posedge"}, NoDelay)
    BY <1>3 DEF Send, Clocked
  <2> QED BY <2>1, SliceIsKernelStep
<1> QED BY <1>1, <1>2, <1>3

LEMMA DesignOnKernel ==
  ASSUME TransactionsAssumption,
         \/ \E p \in {"send", "design", "recv"} : Sensitive(p)
         \/ ClkToggle \/ Design \/ Recv \/ PushAgain("recv", "dut", "clk.posedge", "clocked")
  PROVE  Next
<1> USE DEF TransactionsAssumption, Enqueued, Updated, Queues
<1>1. CASE \E p \in {"send", "design", "recv"} : Sensitive(p)
  BY <1>1, SliceIsKernelStep DEF Sensitive
<1>2. CASE ClkToggle
  BY <1>2, SliceIsKernelStep DEF ClkToggle
<1>3. CASE Design
  BY <1>3, SliceIsKernelStep DEF Design, Clocked
<1>4. CASE Recv \/ PushAgain("recv", "dut", "clk.posedge", "clocked")
  <2>1. \E T \in SUBSET Events, W \in SUBSET Events : RunProc("recv", T, {}, W, NoDelay)
    BY <1>4 DEF Recv, PushAgain
  <2> QED BY <2>1, SliceIsKernelStep
<1> QED BY <1>1, <1>2, <1>3, <1>4

LEMMA CheckOnKernel ==
  ASSUME TransactionsAssumption,
         \/ PassiveWait \/ Passive \/ PushAgain("passive", "ref", "in.updated", "watch")
         \/ CompareRef \/ CompareDut \/ Compare
  PROVE  Next
<1> USE DEF TransactionsAssumption, Enqueued, Updated, Queues
<1>1. CASE PassiveWait \/ Passive \/ PushAgain("passive", "ref", "in.updated", "watch")
  <2>1. \E T \in SUBSET Events, W \in SUBSET Events : RunProc("passive", T, {}, W, NoDelay)
    BY <1>1 DEF PassiveWait, Passive, PushAgain
  <2> QED BY <2>1, SliceIsKernelStep
<1>2. CASE CompareRef \/ CompareDut \/ Compare
  <2>1. \E U \in SUBSET Sigs, W \in SUBSET Events : RunProc("compare", {}, U, W, NoDelay)
    BY <1>2 DEF CompareRef, CompareDut, Compare, PopBlocks, PopTakes
  <2> QED BY <2>1, SliceIsKernelStep
<1> QED BY <1>1, <1>2

\* Every step of the verified design is a step of the kernel.
LEMMA StepOnKernel ==
  ASSUME TransactionsAssumption, [TNext]_allvars
  PROVE  [Next]_vars
<1>1. CASE \E p \in Procs : ProcReg(p)
  BY <1>1 DEF Next, DesignStep
<1>2. CASE KernelStep \/ Terminated \/ UNCHANGED vars
  BY <1>2 DEF Next
<1>3. CASE SignalsUpdate
  <2>1. Triggers \in SUBSET Events
    BY DEF Triggers, TransactionsAssumption, Queues, Updated
  <2> QED BY <1>3, <2>1 DEF SignalsUpdate, Next, DesignStep
<1>4. CASE DeltaEnd({})
  BY <1>4 DEF Next, DesignStep
<1> QED
  BY <1>1, <1>2, <1>3, <1>4, MainOnKernel, AcquireOnKernel, DesignOnKernel, CheckOnKernel
  DEF TNext, allvars

\* The processes of a verified design, their queues and its signals keep to the kernel.
THEOREM KernelImplementedByTransactions ==
  ASSUME TransactionsAssumption
  PROVE  TSpec => Spec
<1>1. TInit => Init
  BY DEF TInit
<1>2. [TNext]_allvars => [Next]_vars
  BY StepOnKernel
<1> QED BY <1>1, <1>2, PTL DEF TSpec, Spec
-----------------------------------------------------------------------------
(* The invariant: what a process waits for *)

Clocks == {"send", "design", "recv"}

\* p has not run yet.
Unstarted(p) == /\ at[p] = "start" /\ events[p] = {} /\ p \notin delayed
                /\ pc # "elaborate" => p \in readyPool

Waits(p, s, e) == at[p] = s /\ events[p] = {e} /\ p \notin delayed

\* The first delta cycle has got past its evaluate phase.
Begun == time > 0 \/ deltaCount > 0 \/ pc \in {"resolve", "delta_end", "finished"}

Elaborating ==
  /\ readyPool = procPool /\ trigPool = {} /\ updatePool = {} /\ time = 0 /\ deltaCount = 0
  /\ \A p \in Procs : at[p] = "start"

AcquireWaits == \/ Unstarted("acquire")
                \/ Waits("acquire", "start", "in.enqueued") \/ Waits("acquire", "sent", "in.enqueued")
                \/ Waits("acquire", "popped", "in.updated") \/ Waits("acquire", "sent", "last_data_event")
ClockedWaits == \A x \in Clocks : Unstarted(x) \/ Waits(x, "clocked", "clk.posedge")
ClkWaits     == Unstarted("clk") \/ (at["clk"] = "run" /\ events["clk"] = {})
PassiveWaits == \/ Unstarted("passive")
                \/ Waits("passive", "watch", "in.updated") \/ Waits("passive", "push", "ref.updated")
CompareWaits == \/ Unstarted("compare")
                \/ Waits("compare", "start", "ref.enqueued") \/ Waits("compare", "ref", "ref.updated")
                \/ Waits("compare", "ref", "dut.enqueued") \/ Waits("compare", "dut", "dut.updated")

WaitsMatch ==
  /\ pc # "aborted"
  /\ DOMAIN at = Procs
  /\ pc = "elaborate" => Elaborating
  /\ pc # "elaborate" => procPool = Procs
  /\ Begun => \A p \in Procs : ~Unstarted(p)
  /\ AcquireWaits /\ ClockedWaits /\ ClkWaits /\ PassiveWaits /\ CompareWaits

\* What the kernel guarantees
KernelKept == KernelInv /\ TimersExact /\ DuesPositive

\* The steps in which no process runs and no signal is updated
QuietStep ==
  \/ (\E p \in Procs : ProcReg(p)) /\ UNCHANGED bvars
  \/ Elaborated /\ KernelStep /\ UNCHANGED bvars
  \/ DeltaEnd({}) /\ UNCHANGED bvars
  \/ Terminated /\ UNCHANGED bvars
  \/ UNCHANGED allvars

\* Who waits for one event is woken by the resolve of that event, and of no other.
Resolved(q, f) ==
  /\ q \in readyPool' => q \in readyPool \/ (f \in trigPool /\ f \notin trigPool' /\ pc = "resolve" /\ pc' = "resolve")
  /\ f \in trigPool => f \in trigPool' \/ q \in readyPool'

LEMMA QuietStepEffect ==
  ASSUME TransactionsAssumption, KernelKept, pc # "aborted", QuietStep
  PROVE  /\ UNCHANGED <<bvars, events, delayed, updatePool>>
         /\ readyPool \subseteq readyPool' /\ trigPool' \subseteq trigPool
         /\ pc # "elaborate" =>
              \A q \in Procs : q \notin delayed =>
                /\ events[q] = {} => (q \in readyPool' => q \in readyPool)
                /\ \A f \in Events : events[q] = {f} => Resolved(q, f)
<1>1. Quiet /\ UNCHANGED bvars
  BY DEF QuietStep, Quiet, allvars
<1>2. UNCHANGED <<events, delayed, updatePool>> /\ readyPool \subseteq readyPool'
  BY <1>1, QuietEffect DEF KernelKept, KernelInv
<1>3. /\ \/ UNCHANGED trigPool /\ \A e \in Events : ~Resolve(e)
         \/ \E e \in Events : Resolve(e)
      /\ trigPool' \subseteq trigPool
  BY <1>1 DEF Quiet, KernelStep, Run, TimestepStart, DeltaStart, EvaluateDone, Resolve,
              DeltaLimit, AdvanceTime, NothingScheduled, ProcReg, DeltaEnd, Terminated, vars, pools
<1>4. Unchained
  BY DEF Unchained, TransactionsAssumption
<1>5. ASSUME NEW q \in Procs, NEW f \in Events, events[q] = {f}, q \notin delayed, pc # "elaborate"
      PROVE  Resolved(q, f)
  <2>1. q \in readyPool' /\ q \notin readyPool => f \in trigPool /\ f \notin trigPool'
    BY <1>1, <1>4, <1>5, WhoIsWoken DEF KernelKept
  <2>2. f \in trigPool /\ f \notin trigPool' => pc = "resolve" /\ pc' = "resolve" /\ q \in readyPool'
    <3>1. f \in trigPool /\ f \notin trigPool' => Resolve(f)
      BY <1>3 DEF Resolve
    <3>2. q \in Woken(f)
      BY <1>4, <1>5, WokenBySubscription DEF KernelKept, KernelInv, SubscriptionsExact
    <3> QED BY <3>1, <3>2 DEF Resolve
  <2> QED BY <2>1, <2>2 DEF Resolved
<1>6. ASSUME NEW q \in Procs, events[q] = {}, q \notin delayed, q \in readyPool', pc # "elaborate"
      PROVE  q \in readyPool
  <2>1. CASE AdvanceTime
    BY <1>6, <2>1, AdvanceTimePops DEF KernelKept, KernelInv, TimersExact
  <2>2. ASSUME NEW e \in Events, Resolve(e) PROVE q \in readyPool
    BY <1>4, <1>6, <2>2, WokenBySubscription
    DEF KernelKept, KernelInv, SubscriptionsExact, Resolve
  <2> QED
    BY <1>1, <1>6, <2>1, <2>2 DEF Quiet, KernelStep, Run, TimestepStart, DeltaStart, EvaluateDone,
       DeltaLimit, NothingScheduled, ProcReg, DeltaEnd, Terminated, vars, pools
<1> QED BY <1>1, <1>2, <1>3, <1>5, <1>6

\* A slice of p leaves the other processes where they are.
LEMMA SliceKeepsWaits ==
  ASSUME TransactionsAssumption, TypeOK, WaitsMatch,
         NEW p \in Procs, NEW T \in SUBSET Events, NEW U \in SUBSET Sigs,
         NEW W \in SUBSET Events, NEW d \in Delays \cup {NoDelay}, RunProc(p, T, U, W, d),
         DOMAIN at' = Procs, \A q \in Procs \ {p} : at'[q] = at[q],
         p = "acquire" => AcquireWaits', p \in Clocks => Waits(p, "clocked", "clk.posedge")',
         p = "clk" => ClkWaits', p = "passive" => PassiveWaits', p = "compare" => CompareWaits'
  PROVE  WaitsMatch'
<1>1. /\ pc = "evaluate" /\ pc' = pc /\ time' = time /\ deltaCount' = deltaCount
      /\ procPool' = procPool /\ readyPool' = readyPool \ {p} /\ SliceKeeps(p, W, d)
  BY SliceEffect DEF RunProc
<1>2. \A q \in Procs \ {p} : /\ at'[q] = at[q] /\ events'[q] = events[q]
                             /\ q \in delayed' <=> q \in delayed
                             /\ q \in readyPool' <=> q \in readyPool
  BY <1>1 DEF SliceKeeps
<1>3. \A q \in Procs \ {p} : /\ Unstarted(q)' <=> Unstarted(q)
                             /\ \A s, e : Waits(q, s, e)' <=> Waits(q, s, e)
  BY <1>1, <1>2 DEF Unstarted, Waits
<1>4. ~Unstarted(p)'
  BY <1>1 DEF Unstarted
<1>5. Begun' => \A q \in Procs : ~Unstarted(q)'
  <2>1. Begun' <=> Begun
    BY <1>1 DEF Begun
  <2> QED BY <1>3, <1>4, <2>1 DEF WaitsMatch
<1>6. {"acquire", "clk", "passive", "compare"} \cup Clocks \subseteq Procs
  BY DEF TransactionsAssumption, Clocks
<1>7. p # "acquire" => AcquireWaits'
  BY <1>3, <1>6 DEF WaitsMatch, AcquireWaits
<1>8. p # "compare" => CompareWaits'
  BY <1>3, <1>6 DEF WaitsMatch, CompareWaits
<1>9. p # "passive" => PassiveWaits'
  BY <1>3, <1>6 DEF WaitsMatch, PassiveWaits
<1>10. p # "clk" => ClkWaits'
  BY <1>2, <1>3, <1>6 DEF WaitsMatch, ClkWaits
<1>11. ClockedWaits'
  BY <1>3, <1>6 DEF WaitsMatch, ClockedWaits
<1> QED BY <1>1, <1>5, <1>7, <1>8, <1>9, <1>10, <1>11 DEF WaitsMatch

LEMMA MainWaits ==
  ASSUME TransactionsAssumption, TypeOK, WaitsMatch, MainNext \/ MainBlocks \/ MainPush
  PROVE  WaitsMatch'
<1>1. PICK d \in Delays \cup {NoDelay}, T \in SUBSET Events, W \in SUBSET Events :
        RunProc("main", T, {}, W, d)
  <2>1. CASE MainNext
    BY <2>1 DEF MainNext, TransactionsAssumption
  <2>2. CASE MainBlocks
    BY <2>2 DEF MainBlocks, TransactionsAssumption
  <2>3. CASE MainPush
    BY <2>3 DEF MainPush, TransactionsAssumption
  <2> QED BY <2>1, <2>2, <2>3
<1>2. DOMAIN at' = Procs /\ \A q \in Procs \ {"main"} : at'[q] = at[q]
  BY DEF WaitsMatch, MainNext, MainBlocks, MainPush
<1>3. "main" \in Procs /\ "main" \notin Clocks
  BY DEF TransactionsAssumption, Clocks
<1> QED BY <1>1, <1>2, <1>3, SliceKeepsWaits

LEMMA AcquireSlices ==
  ASSUME TransactionsAssumption, TypeOK, WaitsMatch, AcquirePop \/ AcquireFill
  PROVE  WaitsMatch'
<1> USE DEF TransactionsAssumption, Enqueued, Updated, Queues
<1>1. PICK U \in SUBSET Sigs, W \in SUBSET Events :
        /\ RunProc("acquire", {}, U, W, NoDelay)
        /\ \/ W = {"in.enqueued"} /\ at' = at /\ at["acquire"] \in {"start", "sent"}
           \/ W = {"in.updated"} /\ at' = [at EXCEPT !["acquire"] = "popped"]
           \/ W = {"last_data_event"} /\ at' = [at EXCEPT !["acquire"] = "sent"]
  <2>1. CASE AcquirePop
    BY <2>1 DEF AcquirePop, PopBlocks, PopTakes
  <2>2. CASE AcquireFill
    BY <2>2 DEF AcquireFill
  <2> QED BY <2>1, <2>2
<1>2. events'["acquire"] = W /\ "acquire" \notin delayed'
  BY <1>1 DEF RunProc, TypeOK
<1>3. AcquireWaits'
  BY <1>1, <1>2 DEF AcquireWaits, Waits, WaitsMatch
<1>4. DOMAIN at' = Procs /\ \A q \in Procs \ {"acquire"} : at'[q] = at[q]
  BY <1>1 DEF WaitsMatch
<1> QED BY <1>1, <1>3, <1>4, SliceKeepsWaits, ZenonT(40) DEF Clocks

LEMMA ClockedSlices ==
  ASSUME TransactionsAssumption, TypeOK, WaitsMatch,
         \/ \E p \in Clocks : Sensitive(p)
         \/ Send \/ Design
         \/ Recv /\ UNCHANGED at
  PROVE  WaitsMatch'
<1> USE DEF TransactionsAssumption
<1>1. PICK p \in Clocks, T \in SUBSET Events, U \in SUBSET Sigs :
        /\ RunProc(p, T, U, {"clk.posedge"}, NoDelay)
        /\ at' = [at EXCEPT ![p] = "clocked"] \/ (at' = at /\ at[p] = "clocked")
  <2>1. CASE \E p \in Clocks : Sensitive(p)
    BY <2>1 DEF Sensitive
  <2>2. CASE Send
    BY <2>2 DEF Send, Clocked, Clocks
  <2>3. CASE Design
    BY <2>3 DEF Design, Clocked, Clocks
  <2>4. CASE Recv /\ UNCHANGED at
    BY <2>4 DEF Recv, Clocks, WaitsMatch
  <2> QED BY <2>1, <2>2, <2>3, <2>4
<1>2. p \in Procs /\ p \notin {"acquire", "clk", "passive", "compare"}
  BY DEF Clocks
<1>3. events'[p] = {"clk.posedge"} /\ p \notin delayed'
  BY <1>1, <1>2 DEF RunProc, TypeOK
<1>4. Waits(p, "clocked", "clk.posedge")'
  BY <1>1, <1>2, <1>3 DEF Waits, WaitsMatch
<1>5. DOMAIN at' = Procs /\ \A q \in Procs \ {p} : at'[q] = at[q]
  BY <1>1 DEF WaitsMatch
<1> QED BY <1>1, <1>2, <1>4, <1>5, SliceKeepsWaits

LEMMA ClkSlices ==
  ASSUME TransactionsAssumption, TypeOK, WaitsMatch, ClkToggle
  PROVE  WaitsMatch'
<1> USE DEF TransactionsAssumption
<1>1. PICK U \in SUBSET Sigs : RunProc("clk", {}, U, {}, HalfPeriod)
  BY DEF ClkToggle
<1>2. ClkWaits'
  BY <1>1 DEF ClkToggle, ClkWaits, WaitsMatch, RunProc, TypeOK
<1>3. DOMAIN at' = Procs /\ \A q \in Procs \ {"clk"} : at'[q] = at[q]
  BY DEF ClkToggle, WaitsMatch
<1> QED BY <1>1, <1>2, <1>3, SliceKeepsWaits DEF Clocks

LEMMA PassiveSlices ==
  ASSUME TransactionsAssumption, TypeOK, WaitsMatch,
         PassiveWait \/ Passive \/ PushAgain("passive", "ref", "in.updated", "watch")
  PROVE  WaitsMatch'
<1> USE DEF TransactionsAssumption, Enqueued, Updated, Queues
<1>1. PICK T \in SUBSET Events, W \in SUBSET Events :
        /\ RunProc("passive", T, {}, W, NoDelay)
        /\ DOMAIN at' = Procs /\ \A q \in Procs \ {"passive"} : at'[q] = at[q]
        /\ \/ at'["passive"] = "watch" /\ W = {"in.updated"}
           \/ at'["passive"] = "push" /\ W = {"ref.updated"}
  <2>1. CASE PassiveWait
    BY <2>1 DEF PassiveWait, WaitsMatch
  <2>2. CASE Passive
    BY <2>2 DEF Passive, WaitsMatch
  <2>3. CASE PushAgain("passive", "ref", "in.updated", "watch")
    BY <2>3 DEF PushAgain, WaitsMatch
  <2> QED BY <2>1, <2>2, <2>3
<1>2. PassiveWaits'
  BY <1>1 DEF RunProc, TypeOK, PassiveWaits, Waits
<1> QED BY <1>1, <1>2, SliceKeepsWaits, ZenonT(40) DEF Clocks

LEMMA CompareSlices ==
  ASSUME TransactionsAssumption, TypeOK, WaitsMatch, CompareRef \/ CompareDut \/ Compare
  PROVE  WaitsMatch'
<1> USE DEF TransactionsAssumption, Enqueued, Updated, Queues
<1>1. PICK U \in SUBSET Sigs, W \in SUBSET Events :
        /\ RunProc("compare", {}, U, W, NoDelay)
        /\ DOMAIN at' = Procs /\ \A q \in Procs \ {"compare"} : at'[q] = at[q]
        /\ \/ at'["compare"] = "start" /\ W = {"ref.enqueued"}
           \/ at'["compare"] = "ref" /\ W = {"ref.updated"}
           \/ at'["compare"] = "ref" /\ W = {"dut.enqueued"}
           \/ at'["compare"] = "dut" /\ W = {"dut.updated"}
  <2>1. CASE CompareRef
    BY <2>1 DEF CompareRef, PopBlocks, PopTakes, WaitsMatch
  <2>2. CASE CompareDut
    BY <2>2 DEF CompareDut, PopBlocks, PopTakes, WaitsMatch
  <2>3. CASE Compare
    BY <2>3 DEF Compare, WaitsMatch
  <2> QED BY <2>1, <2>2, <2>3
<1>2. CompareWaits'
  BY <1>1 DEF RunProc, TypeOK, CompareWaits, Waits
<1> QED BY <1>1, <1>2, SliceKeepsWaits DEF Clocks

\* Neither do the steps without a slice move anybody.
LEMMA QuietWaits ==
  ASSUME TransactionsAssumption, KernelKept, WaitsMatch, QuietStep
  PROVE  WaitsMatch'
<1>1. /\ UNCHANGED <<bvars, events, delayed, updatePool>> /\ readyPool \subseteq readyPool'
      /\ trigPool' \subseteq trigPool
      /\ pc # "elaborate" => \A q \in Procs : q \notin delayed /\ events[q] = {} =>
           (q \in readyPool' => q \in readyPool)
  BY QuietStepEffect DEF WaitsMatch
<1>2. UNCHANGED at
  BY <1>1 DEF bvars
<1>3. CASE pc = "elaborate"
  <2>1. \/ \E p \in Procs : ProcReg(p)
        \/ Run /\ procPool = Procs
        \/ UNCHANGED vars
    BY <1>3 DEF QuietStep, Elaborated, KernelStep, TimestepStart, DeltaStart, EvaluateDone, Resolve,
       DeltaLimit, AdvanceTime, NothingScheduled, DeltaEnd, Terminated, Stopped, allvars
  <2>2. Elaborating
    BY <1>3 DEF WaitsMatch
  <2>3. /\ pc' = "elaborate" => Elaborating'
        /\ pc' # "aborted" /\ ~Begun'
        /\ pc' # "elaborate" => procPool' = Procs /\ readyPool' = Procs
    BY <1>2, <1>3, <2>1, <2>2 DEF Elaborating, ProcReg, Run, Begun, vars, pools
  <2>4. \A q \in Procs : Unstarted(q) => Unstarted(q)'
    BY <1>1, <1>2, <2>3 DEF Unstarted
  <2>5. \A q \in Procs : \A s, e : Waits(q, s, e) => Waits(q, s, e)'
    BY <1>1, <1>2 DEF Waits
  <2> QED
    BY <1>1, <1>2, <2>3, <2>4, <2>5 DEF WaitsMatch, TransactionsAssumption, Clocks,
       AcquireWaits, ClockedWaits, ClkWaits, PassiveWaits, CompareWaits
<1>4. CASE pc # "elaborate"
  <2>1. pc' # "elaborate" /\ pc' # "aborted" /\ procPool' = procPool
    BY <1>4 DEF WaitsMatch, QuietStep, KernelStep, Run, TimestepStart, DeltaStart, EvaluateDone, Resolve,
       DeltaLimit, AdvanceTime, NothingScheduled, DeltaEnd, Terminated, ProcReg, allvars, vars
  <2>2. \A q \in Procs : Unstarted(q)' <=> Unstarted(q)
    BY <1>1, <1>2, <1>4, <2>1 DEF Unstarted
  <2>3. \A q \in Procs : \A s, e : Waits(q, s, e) => Waits(q, s, e)'
    BY <1>1, <1>2 DEF Waits
  <2>4. Begun' => Begun \/ readyPool = {}
    BY <1>4 DEF WaitsMatch, QuietStep, KernelStep, Run, TimestepStart, DeltaStart, EvaluateDone, Resolve,
       DeltaLimit, AdvanceTime, NothingScheduled, DeltaEnd, Terminated, ProcReg, allvars, vars, Begun,
       Pending
  <2>5. Begun' => \A q \in Procs : ~Unstarted(q)'
    BY <1>4, <2>2, <2>4 DEF WaitsMatch, Unstarted
  <2> QED
    BY <1>1, <1>2, <1>4, <2>1, <2>2, <2>3, <2>5 DEF WaitsMatch, TransactionsAssumption, Clocks,
       AcquireWaits, ClockedWaits, ClkWaits, PassiveWaits, CompareWaits
<1> QED BY <1>3, <1>4

LEMMA UpdateWaits ==
  ASSUME TransactionsAssumption, WaitsMatch, SignalsUpdate
  PROVE  WaitsMatch'
<1>1. /\ pc = "resolve" /\ pc' = "delta_end"
      /\ UNCHANGED <<at, events, delayed, readyPool, procPool, time, deltaCount>>
  BY DEF SignalsUpdate, Update, subs
<1>2. \A q \in Procs : Unstarted(q)' <=> Unstarted(q)
  BY <1>1 DEF Unstarted
<1>3. \A q \in Procs : \A s, e : Waits(q, s, e)' <=> Waits(q, s, e)
  BY <1>1 DEF Waits
<1> QED
  BY <1>1, <1>2, <1>3 DEF WaitsMatch, Begun, TransactionsAssumption, Clocks,
     AcquireWaits, ClockedWaits, ClkWaits, PassiveWaits, CompareWaits

-----------------------------------------------------------------------------
(* The invariant: when in a time step things happen *)

EdgeReady(x) == x \in readyPool /\ at[x] = "clocked"

\* The edge of the clock, if there is one, has been dealt with.
Late == time = 0 \/ deltaCount >= 3

\* The clock changes in the first delta cycle of a time step, its edge is resolved in
\* the second and the processes that are sensitive to it run in the third.
EdgeTiming ==
  /\ "clk" \in readyPool => /\ deltaCount = 0 /\ pc \in {"elaborate", "timestep", "loop", "evaluate"}
                            /\ at["clk"] = "run" => time > 0
  /\ "clk" \in updatePool => deltaCount = 0 /\ time > 0
  /\ "clk.posedge" \in trigPool => /\ \/ deltaCount = 0 /\ pc = "delta_end"
                                      \/ deltaCount = 1 /\ pc \in {"loop", "evaluate", "resolve"}
                                   /\ time > 0 /\ \A x \in Clocks : ~EdgeReady(x)
  /\ \A x \in Clocks : EdgeReady(x) => /\ \/ deltaCount = 1 /\ pc \in {"resolve", "delta_end"}
                                          \/ deltaCount = 2 /\ pc \in {"loop", "evaluate"}
                                       /\ time > 0

\* What the processes on the edge do is over in the third delta cycle.
ClockedTiming ==
  /\ updatePool \cap {"pipe", "ready"} # {} => deltaCount = 2 /\ time > 0
  /\ "bus" \in updatePool => Late \/ (deltaCount = 2 /\ "send" \notin readyPool)
  /\ trigPool \cap {"dut.enqueued", "last_data_event"} # {} =>
       deltaCount = 2 /\ time > 0 /\ pc \in {"evaluate", "resolve"}

\* The generator may send in the first delta cycle. What follows from it comes to the bus
\* and to the references in the fourth.
FlowTiming ==
  /\ "acquire" \in readyPool => time = 0 \/ deltaCount >= 1 \/ pc \in {"resolve", "delta_end"}
  /\ "in" \in updatePool => time = 0 \/ deltaCount >= 1
  /\ "in.updated" \in trigPool => time = 0 \/ deltaCount >= 2 \/ (deltaCount >= 1 /\ pc = "delta_end")

CheckTiming ==
  /\ ("acquire" \in readyPool /\ at["acquire"] = "popped") \/ readyPool \cap {"passive", "compare"} # {} =>
       Late \/ (deltaCount >= 2 /\ pc \in {"resolve", "delta_end"})
  /\ updatePool \cap {"ref", "dut"} # {} => Late
  /\ trigPool \cap {"ref.updated", "dut.updated", "ref.enqueued"} # {} => Late

Timing ==
  pc # "finished" =>
    /\ pc \in {"elaborate", "timestep"} => deltaCount = 0
    /\ EdgeTiming /\ ClockedTiming /\ FlowTiming /\ CheckTiming

\* Who triggers and updates what
Attributed(p, T, U) ==
  /\ "clk" \in U => p = "clk" /\ at["clk"] = "run"
  /\ U \cap {"pipe", "ready"} # {} => p = "design" /\ at["design"] = "clocked"
  /\ "bus" \in U => \/ p = "send" /\ at["send"] = "clocked"
                    \/ p = "acquire" /\ at["acquire"] = "popped"
  /\ "in" \in U => p = "acquire"
  /\ U \cap {"ref", "dut"} # {} => p = "compare"
  /\ T \cap {"clk.posedge", "in.updated", "ref.updated", "dut.updated"} = {}
  /\ "ref.enqueued" \in T => p = "passive"
  /\ "dut.enqueued" \in T => p = "recv" /\ at["recv"] = "clocked"
  /\ "last_data_event" \in T => p = "send" /\ at["send"] = "clocked"

LEMMA SliceTiming ==
  ASSUME TransactionsAssumption, KernelKept, Timing,
         NEW p \in Procs, NEW T \in SUBSET Events, NEW U \in SUBSET Sigs,
         NEW W \in SUBSET Events, NEW d \in Delays \cup {NoDelay}, RunProc(p, T, U, W, d),
         \A q \in Procs \ {p} : at'[q] = at[q], Attributed(p, T, U)
  PROVE  Timing'
<1>1. /\ pc = "evaluate" /\ pc' = pc /\ time' = time /\ deltaCount' = deltaCount
      /\ p \in readyPool /\ readyPool' = readyPool \ {p}
      /\ trigPool' = trigPool \cup T /\ updatePool' = updatePool \cup U
  BY DEF RunProc
<1>2. \A q \in Procs : EdgeReady(q)' => EdgeReady(q)
  BY <1>1 DEF EdgeReady
<1>3. {"acquire", "clk", "passive", "compare"} \cup Clocks \subseteq Procs /\ Clocks = {"send", "design", "recv"}
  BY DEF TransactionsAssumption, Clocks
<1>4. Late' <=> Late
  BY <1>1 DEF Late
<1>5. time \in Nat /\ deltaCount \in Nat
  BY DEF KernelKept, KernelInv, TypeOK
<1>6. EdgeTiming /\ ClockedTiming /\ FlowTiming /\ CheckTiming
  BY <1>1 DEF Timing
<1>7. EdgeTiming'
  BY <1>1, <1>2, <1>3, <1>5, <1>6 DEF EdgeTiming, Attributed
<1>8. ClockedTiming'
  BY <1>1, <1>2, <1>3, <1>4, <1>5, <1>6 DEF EdgeTiming, ClockedTiming, CheckTiming, Attributed, EdgeReady, Late
<1>9. FlowTiming'
  BY <1>1, <1>5, <1>6 DEF FlowTiming, Attributed
<1>10. CheckTiming'
  BY <1>1, <1>3, <1>4, <1>5, <1>6 DEF CheckTiming, Attributed
<1> QED BY <1>1, <1>7, <1>8, <1>9, <1>10 DEF Timing

\* A slice of the design triggers and updates nothing else.
LEMMA DesignTiming ==
  ASSUME TransactionsAssumption, KernelKept, WaitsMatch, Timing,
         \/ MainNext \/ MainBlocks \/ MainPush \/ AcquirePop \/ AcquireFill
         \/ \E p \in Clocks : Sensitive(p)
         \/ Send \/ ClkToggle \/ Design \/ Recv
         \/ PassiveWait \/ Passive \/ PushAgain("passive", "ref", "in.updated", "watch")
         \/ CompareRef \/ CompareDut \/ Compare
  PROVE  Timing'
<1> USE DEF TransactionsAssumption, Enqueued, Updated, Queues, Attributed
<1>1. ASSUME NEW p \in Procs, NEW T \in SUBSET Events, NEW U \in SUBSET Sigs, Attributed(p, T, U),
             NEW W \in SUBSET Events, NEW d \in Delays \cup {NoDelay}, RunProc(p, T, U, W, d),
             \A q \in Procs \ {p} : at'[q] = at[q]
      PROVE  Timing'
  BY <1>1, SliceTiming
<1>2. CASE MainNext \/ MainBlocks \/ MainPush
  <2>1. PICK d \in Delays \cup {NoDelay}, T \in SUBSET {"in.enqueued"}, W \in SUBSET Events :
          RunProc("main", T, {}, W, d)
    <3>1. CASE MainNext
      BY <3>1 DEF MainNext
    <3>2. CASE MainBlocks
      BY <3>2 DEF MainBlocks
    <3>3. CASE MainPush
      BY <3>3 DEF MainPush
    <3> QED BY <1>2, <3>1, <3>2, <3>3
  <2>2. \A q \in Procs \ {"main"} : at'[q] = at[q]
    BY <1>2 DEF WaitsMatch, MainNext, MainBlocks, MainPush
  <2>3. Attributed("main", T, {})
    BY <2>1
  <2> QED BY <1>1, <2>1, <2>2, <2>3
<1>3. CASE AcquirePop \/ AcquireFill
  <2>1. PICK U \in SUBSET Sigs, W \in SUBSET Events :
          /\ RunProc("acquire", {}, U, W, NoDelay)
          /\ U \subseteq {"in"} \/ (U \subseteq {"bus"} /\ at["acquire"] = "popped")
    <3>1. CASE AcquirePop
      BY <3>1, SMTT(20) DEF AcquirePop, PopBlocks, PopTakes
    <3>2. CASE AcquireFill
      <4>1. \/ RunProc("acquire", {}, {"bus"}, {"last_data_event"}, NoDelay)
            \/ RunProc("acquire", {}, {}, {"last_data_event"}, NoDelay)
        BY <3>2 DEF AcquireFill
      <4> QED BY <3>2, <4>1 DEF AcquireFill
    <3> QED BY <1>3, <3>1, <3>2
  <2>2. \A q \in Procs \ {"acquire"} : at'[q] = at[q]
    BY <1>3 DEF WaitsMatch, AcquirePop, PopBlocks, PopTakes, AcquireFill
  <2>3. Attributed("acquire", {}, U)
    BY <2>1
  <2> QED BY <1>1, <2>1, <2>2, <2>3
<1>4. CASE (\E p \in Clocks : Sensitive(p)) \/ Send \/ Design \/ Recv
  <2>1. PICK p \in Clocks, T \in SUBSET Events, U \in SUBSET Sigs, W \in SUBSET Events :
          /\ RunProc(p, T, U, W, NoDelay)
          /\ \A q \in Procs \ {p} : at'[q] = at[q]
          /\ \/ T = {} /\ U = {}
             \/ p = "send" /\ T \subseteq {"last_data_event"} /\ U \subseteq {"bus"} /\ at[p] = "clocked"
             \/ p = "design" /\ T = {} /\ U = {"pipe", "ready"} /\ at[p] = "clocked"
             \/ p = "recv" /\ T \subseteq {"dut.enqueued"} /\ U = {} /\ at[p] = "clocked"
    <3>1. CASE \E p \in Clocks : Sensitive(p)
      BY <3>1 DEF Sensitive, Clocks, WaitsMatch
    <3>2. CASE Send
      BY <3>2 DEF Send, Clocked, Clocks
    <3>3. CASE Design
      BY <3>3 DEF Design, Clocked, Clocks
    <3>4. CASE Recv
      BY <3>4 DEF Recv, Clocks, WaitsMatch
    <3> QED BY <1>4, <3>1, <3>2, <3>3, <3>4
  <2>2. Attributed(p, T, U)
    BY <2>1
  <2>3. p \in Procs
    BY DEF Clocks
  <2> QED BY <1>1, <2>1, <2>2, <2>3
<1>5. CASE ClkToggle
  <2>1. PICK U \in SUBSET {"clk"} :
          /\ RunProc("clk", {}, U, {}, HalfPeriod)
          /\ U # {} => at["clk"] = "run"
    BY <1>5 DEF ClkToggle, WaitsMatch, ClkWaits, Unstarted
  <2>2. \A q \in Procs \ {"clk"} : at'[q] = at[q]
    BY <1>5 DEF WaitsMatch, ClkToggle
  <2>3. Attributed("clk", {}, U)
    BY <2>1
  <2> QED BY <1>1, <2>1, <2>2, <2>3
<1>6. CASE PassiveWait \/ Passive \/ PushAgain("passive", "ref", "in.updated", "watch")
  <2>1. PICK T \in SUBSET {"ref.enqueued"}, W \in SUBSET Events :
          RunProc("passive", T, {}, W, NoDelay)
    <3>1. CASE PassiveWait
      BY <3>1 DEF PassiveWait
    <3>2. CASE Passive
      BY <3>2 DEF Passive
    <3>3. CASE PushAgain("passive", "ref", "in.updated", "watch")
      BY <3>3 DEF PushAgain
    <3> QED BY <1>6, <3>1, <3>2, <3>3
  <2>2. \A q \in Procs \ {"passive"} : at'[q] = at[q]
    BY <1>6 DEF WaitsMatch, PassiveWait, Passive, PushAgain
  <2>3. Attributed("passive", T, {})
    BY <2>1
  <2> QED BY <1>1, <2>1, <2>2, <2>3
<1>7. CASE CompareRef \/ CompareDut \/ Compare
  <2>1. PICK U \in SUBSET {"ref", "dut"}, W \in SUBSET Events :
          RunProc("compare", {}, U, W, NoDelay)
    <3>1. CASE CompareRef
      BY <3>1 DEF CompareRef, PopBlocks, PopTakes
    <3>2. CASE CompareDut
      BY <3>2 DEF CompareDut, PopBlocks, PopTakes
    <3>3. CASE Compare
      BY <3>3 DEF Compare
    <3> QED BY <1>7, <3>1, <3>2, <3>3
  <2>2. \A q \in Procs \ {"compare"} : at'[q] = at[q]
    BY <1>7 DEF WaitsMatch, CompareRef, CompareDut, Compare, PopBlocks, PopTakes
  <2>3. Attributed("compare", {}, U)
    BY <2>1
  <2> QED BY <1>1, <2>1, <2>2, <2>3
<1> QED BY <1>2, <1>3, <1>4, <1>5, <1>6, <1>7

LEMMA UpdateTiming ==
  ASSUME TransactionsAssumption, KernelKept, Timing, SignalsUpdate
  PROVE  Timing'
<1>1. /\ pc = "resolve" /\ pc' = "delta_end" /\ trigPool = {} /\ trigPool' = Triggers
      /\ updatePool' = {} /\ UNCHANGED <<at, readyPool, time, deltaCount>>
  BY DEF SignalsUpdate, Update
<1>2. /\ "in.updated" \in Triggers => "in" \in updatePool
      /\ "ref.updated" \in Triggers => "ref" \in updatePool
      /\ "dut.updated" \in Triggers => "dut" \in updatePool
      /\ "clk.posedge" \in Triggers => "clk" \in updatePool
      /\ Triggers \cap {"dut.enqueued", "last_data_event", "ref.enqueued"} = {}
  BY DEF Triggers, Updated, Queues
<1>3. /\ \A x \in Clocks : EdgeReady(x)' <=> EdgeReady(x)
      /\ Late' <=> Late
  BY <1>1 DEF EdgeReady, Late
<1>4. time \in Nat /\ deltaCount \in Nat
  BY DEF KernelKept, KernelInv, TypeOK
<1>5. EdgeTiming /\ ClockedTiming /\ FlowTiming /\ CheckTiming
  BY <1>1 DEF Timing
<1>6. EdgeTiming'
  BY <1>1, <1>2, <1>3, <1>4, <1>5 DEF EdgeTiming
<1>7. ClockedTiming'
  BY <1>1, <1>2, <1>5 DEF ClockedTiming
<1>8. FlowTiming'
  BY <1>1, <1>2, <1>4, <1>5 DEF FlowTiming
<1>9. CheckTiming'
  BY <1>1, <1>2, <1>3, <1>5 DEF CheckTiming
<1> QED BY <1>1, <1>6, <1>7, <1>8, <1>9 DEF Timing

\* How the loop goes on in a step without a slice
LoopGoesOn ==
  \/ /\ UNCHANGED <<pc, time, deltaCount>>
     /\ pc # "elaborate" => pc = "resolve" \/ UNCHANGED <<readyPool, trigPool>>
  \/ pc = "elaborate" /\ pc' = "timestep" /\ time' = 0 /\ UNCHANGED <<deltaCount, readyPool, trigPool>>
  \/ pc = "timestep" /\ pc' = "loop" /\ deltaCount' = 0 /\ UNCHANGED <<time, readyPool, trigPool>>
  \/ pc = "loop" /\ pc' = "evaluate" /\ UNCHANGED <<time, deltaCount, readyPool, trigPool>>
  \/ pc = "evaluate" /\ pc' = "resolve" /\ readyPool = {} /\ UNCHANGED <<time, deltaCount, readyPool, trigPool>>
  \/ pc = "delta_end" /\ pc' = "loop" /\ deltaCount' = deltaCount + 1 /\ UNCHANGED <<time, readyPool, trigPool>>
  \/ pc = "loop" /\ pc' = "timestep" /\ deltaCount' = 0 /\ AdvanceTime

LEMMA QuietLoop ==
  ASSUME QuietStep, pc' # "finished"
  PROVE  LoopGoesOn
<1>1. CASE (\E p \in Procs : ProcReg(p)) \/ UNCHANGED allvars \/ Terminated
  BY <1>1 DEF LoopGoesOn, ProcReg, allvars, vars, pools, Terminated
<1>2. CASE DeltaEnd({})
  BY <1>2 DEF LoopGoesOn, DeltaEnd, DeltaCounted
<1>3. CASE KernelStep
  BY <1>3 DEF LoopGoesOn, KernelStep, Run, TimestepStart, DeltaStart, EvaluateDone, Resolve,
              DeltaLimit, AdvanceTime, NothingScheduled, pools
<1> QED BY <1>1, <1>2, <1>3 DEF QuietStep

\* Who is woken by a step without a slice
Woke(q, f) == q \in readyPool' \ readyPool /\ f \in trigPool \ trigPool' /\ pc = "resolve" /\ pc' = "resolve"

LEMMA QuietWakes ==
  ASSUME TransactionsAssumption, KernelKept, WaitsMatch, QuietStep, pc # "elaborate"
  PROVE  /\ \A x \in Clocks : EdgeReady(x)' => EdgeReady(x) \/ Woke(x, "clk.posedge")
         /\ "acquire" \in readyPool' \ readyPool =>
              \/ at["acquire"] = "popped" /\ Woke("acquire", "in.updated")
              \/ at["acquire"] # "popped" /\ (Woke("acquire", "in.enqueued") \/ Woke("acquire", "last_data_event"))
         /\ "passive" \in readyPool' \ readyPool =>
              \/ at["passive"] = "watch" /\ Woke("passive", "in.updated")
              \/ at["passive"] = "push" /\ Woke("passive", "ref.updated")
         /\ "compare" \in readyPool' \ readyPool =>
              \/ at["compare"] = "start" /\ Woke("compare", "ref.enqueued")
              \/ at["compare"] = "ref" /\ (Woke("compare", "ref.updated") \/ Woke("compare", "dut.enqueued"))
              \/ at["compare"] = "dut" /\ Woke("compare", "dut.updated")
         /\ "clk" \in readyPool' \ readyPool => AdvanceTime
<1>1. /\ UNCHANGED <<at, events, delayed>> /\ readyPool \subseteq readyPool'
      /\ \A q \in Procs : q \notin delayed => \A f \in Events : events[q] = {f} => Resolved(q, f)
  BY QuietStepEffect DEF WaitsMatch, bvars
<1>2. \A s : \A q \in Procs, f \in Events : Waits(q, s, f) /\ q \in readyPool' \ readyPool => Woke(q, f)
  BY <1>1 DEF Waits, Woke, Resolved
<1>3. \A q \in Procs : Unstarted(q) => q \in readyPool
  BY DEF Unstarted
<1> USE DEF TransactionsAssumption
<1>4. ASSUME NEW x \in Clocks, EdgeReady(x)' PROVE EdgeReady(x) \/ Woke(x, "clk.posedge")
  <2>1. x \in Procs /\ at[x] = "clocked" /\ x \in readyPool'
    BY <1>1, <1>4 DEF EdgeReady, Clocks
  <2>2. Waits(x, "clocked", "clk.posedge")
    BY <2>1 DEF WaitsMatch, ClockedWaits, Unstarted
  <2> QED BY <1>2, <2>1, <2>2 DEF EdgeReady
<1>5. ASSUME "clk" \in readyPool' \ readyPool PROVE AdvanceTime
  <2>1. events["clk"] = {}
    BY DEF WaitsMatch, ClkWaits, Unstarted
  <2>2. ASSUME NEW e \in Events, Resolve(e) PROVE FALSE
    <3>1. Unchained
      BY DEF Unchained
    <3>2. "clk" \in evPool[e]
      BY <1>5, <2>2, <3>1, WokenBySubscription DEF Resolve
    <3> QED BY <2>1, <3>2 DEF KernelKept, KernelInv, SubscriptionsExact, WaitsMatch
  <2> QED
    BY <1>5, <2>2 DEF QuietStep, KernelStep, Run, TimestepStart, DeltaStart, EvaluateDone,
       DeltaLimit, NothingScheduled, ProcReg, DeltaEnd, Terminated, allvars, vars, pools
<1>6. AcquireWaits /\ PassiveWaits /\ CompareWaits
  BY DEF WaitsMatch
<1>7. "acquire" \in readyPool' \ readyPool =>
              \/ at["acquire"] = "popped" /\ Woke("acquire", "in.updated")
              \/ at["acquire"] # "popped" /\ (Woke("acquire", "in.enqueued") \/ Woke("acquire", "last_data_event"))
  BY <1>2, <1>3, <1>6 DEF AcquireWaits, Waits
<1>8. "passive" \in readyPool' \ readyPool =>
              \/ at["passive"] = "watch" /\ Woke("passive", "in.updated")
              \/ at["passive"] = "push" /\ Woke("passive", "ref.updated")
  BY <1>2, <1>3, <1>6 DEF PassiveWaits, Waits
<1>9. "compare" \in readyPool' \ readyPool =>
              \/ at["compare"] = "start" /\ Woke("compare", "ref.enqueued")
              \/ at["compare"] = "ref" /\ (Woke("compare", "ref.updated") \/ Woke("compare", "dut.enqueued"))
              \/ at["compare"] = "dut" /\ Woke("compare", "dut.updated")
  BY <1>2, <1>3, <1>6 DEF CompareWaits, Waits
<1> QED BY <1>4, <1>5, <1>7, <1>8, <1>9

\* Time moves past 0 when the clock has made itself due.
LEMMA AdvanceTimePositive ==
  ASSUME KernelKept, AdvanceTime, NEW p \in Procs, p \in readyPool'
  PROVE  time' > 0
<1>1. delayPool[p] \in Nat \cup {NoDelay} /\ time' \in Nat
  BY AdvanceTimeTypeOK DEF KernelKept, KernelInv, TypeOK
<1>2. delayPool[p] # NoDelay /\ delayPool[p] <= time'
  BY AdvanceTimePops DEF KernelKept, KernelInv
<1> QED BY <1>1, <1>2 DEF KernelKept, DuesPositive, NoDelay

LEMMA QuietTiming ==
  ASSUME TransactionsAssumption, KernelKept, WaitsMatch, Timing, QuietStep
  PROVE  Timing'
<1> SUFFICES ASSUME pc' # "finished" PROVE Timing'
  BY DEF Timing
<1>1. LoopGoesOn
  BY QuietLoop
<1>2. /\ UNCHANGED <<at, updatePool>> /\ readyPool \subseteq readyPool' /\ trigPool' \subseteq trigPool
  BY QuietStepEffect DEF WaitsMatch, bvars
<1>3. time \in Nat /\ deltaCount \in Nat
  BY DEF KernelKept, KernelInv, TypeOK
<1>4. updatePool # {} => pc \in {"evaluate", "resolve"}
  BY DEF KernelKept, KernelInv, WritesSettle, WaitsMatch
<1>5. "clk" \in Procs /\ Clocks \subseteq Procs
  BY DEF TransactionsAssumption, Clocks
<1>6. CASE pc = "elaborate"
  <2>1. Elaborating
    BY <1>6 DEF WaitsMatch
  <2>2. pc' \in {"elaborate", "timestep"} /\ time' = 0 /\ deltaCount' = 0 /\ trigPool' = {} /\ updatePool' = {}
    BY <1>1, <1>2, <1>6, <2>1 DEF LoopGoesOn, Elaborating
  <2>3. \A p \in Procs : at'[p] = "start"
    BY <1>2, <2>1 DEF Elaborating
  <2>4. Late' /\ \A x \in Clocks : ~EdgeReady(x)'
    BY <1>5, <2>2, <2>3 DEF Late, EdgeReady
  <2>5. EdgeTiming'
    BY <1>5, <2>2, <2>3, <2>4 DEF EdgeTiming
  <2> QED BY <2>2, <2>4, <2>5 DEF Timing, ClockedTiming, FlowTiming, CheckTiming
<1>7. CASE pc # "elaborate"
  <2>1. /\ pc \in {"elaborate", "timestep"} => deltaCount = 0
        /\ EdgeTiming /\ ClockedTiming /\ FlowTiming /\ CheckTiming
    BY <1>1 DEF Timing, LoopGoesOn, AdvanceTime
  <2>2. CASE AdvanceTime
    <3>1. /\ readyPool = {} /\ trigPool = {} /\ updatePool = {} /\ deltaCount' = 0 /\ pc' = "timestep"
          /\ trigPool' = {} /\ updatePool' = {}
      BY <1>2, <1>4, <2>2 DEF AdvanceTime, Pending
    <3>2. "acquire" \notin readyPool' /\ "passive" \notin readyPool' /\ "compare" \notin readyPool'
      BY <1>7, <3>1, QuietWakes DEF Woke
    <3>3. \A x \in Clocks : ~EdgeReady(x)'
      BY <1>7, <3>1, QuietWakes DEF Woke, EdgeReady
    <3>4. "clk" \in readyPool' => time' > 0
      BY <1>5, <2>2, AdvanceTimePositive
    <3>5. EdgeTiming'
      BY <3>1, <3>3, <3>4 DEF EdgeTiming
    <3> QED BY <3>1, <3>2, <3>5 DEF Timing, ClockedTiming, FlowTiming, CheckTiming
  <2>3. CASE ~AdvanceTime
    <3>1. /\ \A x \in Clocks : EdgeReady(x)' => EdgeReady(x) \/ Woke(x, "clk.posedge")
          /\ "clk" \in readyPool' => "clk" \in readyPool
          /\ "acquire" \in readyPool' => \/ "acquire" \in readyPool
                                         \/ at["acquire"] = "popped" /\ Woke("acquire", "in.updated")
                                         \/ at["acquire"] # "popped" /\ pc = "resolve" /\ pc' = "resolve"
          /\ "passive" \in readyPool' => \/ "passive" \in readyPool
                                         \/ Woke("passive", "in.updated") \/ Woke("passive", "ref.updated")
          /\ "compare" \in readyPool' => \/ "compare" \in readyPool
                                         \/ Woke("compare", "ref.enqueued") \/ Woke("compare", "ref.updated")
                                         \/ Woke("compare", "dut.enqueued") \/ Woke("compare", "dut.updated")
      BY <1>7, <2>3, QuietWakes DEF Woke
    <3>2. "send" \in readyPool' => "send" \in readyPool \/ Woke("send", "clk.posedge")
      <4>1. "send" \in readyPool' \ readyPool => EdgeReady("send")'
        <5>1. "send" \in readyPool' \ readyPool => at["send"] = "clocked"
          BY <1>7 DEF WaitsMatch, ClockedWaits, Unstarted, Waits, Clocks
        <5> QED BY <1>2, <5>1 DEF EdgeReady
      <4> QED BY <3>1, <4>1 DEF EdgeReady, Clocks
    <3>3. EdgeTiming'
      <4>1. "clk" \in readyPool' =>
              /\ deltaCount' = 0 /\ pc' \in {"elaborate", "timestep", "loop", "evaluate"}
              /\ at'["clk"] = "run" => time' > 0
        BY <1>1, <1>2, <1>3, <1>7, <2>1, <2>3, <3>1 DEF LoopGoesOn, EdgeTiming
      <4>2. "clk" \in updatePool' => deltaCount' = 0 /\ time' > 0
        BY <1>1, <1>2, <1>3, <1>4, <1>7, <2>1, <2>3 DEF LoopGoesOn, EdgeTiming
      <4>3. "clk.posedge" \in trigPool' =>
              /\ \/ deltaCount' = 0 /\ pc' = "delta_end"
                 \/ deltaCount' = 1 /\ pc' \in {"loop", "evaluate", "resolve"}
              /\ time' > 0 /\ \A x \in Clocks : ~EdgeReady(x)'
        BY <1>1, <1>2, <1>3, <1>7, <2>1, <2>3, <3>1 DEF LoopGoesOn, EdgeTiming, Woke
      <4>4. ASSUME NEW x \in Clocks, EdgeReady(x)'
            PROVE  /\ \/ deltaCount' = 1 /\ pc' \in {"resolve", "delta_end"}
                      \/ deltaCount' = 2 /\ pc' \in {"loop", "evaluate"}
                   /\ time' > 0
        <5>1. CASE EdgeReady(x)
          BY <1>1, <1>3, <1>7, <2>1, <2>3, <5>1 DEF LoopGoesOn, EdgeTiming, EdgeReady
        <5>2. CASE Woke(x, "clk.posedge")
          BY <1>1, <1>3, <1>7, <2>1, <2>3, <5>2 DEF LoopGoesOn, EdgeTiming, Woke
        <5> QED BY <3>1, <4>4, <5>1, <5>2
      <4> QED BY <4>1, <4>2, <4>3, <4>4 DEF EdgeTiming
    <3>4. ClockedTiming'
      BY <1>1, <1>2, <1>3, <1>4, <1>7, <2>1, <2>3, <3>2
      DEF LoopGoesOn, ClockedTiming, EdgeTiming, Woke, Late
    <3>5. FlowTiming'
      BY <1>1, <1>2, <1>3, <1>4, <1>7, <2>1, <2>3, <3>1
      DEF LoopGoesOn, FlowTiming, Woke
    <3>6. CheckTiming'
      BY <1>1, <1>2, <1>3, <1>4, <1>7, <2>1, <2>3, <3>1
      DEF LoopGoesOn, FlowTiming, ClockedTiming, CheckTiming, Woke, Late
    <3>7. pc' \in {"elaborate", "timestep"} => deltaCount' = 0
      BY <1>1, <1>7, <2>1, <2>3 DEF LoopGoesOn
    <3> QED BY <3>3, <3>4, <3>5, <3>6, <3>7 DEF Timing
  <2> QED BY <2>2, <2>3
<1> QED BY <1>6, <1>7

-----------------------------------------------------------------------------
(* The invariant: where the transactions are *)

\* How many transactions have been taken from the channel, compared, taken by the
\* scoreboard as references, written as references, and brought out of the design
Popped    == sent - Len(mem["in"])
Compared  == Len(results)
RefsTaken == Compared + (IF at["compare"] = "start" THEN 0 ELSE 1)
Refs      == RefsTaken + Len(mem["ref"])
Outs      == Compared + (IF at["compare"] = "dut" THEN 1 ELSE 0) + Len(mem["dut"])

\* The value that the signal s has, or is about to have
Latest(s) == IF s \in updatePool THEN next[s] ELSE val[s]

ItemIds == Nat \X Nat
Offers  == { o \in [valid : Bit, item : ItemIds \cup {<<>>}, last : Bit] : o.valid = 1 => o.item \in ItemIds }

Shapes ==
  /\ DOMAIN val = Sigs /\ DOMAIN next = Sigs /\ DOMAIN mem = Queues /\ DOMAIN held = Procs
  /\ \A s \in {"clk", "ready"} : val[s] \in Bit /\ next[s] \in Bit
  /\ val["bus"] \in Offers /\ next["bus"] \in Offers
  /\ val["pipe"] \in [1 .. Latency -> Offers] /\ next["pipe"] \in [1 .. Latency -> Offers]
  /\ sent \in 0 .. Len(Lens)
  /\ fifo \in Seq(Offers) /\ remain \in Seq(ItemIds)
  /\ received \in Seq(Seq(ItemIds)) /\ results \in Seq(BOOLEAN)

\* Each place holds the transaction that its counts tell.
Data ==
  /\ mem["in"] = <<>> \/ (sent >= 1 /\ mem["in"] = <<Items(sent)>>)
  /\ mem["ref"] = <<>> \/ mem["ref"] = <<Items(RefsTaken + 1)>>
  /\ mem["dut"] = <<>> \/ mem["dut"] = <<Items(Len(received))>>
  /\ Len(received) = Outs
  /\ Popped >= 1 => Latest("in") = Items(Popped)
  /\ at["compare"] = "ref" => Latest("ref") = Items(Compared + 1)
  /\ at["compare"] = "dut" => /\ "ref" \notin updatePool /\ val["ref"] = Items(Compared + 1)
                              /\ Latest("dut") = Items(Compared + 1)
  /\ at["passive"] = "push" => held["passive"] = Items(Popped)
  /\ \A i \in 1 .. Len(received) : received[i] = Items(i)
  /\ \A k \in 1 .. Len(results) : results[k]
  /\ remain = [j \in 1 .. Len(remain) |-> <<Len(received) + 1, j>>]

\* Who waits for the event e has been made ready by it, or will be.
Due(p, e) == p \in readyPool \/ e \in trigPool

\* Nobody waits for what has already happened.
Served ==
  /\ Waits("compare", "start", "ref.enqueued") /\ mem["ref"] # <<>> => Due("compare", "ref.enqueued")
  /\ Waits("compare", "ref", "dut.enqueued") /\ mem["dut"] # <<>> => Due("compare", "dut.enqueued")
  /\ Waits("compare", "ref", "ref.updated") => "ref" \in updatePool \/ Due("compare", "ref.updated")
  /\ Waits("compare", "dut", "dut.updated") => "dut" \in updatePool \/ Due("compare", "dut.updated")
  /\ at["acquire"] = "popped" => "in" \in updatePool \/ Due("acquire", "in.updated")
  /\ at["passive"] = "push" /\ mem["ref"] = <<>> => "ref" \in updatePool \/ Due("passive", "ref.updated")

\* An update of a queue, and the event that follows from it, find the process that has
\* popped waiting; the channel's finds the passive architecture watching too.
OnItsWay(q) == q \in updatePool \/ Updated[q] \in trigPool

Awaited ==
  /\ \A q \in Queues : ~(q \in updatePool /\ Updated[q] \in trigPool)
  /\ OnItsWay("ref") => Waits("compare", "ref", "ref.updated") /\ "compare" \notin readyPool
  /\ OnItsWay("dut") => Waits("compare", "dut", "dut.updated") /\ "compare" \notin readyPool
  /\ OnItsWay("in") => /\ at["acquire"] = "popped" /\ "acquire" \notin readyPool
                       /\ at["passive"] # "push" /\ (at["passive"] = "watch" => "passive" \notin readyPool)
  /\ "in.updated" \in trigPool => at["passive"] = "watch"

\* The transaction last popped has not been written as a reference.
Busy == \/ OnItsWay("in")
        \/ at["passive"] = "watch" /\ "passive" \in readyPool
        \/ at["passive"] = "push"

\* It has been before the next one is popped.
Seen ==
  /\ Refs = IF Busy THEN Popped - 1 ELSE Popped
  /\ fifo = <<>> /\ at["acquire"] # "popped" => ~Busy

\* What send offers of the transaction that is under way: the items from j on
Offer(e)    == [valid |-> 1, item |-> e, last |-> IF e[2] = Lens[e[1]] THEN 1 ELSE 0]
RestFrom(j) == [i \in 1 .. Lens[Popped] - j + 1 |-> Offer(<<Popped, j + i - 1>>)]

Offering ==
  /\ fifo # <<>> => /\ Popped >= 1 /\ \E j \in 1 .. Lens[Popped] : fifo = RestFrom(j)
                    /\ Waits("acquire", "sent", "last_data_event")
                    /\ "acquire" \notin readyPool /\ "last_data_event" \notin trigPool
                    /\ Latest("bus") = Head(fifo)
  /\ fifo = <<>> => Latest("bus").valid = 0
  /\ at["acquire"] = "popped" => val["bus"].valid = 0
  /\ fifo = <<>> /\ val["bus"].valid = 1 =>
       at["acquire"] = "sent" /\ pc \in {"evaluate", "resolve"} /\ ("acquire" \in readyPool => pc = "resolve")

-----------------------------------------------------------------------------
(* The invariant: the items in the design *)

\* A place in the stream of items: <<transaction, item>>, the next one, and the next one
\* when x has gone past
Succ(e)    == IF e[2] = Lens[e[1]] THEN <<e[1] + 1, 1>> ELSE <<e[1], e[2] + 1>>
Past(e, x) == IF x.valid = 1 THEN Succ(e) ELSE e

Proper(e) == /\ e[1] \in 1 .. Len(Lens) + 1 /\ e[2] >= 1
             /\ IF e[1] <= Len(Lens) THEN e[2] <= Lens[e[1]] ELSE e[2] = 1

\* From e to f there are at most k items, or at least a transaction.
Lag(e, f, k) ==
  \/ e[1] = f[1] /\ e[2] <= f[2] /\ f[2] - e[2] <= k
  \/ e[1] = f[1] - 1 /\ f[2] + Lens[e[1]] - e[2] <= k
  \/ e[1] <= f[1] - 2 /\ f[2] + Lens[f[1] - 1] <= k

\* The edge is being dealt with: x has run already.
Opened == EdgeReady("design") \/ "pipe" \in updatePool
Ran(x) == Opened /\ x \notin readyPool

\* The next items that send hands over and that recv gets
InPos  == IF fifo # <<>> THEN Head(fifo).item
          ELSE IF at["acquire"] = "popped" THEN <<Popped, 1>> ELSE <<Popped + 1, 1>>
OutPos == <<Len(received) + 1, Len(remain) + 1>>

EdgeAhead == \/ "clk" \in readyPool /\ at["clk"] = "run"
             \/ "clk" \in updatePool \/ "clk.posedge" \in trigPool
             \/ \E x \in Clocks : EdgeReady(x)

\* x takes the stream from e to f.
Carries(e, f, x) == f = Past(e, x) /\ (x.valid = 1 => x = Offer(e) /\ e[1] <= Len(Lens))

Shifted == [k \in 1 .. Latency |-> IF k = 1 THEN Input ELSE val["pipe"][k - 1]]

\* E[k] is the place that the stage k of the design has come to.
Stream(E) ==
  /\ \A k \in 0 .. Latency : Proper(E[k]) /\ Lag(E[k], E[0], k)
  /\ \A k \in 1 .. Latency : Carries(E[k], E[k - 1], val["pipe"][k])
  /\ val["bus"].valid = 1 => val["bus"] = Offer(E[0]) /\ E[0][1] <= Len(Lens)
  /\ InPos = IF Ran("send") THEN Past(E[0], Input) ELSE E[0]
  /\ OutPos = IF Ran("recv") THEN Past(E[Latency], Output) ELSE E[Latency]
  /\ pc # "finished" /\ EdgeAhead => E[Latency][1] = Compared + 1

Streaming ==
  /\ \E E \in [0 .. Latency -> ItemIds] : Stream(E)
  /\ "pipe" \in updatePool => next["pipe"] = Shifted
  /\ pc # "finished" => \A x \in Clocks : EdgeReady(x) => Opened

\* When the clock is about to change, what the transactions before have caused is over.
Calm ==
  pc # "finished" /\ EdgeAhead =>
    /\ (at["compare"] = "start" /\ mem["ref"] = <<>>) \/ Waits("compare", "ref", "dut.enqueued")
    /\ at["passive"] = "push" => mem["ref"] # <<>>
    /\ fifo # <<>> => ~OnItsWay("in")

AllCompared == pc = "finished" /\ deltaCount <= MaxDelta => Len(results) = Len(received)

Places == Shapes /\ Data /\ Served /\ Awaited /\ Seen /\ Offering
Inv    == /\ KernelKept /\ WaitsMatch /\ Timing
          /\ Places /\ Streaming /\ Calm /\ AllCompared

-----------------------------------------------------------------------------
(* What a slice leaves alone *)

LEMMA OthersKept ==
  ASSUME TypeOK, NEW p \in Procs, NEW T \in SUBSET Events, NEW U \in SUBSET Sigs,
         NEW W \in SUBSET Events, NEW d \in Delays \cup {NoDelay}, RunProc(p, T, U, W, d),
         \A q \in Procs \ {p} : at'[q] = at[q]
  PROVE  /\ pc = "evaluate" /\ pc' = pc /\ time' = time /\ deltaCount' = deltaCount
         /\ p \in readyPool /\ readyPool' = readyPool \ {p}
         /\ trigPool' = trigPool \cup T /\ updatePool' = updatePool \cup U
         /\ \A q \in Procs \ {p} : /\ q \in readyPool' <=> q \in readyPool
                                   /\ \A s, e : Waits(q, s, e)' <=> Waits(q, s, e)
<1>1. SliceKeeps(p, W, d)
  BY SliceEffect
<1> QED BY <1>1 DEF RunProc, SliceKeeps, Waits

\* No edge is being dealt with when the edge of the time step, if any, is over.
LEMMA LateHasNoEdge ==
  ASSUME TypeOK, Timing, pc # "finished", Late
  PROVE  ~EdgeAhead /\ ~Opened /\ \A x \in Clocks : ~EdgeReady(x)
<1>1. time \in Nat /\ deltaCount \in Nat
  BY DEF TypeOK
<1>2. \A x \in Clocks : ~EdgeReady(x)
  BY <1>1 DEF Timing, EdgeTiming, Late
<1>3. ~EdgeAhead
  BY <1>1, <1>2 DEF Timing, EdgeTiming, Late, EdgeAhead
<1>4. ~Opened
  BY <1>1, <1>2 DEF Timing, ClockedTiming, Late, Opened, Clocks
<1> QED BY <1>2, <1>3, <1>4

\* The items in the design are where they were.
LEMMA StreamKept ==
  ASSUME Streaming, UNCHANGED <<val, received, remain>>, InPos' = InPos,
         Opened' <=> Opened, Ran("send")' <=> Ran("send"), Ran("recv")' <=> Ran("recv"),
         \A x \in Clocks : EdgeReady(x)' => EdgeReady(x),
         "pipe" \in updatePool' => "pipe" \in updatePool /\ next'["pipe"] = next["pipe"],
         pc' # "finished" => pc # "finished",
         pc' # "finished" /\ EdgeAhead' => EdgeAhead /\ Compared' = Compared
  PROVE  Streaming'
<1>1. PICK E \in [0 .. Latency -> ItemIds] : Stream(E)
  BY DEF Streaming
<1>2. Input' = Input /\ Output' = Output /\ Shifted' = Shifted /\ OutPos' = OutPos
  BY DEF Input, Output, Shifted, OutPos
<1>3. Stream(E)'
  BY <1>1, <1>2 DEF Stream
<1> QED BY <1>2, <1>3 DEF Streaming

LEMMA AppendToNone ==
  ASSUME NEW x
  PROVE  Append(<<>>, x) = <<x>> /\ Len(<<x>>) = 1
OBVIOUS

\* What the counts tell of the places stays where the counts and the places do.
LEMMA CalmKept ==
  ASSUME Calm, pc' # "finished" => pc # "finished", EdgeAhead' => EdgeAhead, at'["compare"] = at["compare"],
         mem'["ref"] = mem["ref"],
         Waits("compare", "ref", "dut.enqueued") => Waits("compare", "ref", "dut.enqueued")',
         at'["passive"] = "push" => at["passive"] = "push",
         fifo' # <<>> /\ OnItsWay("in")' => fifo # <<>> /\ OnItsWay("in")
  PROVE  Calm'
BY DEF Calm

LEMMA MainPlaces ==
  ASSUME TransactionsAssumption, TypeOK, WaitsMatch, Timing, Places, Streaming, Calm,
         MainNext \/ MainBlocks \/ MainPush
  PROVE  Places' /\ Streaming' /\ Calm'
<1> USE DEF TransactionsAssumption
<1>1. PICK d \in Delays \cup {NoDelay}, T \in SUBSET {"in.enqueued"}, W \in SUBSET Events :
        RunProc("main", T, {}, W, d)
  <2>1. CASE MainNext
    BY <2>1 DEF MainNext
  <2>2. CASE MainBlocks
    BY <2>2 DEF MainBlocks
  <2>3. CASE MainPush
    BY <2>3 DEF MainPush
  <2> QED BY <2>1, <2>2, <2>3
<1>2. /\ UNCHANGED <<val, next, fifo, remain, held, received, results>>
      /\ \A q \in Procs \ {"main"} : at'[q] = at[q]
      /\ \/ UNCHANGED <<mem, sent>>
         \/ /\ mem["in"] = <<>> /\ sent < Len(Lens) /\ sent' = sent + 1
            /\ mem' = [mem EXCEPT !["in"] = <<Items(sent + 1)>>]
  BY AppendToNone DEF MainNext, MainBlocks, MainPush, WaitsMatch, Full, Pushed
<1>3. /\ pc = "evaluate" /\ pc' = pc /\ trigPool' = trigPool \cup T /\ updatePool' = updatePool
      /\ \A q \in Procs \ {"main"} : /\ q \in readyPool' <=> q \in readyPool
                                     /\ \A s, e : Waits(q, s, e)' <=> Waits(q, s, e)
  <2>1. "main" \in Procs /\ T \in SUBSET Events
    OBVIOUS
  <2>2. updatePool \cup {} = updatePool
    OBVIOUS
  <2> HIDE DEF TransactionsAssumption
  <2> QED BY <1>1, <1>2, <2>1, <2>2, OthersKept
<1>4. /\ \A q \in {"acquire", "send", "design", "recv", "passive", "compare", "clk"} :
           at'[q] = at[q] /\ (q \in readyPool' <=> q \in readyPool)
      /\ \A s, e : /\ Waits("compare", s, e)' <=> Waits("compare", s, e)
                   /\ Waits("acquire", s, e)' <=> Waits("acquire", s, e)
      /\ \A e \in {"in.updated", "ref.updated", "dut.updated", "clk.posedge", "ref.enqueued",
                   "dut.enqueued", "last_data_event"} : e \in trigPool' <=> e \in trigPool
  BY <1>2, <1>3
<1>5. Shapes /\ Data /\ Served /\ Awaited /\ Seen /\ Offering
  BY DEF Places
<1>6. Shapes'
  BY <1>2, <1>5 DEF Shapes
<1>7. /\ mem'["ref"] = mem["ref"] /\ mem'["dut"] = mem["dut"] /\ Popped' = Popped
      /\ mem'["in"] = <<>> \/ (sent' >= 1 /\ mem'["in"] = <<Items(sent')>>)
  <2>1. sent \in Nat /\ DOMAIN mem = Queues
    BY <1>5 DEF Shapes
  <2>2. CASE UNCHANGED <<mem, sent>>
    BY <1>5, <2>2 DEF Data, Popped
  <2>3. CASE /\ mem["in"] = <<>> /\ sent' = sent + 1
             /\ mem' = [mem EXCEPT !["in"] = <<Items(sent + 1)>>]
    <3>1. mem'["in"] = <<Items(sent')>> /\ mem'["ref"] = mem["ref"] /\ mem'["dut"] = mem["dut"]
      BY <2>1, <2>3 DEF Queues
    <3>2. Len(mem["in"]) = 0 /\ Len(mem'["in"]) = 1
      BY <2>3, <3>1, AppendToNone
    <3>3. sent' = sent + 1 /\ sent + 1 - 1 = sent - 0
      BY <2>1, <2>3
    <3>4. Popped' = Popped
      BY <2>1, <3>2, <3>3 DEF Popped
    <3> QED BY <2>1, <3>1, <3>3, <3>4
  <2> QED BY <1>2, <2>2, <2>3
<1>8. RefsTaken' = RefsTaken /\ Refs' = Refs /\ Outs' = Outs /\ Compared' = Compared
  BY <1>2, <1>4, <1>7 DEF RefsTaken, Refs, Outs, Compared
<1>9. \A s : Latest(s)' = Latest(s)
  BY <1>2, <1>3 DEF Latest
<1>10. Data'
  BY <1>2, <1>3, <1>4, <1>5, <1>7, <1>8, <1>9 DEF Data
<1>11. Served'
  BY <1>3, <1>4, <1>5, <1>7 DEF Served, Due
<1>12. (\A q \in Queues : OnItsWay(q)' <=> OnItsWay(q)) /\ (Busy' <=> Busy)
  BY <1>3, <1>4 DEF OnItsWay, Updated, Busy, Queues
<1>13. Awaited'
  BY <1>3, <1>4, <1>5, <1>12 DEF Awaited, Updated, Queues
<1>14. Seen'
  BY <1>2, <1>4, <1>5, <1>7, <1>8, <1>12 DEF Seen
<1>15. (\A j : RestFrom(j)' = RestFrom(j)) /\ InPos' = InPos
  BY <1>2, <1>4, <1>7 DEF RestFrom, Offer, InPos
<1>16. Offering'
  BY <1>2, <1>3, <1>4, <1>5, <1>7, <1>9, <1>15 DEF Offering
<1>17. /\ \A x \in Clocks : EdgeReady(x)' <=> EdgeReady(x)
       /\ Opened' <=> Opened
       /\ \A x \in Clocks : Ran(x)' <=> Ran(x)
       /\ EdgeAhead' <=> EdgeAhead
  BY <1>3, <1>4 DEF EdgeReady, Clocks, Opened, Ran, EdgeAhead
<1>18. Streaming'
  BY <1>2, <1>3, <1>8, <1>15, <1>17, StreamKept DEF Clocks
<1>19. Calm'
  BY <1>2, <1>3, <1>4, <1>7, <1>12, <1>17, CalmKept DEF Queues
<1> QED BY <1>6, <1>10, <1>11, <1>13, <1>14, <1>16, <1>18, <1>19 DEF Places

LEMMA LensProper ==
  ASSUME TransactionsAssumption
  PROVE  Len(Lens) \in Nat /\ \A t \in 1 .. Len(Lens) : Lens[t] \in Nat \ {0}
<1>1. Lens \in Seq(Nat \ {0})
  BY DEF TransactionsAssumption
<1> QED BY <1>1

LEMMA FunctionIsSequence ==
  ASSUME NEW S, NEW m \in Nat, NEW f \in [1 .. m -> S]
  PROVE  f \in Seq(S) /\ Len(f) = m
OBVIOUS

\* The items that are left of a transaction, from the j-th on
LEMMA RestOfBurst ==
  ASSUME TransactionsAssumption, Popped \in 1 .. Len(Lens), NEW j \in 1 .. Lens[Popped]
  PROVE  /\ RestFrom(j) \in Seq(Offers) /\ RestFrom(j) # <<>>
         /\ Head(RestFrom(j)) = Offer(<<Popped, j>>)
         /\ Tail(RestFrom(j)) = IF j = Lens[Popped] THEN <<>> ELSE RestFrom(j + 1)
         /\ Burst(Items(Popped)) = RestFrom(1)
<1>1. Lens[Popped] \in Nat \ {0} /\ Popped \in Nat
  <2>1. Len(Lens) \in Nat /\ Lens[Popped] \in Nat \ {0}
    BY LensProper
  <2> QED BY <2>1
<1> DEFINE n == Lens[Popped]
<1>2. \A k \in Nat \ {0} : Offer(<<Popped, k>>) \in Offers
  BY <1>1 DEF Offer, Offers, Bit, ItemIds
<1>3. /\ RestFrom(j) = [i \in 1 .. n - j + 1 |-> Offer(<<Popped, j + i - 1>>)]
      /\ n - j + 1 \in Nat \ {0}
  BY <1>1 DEF RestFrom
<1>4. \A i \in 1 .. n - j + 1 : j + i - 1 \in Nat \ {0}
  BY <1>1
<1>5. RestFrom(j) \in Seq(Offers) /\ Len(RestFrom(j)) = n - j + 1
  <2>1. RestFrom(j) \in [1 .. n - j + 1 -> Offers]
    BY <1>2, <1>3, <1>4
  <2> QED BY <1>3, <2>1, FunctionIsSequence, ZenonT(40)
<1>6. Head(RestFrom(j)) = Offer(<<Popped, j>>)
  <2>1. 1 \in 1 .. n - j + 1 /\ j + 1 - 1 = j
    BY <1>1
  <2>2. RestFrom(j)[1] = Offer(<<Popped, j>>)
    BY <1>3, <2>1
  <2> QED BY <1>5, <2>2, <1>3
<1>7. Tail(RestFrom(j)) = IF j = n THEN <<>> ELSE RestFrom(j + 1)
  <2>1. Len(Tail(RestFrom(j))) = n - j /\ Tail(RestFrom(j)) \in Seq(Offers)
    BY <1>1, <1>3, <1>5
  <2>2. CASE j = n
    BY <1>1, <2>1, <2>2
  <2>3. CASE j # n
    <3>1. /\ RestFrom(j + 1) = [i \in 1 .. n - j |-> Offer(<<Popped, j + i>>)]
          /\ n - j \in Nat
      BY <1>1, <2>3 DEF RestFrom
    <3>2. \A i \in 1 .. n - j : Tail(RestFrom(j))[i] = Offer(<<Popped, j + i>>)
      <4> TAKE i \in 1 .. n - j
      <4>1. Tail(RestFrom(j))[i] = RestFrom(j)[i + 1]
        BY <1>1, <1>5, <2>1
      <4>2. i + 1 \in 1 .. n - j + 1 /\ j + (i + 1) - 1 = j + i
        BY <1>1
      <4> QED BY <1>3, <4>1, <4>2
    <3>3. j + 1 \in 1 .. n /\ \A i \in 1 .. n - j : j + i \in Nat \ {0}
      BY <1>1, <2>3
    <3>4. RestFrom(j + 1) \in Seq(Offers) /\ Len(RestFrom(j + 1)) = n - j
      <4>1. RestFrom(j + 1) \in [1 .. n - j -> Offers]
        BY <1>2, <3>1, <3>3
      <4> QED BY <3>1, <4>1, FunctionIsSequence
    <3>5. \A i \in 1 .. n - j : RestFrom(j + 1)[i] = Tail(RestFrom(j))[i]
      BY <3>1, <3>2
    <3>6. Tail(RestFrom(j)) = RestFrom(j + 1)
      BY <2>1, <3>4, <3>5, SeqEqual
    <3> QED BY <2>3, <3>6
  <2> QED BY <2>2, <2>3
<1>8. Burst(Items(Popped)) = RestFrom(1)
  <2>1. Len(Items(Popped)) = n
    BY <1>1 DEF Items
  <2>2. \A i \in 1 .. n : Items(Popped)[i] = <<Popped, i>>
    BY DEF Items
  <2>3. Burst(Items(Popped)) = [i \in 1 .. n |-> Offer(<<Popped, i>>)]
    BY <1>1, <2>1, <2>2 DEF Burst, Offer
  <2>4. n - 1 + 1 = n /\ \A i \in 1 .. n : 1 + i - 1 = i
    BY <1>1
  <2> QED BY <1>1, <2>3, <2>4 DEF RestFrom
<1> QED BY <1>3, <1>5, <1>6, <1>7, <1>8

\* acquire pops when nothing of the transaction before is left, and it has been seen.
LEMMA AcquirePopPlaces ==
  ASSUME TransactionsAssumption, TypeOK, WaitsMatch, Timing, Places, Streaming, Calm, AcquirePop
  PROVE  Places' /\ Streaming' /\ Calm'
<1>1. PICK U \in SUBSET {"in"}, W \in SUBSET Events : RunProc("acquire", {}, U, W, NoDelay)
  BY DEF AcquirePop, PopBlocks, PopTakes, TransactionsAssumption, Enqueued, Updated
<1>2. /\ UNCHANGED <<val, sent, fifo, remain, held, received, results>>
      /\ at["acquire"] \in {"start", "sent"} /\ DOMAIN at = Procs
      /\ \A q \in Procs \ {"acquire"} : at'[q] = at[q]
  BY DEF AcquirePop, PopBlocks, PopTakes, WaitsMatch
<1>3. /\ pc = "evaluate" /\ pc' = pc /\ "acquire" \in readyPool /\ readyPool' = readyPool \ {"acquire"}
      /\ trigPool' = trigPool /\ updatePool' = updatePool \cup U
      /\ \A q \in Procs \ {"acquire"} : /\ q \in readyPool' <=> q \in readyPool
                                        /\ \A s, e : Waits(q, s, e)' <=> Waits(q, s, e)
  <2>1. "acquire" \in Procs /\ U \in SUBSET Sigs /\ trigPool \cup {} = trigPool
    BY DEF TransactionsAssumption, Queues
  <2> QED BY <1>1, <1>2, <2>1, OthersKept
<1>4. /\ \A q \in {"main", "send", "design", "recv", "passive", "compare", "clk"} :
           at'[q] = at[q] /\ (q \in readyPool' <=> q \in readyPool)
      /\ \A s, e : Waits("compare", s, e)' <=> Waits("compare", s, e)
      /\ "acquire" \in Procs
  BY <1>2, <1>3 DEF TransactionsAssumption
<1>5. Shapes /\ Data /\ Served /\ Awaited /\ Seen /\ Offering
  BY DEF Places
<1>6. fifo = <<>> /\ val["bus"].valid = 0 /\ Latest("bus").valid = 0
  <2>1. val["bus"].valid \in Bit
    BY <1>5 DEF Shapes, Offers
  <2> QED BY <1>2, <1>3, <1>5, <2>1 DEF Offering, Bit
<1>7. ~Busy /\ Refs = Popped
  BY <1>2, <1>5, <1>6 DEF Seen
<1>8. CASE PopBlocks("acquire", "in")
  <2>1. UNCHANGED <<next, mem, at, updatePool>>
    BY <1>8 DEF PopBlocks, RunProc
  <2>2. Shapes'
    BY <1>2, <1>5, <2>1 DEF Shapes
  <2>3. /\ RefsTaken' = RefsTaken /\ Refs' = Refs /\ Outs' = Outs /\ Compared' = Compared
        /\ Popped' = Popped /\ \A s : Latest(s)' = Latest(s)
    BY <1>2, <2>1 DEF RefsTaken, Refs, Outs, Compared, Popped, Latest
  <2>4. Data'
    BY <1>2, <1>5, <2>1, <2>3 DEF Data
  <2>5. Served'
    BY <1>2, <1>3, <1>4, <1>5, <2>1 DEF Served, Due
  <2>6. (\A q \in Queues : OnItsWay(q)' <=> OnItsWay(q)) /\ ~Busy'
    BY <1>2, <1>3, <1>4, <1>7, <2>1 DEF OnItsWay, Busy, Queues
  <2>7. Awaited'
    BY <1>3, <1>4, <1>5, <2>1, <2>6 DEF Awaited, Queues
  <2>8. Seen'
    BY <1>7, <2>3, <2>6 DEF Seen
  <2>9. Offering'
    BY <1>2, <1>6, <2>1, <2>3 DEF Offering
  <2>10. InPos' = InPos
    BY <1>2, <2>1, <2>3 DEF InPos
  <2>11. /\ \A x \in Clocks : EdgeReady(x)' <=> EdgeReady(x)
         /\ Opened' <=> Opened
         /\ \A x \in Clocks : Ran(x)' <=> Ran(x)
         /\ EdgeAhead' <=> EdgeAhead
    BY <1>3, <1>4, <2>1 DEF EdgeReady, Clocks, Opened, Ran, EdgeAhead
  <2>12. Streaming'
    BY <1>2, <1>3, <2>1, <2>3, <2>10, <2>11, StreamKept DEF Clocks
  <2>13. Calm'
    BY <1>2, <1>3, <1>4, <1>6, <2>1, <2>11, CalmKept
  <2> QED BY <2>2, <2>4, <2>5, <2>7, <2>8, <2>9, <2>12, <2>13 DEF Places
<1>9. CASE PopTakes("acquire", "in", "popped")
  <2>1. /\ mem["in"] = <<Items(sent)>> /\ sent >= 1 /\ sent \in Nat
        /\ DOMAIN mem = Queues /\ DOMAIN next = Sigs /\ DOMAIN val = Sigs
    BY <1>5, <1>9, LensProper DEF PopTakes, Data, Shapes
  <2>2. Len(mem["in"]) = 1 /\ Tail(mem["in"]) = <<>> /\ Head(mem["in"]) = Items(sent)
    BY <2>1, AppendToNone
  <2>3. /\ mem' = [mem EXCEPT !["in"] = <<>>] /\ next' = [next EXCEPT !["in"] = Items(sent)]
        /\ at' = [at EXCEPT !["acquire"] = "popped"] /\ updatePool' = updatePool \cup {"in"}
    BY <1>9, <2>2 DEF PopTakes, RunProc
  <2>4. /\ mem'["in"] = <<>> /\ mem'["ref"] = mem["ref"] /\ mem'["dut"] = mem["dut"]
        /\ next'["in"] = Items(sent) /\ \A s \in Sigs \ {"in"} : next'[s] = next[s]
        /\ at'["acquire"] = "popped" /\ at["acquire"] # "popped"
    BY <1>2, <1>4, <2>1, <2>3 DEF Queues, TransactionsAssumption
  <2>5. Popped = sent - 1 /\ Popped' = sent
    <3>1. Len(mem'["in"]) = 0
      BY <2>4
    <3> QED BY <1>2, <2>1, <2>2, <3>1 DEF Popped
  <2>6. Shapes'
    BY <1>2, <1>5, <2>3, <2>4 DEF Shapes, TransactionsAssumption, Queues
  <2>7. /\ RefsTaken' = RefsTaken /\ Refs' = Refs /\ Outs' = Outs /\ Compared' = Compared
    BY <1>2, <1>4, <2>4 DEF RefsTaken, Refs, Outs, Compared
  <2>8. Latest("in")' = Items(sent) /\ \A s \in Sigs \ {"in"} : Latest(s)' = Latest(s)
    BY <1>2, <2>3, <2>4 DEF Latest
  <2>9. {"ref", "dut", "bus"} \subseteq Sigs \ {"in"}
    BY DEF TransactionsAssumption, Queues
  <2>10. Data'
    <3>1. at'["passive"] # "push"
      BY <1>4, <1>7 DEF Busy
    <3>2. "ref" \in updatePool' <=> "ref" \in updatePool
      BY <2>3
    <3> QED BY <1>2, <1>4, <1>5, <2>4, <2>5, <2>7, <2>8, <2>9, <3>1, <3>2 DEF Data
  <2>11. Served'
    BY <1>3, <1>4, <1>5, <2>3, <2>4 DEF Served, Due
  <2>12. /\ OnItsWay("in")' /\ Busy'
         /\ OnItsWay("ref")' <=> OnItsWay("ref")
         /\ OnItsWay("dut")' <=> OnItsWay("dut")
    BY <1>3, <2>3 DEF OnItsWay, Busy, Updated
  <2>13. Awaited'
    <3>1. ~OnItsWay("in") /\ at'["passive"] # "push" /\ (at'["passive"] = "watch" => "passive" \notin readyPool')
      BY <1>4, <1>7 DEF Busy
    <3>2. \A q \in Queues : ~(q \in updatePool' /\ Updated[q] \in trigPool')
      BY <1>3, <1>5, <2>3, <3>1 DEF Awaited, OnItsWay, Queues, Updated
    <3> QED BY <1>3, <1>4, <1>5, <2>4, <2>12, <3>1, <3>2 DEF Awaited, OnItsWay, Updated
  <2>14. Seen'
    BY <1>2, <1>6, <1>7, <2>1, <2>4, <2>5, <2>7, <2>12 DEF Seen
  <2>15. Offering'
    BY <1>2, <1>6, <2>8, <2>9 DEF Offering
  <2>16. InPos' = InPos
    BY <1>2, <1>6, <2>1, <2>4, <2>5 DEF InPos
  <2>17. /\ \A x \in Clocks : EdgeReady(x)' <=> EdgeReady(x)
         /\ "pipe" \in updatePool' <=> "pipe" \in updatePool
         /\ next'["pipe"] = next["pipe"]
         /\ EdgeAhead' <=> EdgeAhead
    BY <1>3, <1>4, <2>3, <2>4 DEF EdgeReady, Clocks, EdgeAhead, TransactionsAssumption
  <2>18. (Opened' <=> Opened) /\ (Ran("send")' <=> Ran("send")) /\ (Ran("recv")' <=> Ran("recv"))
    BY <1>4, <2>17 DEF Opened, Ran, Clocks
  <2>19. Streaming'
    BY <1>2, <1>3, <2>7, <2>16, <2>17, <2>18, StreamKept
  <2>20. Calm'
    BY <1>2, <1>3, <1>4, <1>6, <2>4, <2>17, CalmKept
  <2> QED BY <2>6, <2>10, <2>11, <2>13, <2>14, <2>15, <2>19, <2>20 DEF Places
<1> QED BY <1>8, <1>9 DEF AcquirePop

LEMMA AcquireFillPlaces ==
  ASSUME TransactionsAssumption, TypeOK, WaitsMatch, Timing, Places, Streaming, Calm, AcquireFill
  PROVE  Places' /\ Streaming' /\ Calm'
<1>1. Shapes /\ Data /\ Served /\ Awaited /\ Seen /\ Offering
  BY DEF Places
<1>2. at["acquire"] = "popped" /\ val["bus"].valid = 0
  BY <1>1 DEF AcquireFill, Offering
<1>3. RunProc("acquire", {}, {"bus"}, {"last_data_event"}, NoDelay)
  BY <1>2 DEF AcquireFill
<1>4. /\ UNCHANGED <<val, mem, sent, remain, held, received, results>>
      /\ fifo' = fifo \o Burst(val["in"]) /\ next' = [next EXCEPT !["bus"] = fifo'[1]]
      /\ at'["acquire"] = "sent" /\ DOMAIN next = Sigs
      /\ \A q \in Procs \ {"acquire"} : at'[q] = at[q]
  BY <1>1, <1>2 DEF AcquireFill, WaitsMatch, TransactionsAssumption, Shapes
<1>5. /\ pc = "evaluate" /\ pc' = pc /\ "acquire" \in readyPool /\ readyPool' = readyPool \ {"acquire"}
      /\ trigPool' = trigPool /\ updatePool' = updatePool \cup {"bus"}
      /\ \A q \in Procs \ {"acquire"} : /\ q \in readyPool' <=> q \in readyPool
                                        /\ \A s, e : Waits(q, s, e)' <=> Waits(q, s, e)
  <2>1. "acquire" \in Procs /\ {"bus"} \in SUBSET Sigs /\ {"last_data_event"} \in SUBSET Events
        /\ trigPool \cup {} = trigPool
    BY DEF TransactionsAssumption
  <2> QED BY <1>3, <1>4, <2>1, OthersKept
<1>6. /\ \A q \in {"main", "send", "design", "recv", "passive", "compare", "clk"} :
           at'[q] = at[q] /\ (q \in readyPool' <=> q \in readyPool)
      /\ \A s, e : Waits("compare", s, e)' <=> Waits("compare", s, e)
      /\ "acquire" \in Procs /\ {"in", "ref", "dut", "bus", "pipe", "ready", "clk"} \subseteq Sigs
  BY <1>4, <1>5 DEF TransactionsAssumption, Queues
<1>7. Waits("acquire", "sent", "last_data_event")'
  BY <1>3, <1>4, <1>6 DEF RunProc, TypeOK, Waits
<1>8. Late
  BY <1>2, <1>5 DEF Timing, CheckTiming
<1>9. /\ ~EdgeAhead /\ ~Opened /\ \A x \in Clocks : ~EdgeReady(x)
      /\ "last_data_event" \notin trigPool
  <2>1. time \in Nat /\ deltaCount \in Nat
    BY DEF TypeOK
  <2> QED BY <1>5, <1>8, <2>1, LateHasNoEdge DEF Timing, ClockedTiming, Late
<1>10. fifo = <<>> /\ ~OnItsWay("in")
  BY <1>1, <1>2, <1>5 DEF Offering, Awaited, Waits
<1>11. Popped \in 1 .. Len(Lens)
  <2>1. PICK E \in [0 .. Latency -> ItemIds] : Stream(E)
    BY DEF Streaming
  <2>2. InPos = E[0] /\ Proper(E[0])
    BY <1>9, <2>1 DEF Stream, Ran, TransactionsAssumption
  <2>3. Popped >= 1
    BY <1>2, <1>10, <2>2 DEF InPos, Proper
  <2>4. sent \in 0 .. Len(Lens) /\ Len(Lens) \in Nat /\ Len(mem["in"]) \in Nat
    <3>1. mem["in"] = <<>> \/ mem["in"] = <<Items(sent)>>
      BY <1>1 DEF Data
    <3> QED BY <1>1, <3>1, LensProper, AppendToNone DEF Shapes
  <2> QED BY <2>3, <2>4 DEF Popped
<1>12. val["in"] = Items(Popped)
  BY <1>1, <1>10, <1>11 DEF Data, Latest, OnItsWay
<1>13. /\ fifo' = RestFrom(1) /\ RestFrom(1) \in Seq(Offers) /\ RestFrom(1) # <<>>
       /\ Head(RestFrom(1)) = Offer(<<Popped, 1>>) /\ 1 \in 1 .. Lens[Popped]
  <2>1. 1 \in 1 .. Lens[Popped]
    BY <1>11, LensProper
  <2>2. /\ Burst(Items(Popped)) = RestFrom(1) /\ RestFrom(1) \in Seq(Offers) /\ RestFrom(1) # <<>>
        /\ Head(RestFrom(1)) = Offer(<<Popped, 1>>)
    BY <1>11, <2>1, RestOfBurst
  <2>3. <<>> \o RestFrom(1) = RestFrom(1)
    BY <2>2, ConcatEmptySeq
  <2> QED BY <1>4, <1>10, <1>12, <2>1, <2>2, <2>3
<1>14. /\ next'["bus"] = Offer(<<Popped, 1>>) /\ \A s \in Sigs \ {"bus"} : next'[s] = next[s]
       /\ fifo'[1] = Head(fifo') /\ next'["bus"] = Head(fifo')
  <2>1. fifo'[1] = Head(fifo')
    BY <1>13
  <2> QED BY <1>4, <1>6, <1>13, <2>1
<1>15. Shapes'
  <2>1. Offer(<<Popped, 1>>) \in Offers
    BY <1>11, LensProper DEF Offer, Offers, Bit, ItemIds
  <2>2. DOMAIN next' = Sigs
    BY <1>4
  <2> QED BY <1>1, <1>4, <1>6, <1>13, <1>14, <2>1, <2>2 DEF Shapes
<1>16. /\ RefsTaken' = RefsTaken /\ Refs' = Refs /\ Outs' = Outs /\ Compared' = Compared
       /\ Popped' = Popped /\ \A s \in Sigs \ {"bus"} : Latest(s)' = Latest(s)
       /\ Latest("bus")' = Head(fifo')
  BY <1>4, <1>5, <1>6, <1>14 DEF RefsTaken, Refs, Outs, Compared, Popped, Latest
<1>17. Data'
  BY <1>1, <1>4, <1>5, <1>6, <1>16 DEF Data
<1>18. Served'
  BY <1>1, <1>4, <1>5, <1>6 DEF Served, Due
<1>19. (\A q \in Queues : OnItsWay(q)' <=> OnItsWay(q)) /\ (Busy' <=> Busy)
  BY <1>5, <1>6 DEF OnItsWay, Busy, Queues
<1>20. Awaited'
  BY <1>1, <1>5, <1>6, <1>10, <1>19 DEF Awaited, Queues
<1>21. Seen'
  BY <1>1, <1>13, <1>16, <1>19 DEF Seen
<1>22. Offering'
  <2>1. RestFrom(1)' = RestFrom(1) /\ Lens[Popped'] = Lens[Popped]
    BY <1>16 DEF RestFrom, Offer
  <2> QED BY <1>4, <1>5, <1>7, <1>9, <1>11, <1>13, <1>16, <2>1 DEF Offering
<1>23. InPos' = InPos
  BY <1>2, <1>10, <1>13 DEF InPos, Offer
<1>24. ~EdgeAhead' /\ ~Opened' /\ \A x \in Clocks : ~EdgeReady(x)'
  BY <1>5, <1>6, <1>9 DEF EdgeAhead, Opened, EdgeReady, Clocks
<1>25. Streaming'
  BY <1>4, <1>9, <1>14, <1>23, <1>24, <1>6, <1>5, StreamKept DEF Ran, Opened
<1>26. Calm'
  BY <1>24 DEF Calm
<1> QED BY <1>15, <1>17, <1>18, <1>20, <1>21, <1>22, <1>25, <1>26 DEF Places

\* A slice that leaves the queues and the bus alone
LEMMA BesidePlaces ==
  ASSUME TransactionsAssumption, Places, Shapes',
         UNCHANGED <<pc, trigPool, val, mem, sent, fifo, remain, held, received, results>>,
         \A s \in Queues \cup {"bus"} : next'[s] = next[s] /\ (s \in updatePool' <=> s \in updatePool),
         \A q \in {"acquire", "passive", "compare"} : /\ at'[q] = at[q]
                                                      /\ q \in readyPool' <=> q \in readyPool
                                                      /\ \A s, e : Waits(q, s, e)' <=> Waits(q, s, e)
  PROVE  /\ Places' /\ InPos' = InPos /\ Compared' = Compared
         /\ OnItsWay("in")' <=> OnItsWay("in")
<1>1. Shapes /\ Data /\ Served /\ Awaited /\ Seen /\ Offering
  BY DEF Places
<1>2. /\ RefsTaken' = RefsTaken /\ Refs' = Refs /\ Outs' = Outs /\ Compared' = Compared
      /\ Popped' = Popped /\ \A s \in Queues \cup {"bus"} : Latest(s)' = Latest(s)
  BY DEF RefsTaken, Refs, Outs, Compared, Popped, Latest
<1>3. Data'
  BY <1>1, <1>2 DEF Data, Queues
<1>4. Served'
  BY <1>1 DEF Served, Due, Queues
<1>5. (\A q \in Queues : OnItsWay(q)' <=> OnItsWay(q)) /\ (Busy' <=> Busy)
  BY DEF OnItsWay, Busy, Queues
<1>6. Awaited'
  BY <1>1, <1>5 DEF Awaited, Queues
<1>7. Seen'
  BY <1>1, <1>2, <1>5 DEF Seen
<1>8. (\A j : RestFrom(j)' = RestFrom(j)) /\ InPos' = InPos
  BY <1>2 DEF RestFrom, Offer, InPos
<1>9. Offering'
  BY <1>1, <1>2, <1>8 DEF Offering
<1> QED BY <1>2, <1>3, <1>4, <1>5, <1>6, <1>7, <1>8, <1>9 DEF Places, Queues

\* Nothing is under way yet when a process has its first slice.
LEMMA StartIsLate ==
  ASSUME TypeOK, WaitsMatch, NEW p \in Procs, Unstarted(p)
  PROVE  Late
BY DEF WaitsMatch, Begun, Late, TypeOK

LEMMA SensitivePlaces ==
  ASSUME TransactionsAssumption, TypeOK, WaitsMatch, Timing, Places, Streaming, Calm,
         NEW p \in Clocks, Sensitive(p)
  PROVE  Places' /\ Streaming' /\ Calm'
<1>1. /\ RunProc(p, {}, {}, {"clk.posedge"}, NoDelay) /\ at[p] = "start"
      /\ UNCHANGED <<val, next, mem, sent, fifo, remain, held, received, results>>
      /\ \A q \in Procs \ {p} : at'[q] = at[q]
  BY DEF Sensitive, WaitsMatch
<1>2. p \in Procs /\ {"clk.posedge"} \in SUBSET Events /\ trigPool \cup {} = trigPool
      /\ updatePool \cup {} = updatePool
  BY DEF TransactionsAssumption, Clocks
<1>3. /\ pc = "evaluate" /\ pc' = pc /\ readyPool' = readyPool \ {p}
      /\ trigPool' = trigPool /\ updatePool' = updatePool
      /\ \A q \in Procs \ {p} : /\ q \in readyPool' <=> q \in readyPool
                                /\ \A s, e : Waits(q, s, e)' <=> Waits(q, s, e)
  BY <1>1, <1>2, OthersKept
<1>4. Late
  BY <1>1, <1>2, StartIsLate DEF WaitsMatch, ClockedWaits, Waits
<1>5. ~EdgeAhead /\ ~Opened /\ \A x \in Clocks : ~EdgeReady(x)
  BY <1>3, <1>4, LateHasNoEdge
<1>6. \A q \in {"acquire", "passive", "compare", "clk"} : q \in Procs \ {p}
  BY DEF Clocks, TransactionsAssumption
<1>7. Shapes'
  BY <1>1 DEF Places, Shapes
<1>8. Places' /\ InPos' = InPos /\ Compared' = Compared
  BY <1>1, <1>3, <1>6, <1>7, BesidePlaces
<1>9. ~EdgeAhead' /\ ~Opened' /\ \A x \in Clocks : ~EdgeReady(x)'
  <2>1. \A x \in Clocks : ~EdgeReady(x)'
    <3> SUFFICES ASSUME NEW x \in Clocks, x # p PROVE ~EdgeReady(x)'
      BY <1>3 DEF EdgeReady
    <3>1. x \in Procs \ {p}
      BY DEF Clocks, TransactionsAssumption
    <3> QED BY <1>1, <1>3, <1>5, <3>1 DEF EdgeReady
  <2> QED BY <1>1, <1>3, <1>5, <1>6, <2>1 DEF EdgeAhead, Opened, Clocks
<1>10. Streaming'
  BY <1>1, <1>3, <1>5, <1>8, <1>9, StreamKept DEF Ran
<1>11. Calm'
  BY <1>9 DEF Calm
<1> QED BY <1>8, <1>10, <1>11

LEMMA ClkPlaces ==
  ASSUME TransactionsAssumption, TypeOK, WaitsMatch, Timing, Places, Streaming, Calm, ClkToggle
  PROVE  Places' /\ Streaming' /\ Calm'
<1>1. PICK U \in SUBSET {"clk"} :
        RunProc("clk", {}, U, {}, HalfPeriod) /\ (U # {} => at["clk"] = "run")
  BY DEF ClkToggle, WaitsMatch, ClkWaits, Unstarted
<1>2. /\ UNCHANGED <<val, mem, sent, fifo, remain, held, received, results>>
      /\ at' = [at EXCEPT !["clk"] = "run"]
      /\ \A q \in Procs \ {"clk"} : at'[q] = at[q]
      /\ DOMAIN next' = DOMAIN next
      /\ \A s \in DOMAIN next \ {"clk"} : next'[s] = next[s]
      /\ "clk" \in DOMAIN next => next'["clk"] \in {next["clk"], 1 - val["clk"]}
  BY DEF ClkToggle, WaitsMatch
<1>3. /\ "clk" \in Procs /\ U \in SUBSET Sigs /\ HalfPeriod \in Delays
      /\ trigPool \cup {} = trigPool
      /\ Queues \cup {"bus", "pipe", "ready", "clk"} \subseteq Sigs
  BY DEF TransactionsAssumption
<1>4. /\ pc = "evaluate" /\ pc' = pc /\ readyPool' = readyPool \ {"clk"} /\ "clk" \in readyPool
      /\ trigPool' = trigPool /\ updatePool' = updatePool \cup U
      /\ \A q \in Procs \ {"clk"} : /\ q \in readyPool' <=> q \in readyPool
                                    /\ \A s, e : Waits(q, s, e)' <=> Waits(q, s, e)
  BY <1>1, <1>2, <1>3, OthersKept
<1>5. \A q \in {"acquire", "passive", "compare"} \cup Clocks : q \in Procs \ {"clk"}
  BY DEF Clocks, TransactionsAssumption
<1>6. Shapes'
  <2>1. Shapes
    BY DEF Places
  <2>2. next'["clk"] \in Bit
    BY <1>2, <1>3, <2>1 DEF Shapes, Bit
  <2> QED BY <1>2, <1>3, <2>1, <2>2 DEF Shapes
<1>7. \A s \in Sigs \ {"clk"} : next'[s] = next[s] /\ (s \in updatePool' <=> s \in updatePool)
  BY <1>2, <1>4 DEF Places, Shapes
<1>8. Places' /\ InPos' = InPos /\ Compared' = Compared /\ (OnItsWay("in")' <=> OnItsWay("in"))
  BY <1>2, <1>3, <1>4, <1>5, <1>6, <1>7, BesidePlaces DEF Queues
<1>9. \A x \in Clocks : (EdgeReady(x)' <=> EdgeReady(x)) /\ (x \in readyPool' <=> x \in readyPool)
  BY <1>2, <1>4, <1>5 DEF EdgeReady
<1>10. (Opened' <=> Opened) /\ \A x \in Clocks : Ran(x)' <=> Ran(x)
  BY <1>3, <1>7, <1>9 DEF Opened, Ran, Clocks
<1>11. EdgeAhead' => EdgeAhead
  BY <1>1, <1>4, <1>9 DEF EdgeAhead
<1>12. Streaming'
  BY <1>2, <1>3, <1>4, <1>7, <1>8, <1>9, <1>10, <1>11, StreamKept DEF Clocks
<1>13. Calm'
  BY <1>2, <1>4, <1>5, <1>8, <1>11, CalmKept
<1> QED BY <1>8, <1>12, <1>13

LEMMA PassiveWaitPlaces ==
  ASSUME TransactionsAssumption, TypeOK, WaitsMatch, Timing, Places, Streaming, Calm, PassiveWait
  PROVE  Places' /\ Streaming' /\ Calm'
<1>1. /\ RunProc("passive", {}, {}, {"in.updated"}, NoDelay) /\ at["passive"] = "start"
      /\ UNCHANGED <<val, next, mem, sent, fifo, remain, held, received, results>>
      /\ \A q \in Procs \ {"passive"} : at'[q] = at[q]
      /\ "passive" \in Procs /\ at'["passive"] = "watch"
  BY DEF PassiveWait, WaitsMatch, TransactionsAssumption
<1>2. {"in.updated"} \in SUBSET Events /\ trigPool \cup {} = trigPool /\ updatePool \cup {} = updatePool
  BY DEF TransactionsAssumption
<1>3. /\ pc = "evaluate" /\ pc' = pc /\ readyPool' = readyPool \ {"passive"}
      /\ trigPool' = trigPool /\ updatePool' = updatePool
      /\ \A q \in Procs \ {"passive"} : /\ q \in readyPool' <=> q \in readyPool
                                        /\ \A s, e : Waits(q, s, e)' <=> Waits(q, s, e)
  BY <1>1, <1>2, OthersKept
<1>4. Late
  BY <1>1, StartIsLate DEF WaitsMatch, PassiveWaits, Waits
<1>5. ~EdgeAhead /\ ~Opened /\ \A x \in Clocks : ~EdgeReady(x)
  BY <1>3, <1>4, LateHasNoEdge
<1>6. \A q \in {"acquire", "compare", "clk", "send", "design", "recv"} : q \in Procs \ {"passive"}
  BY DEF TransactionsAssumption
<1>7. Shapes /\ Data /\ Served /\ Awaited /\ Seen /\ Offering
  BY DEF Places
<1>8. Shapes'
  BY <1>1, <1>7 DEF Shapes
<1>9. /\ RefsTaken' = RefsTaken /\ Refs' = Refs /\ Outs' = Outs /\ Compared' = Compared
      /\ Popped' = Popped /\ \A s : Latest(s)' = Latest(s)
  BY <1>1, <1>3, <1>6 DEF RefsTaken, Refs, Outs, Compared, Popped, Latest
<1>10. Data'
  BY <1>1, <1>3, <1>6, <1>7, <1>9 DEF Data
<1>11. Served'
  BY <1>1, <1>3, <1>6, <1>7 DEF Served, Due
<1>12. (\A q \in Queues : OnItsWay(q)' <=> OnItsWay(q)) /\ (Busy' <=> Busy)
  BY <1>1, <1>3 DEF OnItsWay, Busy, Queues
<1>13. Awaited'
  BY <1>1, <1>3, <1>6, <1>7, <1>12 DEF Awaited, Queues
<1>14. Seen'
  BY <1>1, <1>6, <1>7, <1>9, <1>12 DEF Seen
<1>15. (\A j : RestFrom(j)' = RestFrom(j)) /\ InPos' = InPos
  BY <1>1, <1>6, <1>9 DEF RestFrom, Offer, InPos
<1>16. Offering'
  BY <1>1, <1>3, <1>6, <1>7, <1>9, <1>15 DEF Offering
<1>17. ~EdgeAhead' /\ ~Opened' /\ \A x \in Clocks : ~EdgeReady(x)'
  BY <1>1, <1>3, <1>5, <1>6 DEF EdgeAhead, Opened, EdgeReady, Clocks
<1>18. Streaming'
  BY <1>1, <1>3, <1>5, <1>9, <1>15, <1>17, StreamKept DEF Ran
<1>19. Calm'
  BY <1>17 DEF Calm
<1> QED BY <1>8, <1>10, <1>11, <1>13, <1>14, <1>16, <1>18, <1>19 DEF Places

\* The counts are numbers, and there is room for one transaction in each queue.
LEMMA Counts ==
  ASSUME TransactionsAssumption, Shapes, Data
  PROVE  /\ Popped \in 0 .. Len(Lens) /\ Compared \in Nat /\ RefsTaken \in Nat /\ Refs \in Nat
         /\ \A q \in Queues : Len(mem[q]) = IF mem[q] = <<>> THEN 0 ELSE 1
         /\ Refs = RefsTaken + (IF mem["ref"] = <<>> THEN 0 ELSE 1)
         /\ Outs = Compared + (IF at["compare"] = "dut" THEN 1 ELSE 0)
                            + (IF mem["dut"] = <<>> THEN 0 ELSE 1)
<1>1. \A q \in Queues : Len(mem[q]) = IF mem[q] = <<>> THEN 0 ELSE 1
  <2>1. \A q \in Queues : mem[q] = <<>> \/ \E x : mem[q] = <<x>>
    BY DEF Data, Queues
  <2> TAKE q \in Queues
  <2>2. CASE mem[q] = <<>>
    BY <2>2
  <2>3. CASE mem[q] # <<>>
    <3>1. PICK x : mem[q] = <<x>>
      BY <2>1, <2>3
    <3> QED BY <2>3, <3>1, AppendToNone
  <2> QED BY <2>2, <2>3
<1>2. Compared \in Nat
  BY DEF Shapes, Compared
<1>3. Len(mem["in"]) = (IF mem["in"] = <<>> THEN 0 ELSE 1) /\ Len(mem["ref"]) = (IF mem["ref"] = <<>> THEN 0 ELSE 1)
      /\ Len(mem["dut"]) = IF mem["dut"] = <<>> THEN 0 ELSE 1
  BY <1>1 DEF Queues
<1>4. RefsTaken \in Nat
  BY <1>2 DEF RefsTaken
<1>5. Len(Lens) \in Nat /\ sent \in 0 .. Len(Lens) /\ (mem["in"] # <<>> => sent >= 1)
  BY LensProper DEF Shapes, Data
<1>6. Popped \in 0 .. Len(Lens)
  BY <1>3, <1>5 DEF Popped
<1>7. Refs = RefsTaken + (IF mem["ref"] = <<>> THEN 0 ELSE 1) /\ Refs \in Nat
  BY <1>3, <1>4 DEF Refs
<1>8. Outs = Compared + (IF at["compare"] = "dut" THEN 1 ELSE 0) + (IF mem["dut"] = <<>> THEN 0 ELSE 1)
  BY <1>3 DEF Outs
<1> QED BY <1>1, <1>2, <1>4, <1>6, <1>7, <1>8

\* The passive architecture writes the transaction last popped, or waits with it.
LEMMA PassivePlaces ==
  ASSUME TransactionsAssumption, TypeOK, WaitsMatch, Timing, Places, Streaming, Calm,
         Passive \/ PushAgain("passive", "ref", "in.updated", "watch")
  PROVE  Places' /\ Streaming' /\ Calm'
<1>1. Shapes /\ Data /\ Served /\ Awaited /\ Seen /\ Offering
  BY DEF Places
<1>2. "passive" \in Procs /\ DOMAIN at = Procs /\ DOMAIN held = Procs /\ DOMAIN mem = Queues
      /\ trigPool \cup {} = trigPool /\ updatePool \cup {} = updatePool
      /\ {{}, {"ref.enqueued"}, {"in.updated"}, {"ref.updated"}} \subseteq SUBSET Events
  BY <1>1 DEF WaitsMatch, TransactionsAssumption, Shapes
<1>3. PICK T \in {{}, {"ref.enqueued"}}, W \in {{"in.updated"}, {"ref.updated"}} :
        RunProc("passive", T, {}, W, NoDelay)
  <2>1. CASE Passive
    BY <2>1 DEF Passive
  <2>2. CASE PushAgain("passive", "ref", "in.updated", "watch")
    BY <2>2 DEF PushAgain, Updated, Enqueued
  <2> QED BY <2>1, <2>2
<1>4. /\ UNCHANGED <<val, next, sent, fifo, remain, received, results>>
      /\ \A q \in Procs \ {"passive"} : at'[q] = at[q]
      /\ at["passive"] \in {"watch", "push"}
  BY DEF Passive, PushAgain, WaitsMatch
<1>5. /\ pc = "evaluate" /\ pc' = pc /\ "passive" \in readyPool /\ readyPool' = readyPool \ {"passive"}
      /\ trigPool' = trigPool \cup T /\ updatePool' = updatePool
      /\ \A q \in Procs \ {"passive"} : /\ q \in readyPool' <=> q \in readyPool
                                        /\ \A s, e : Waits(q, s, e)' <=> Waits(q, s, e)
  <2>1. T \in SUBSET Events /\ W \in SUBSET Events
    BY <1>2
  <2> QED BY <1>2, <1>3, <1>4, <2>1, OthersKept
<1>6. \A q \in {"acquire", "compare", "clk", "send", "design", "recv"} : q \in Procs \ {"passive"}
  BY DEF TransactionsAssumption
<1>7. Late
  BY <1>5 DEF Timing, CheckTiming
<1>8. ~EdgeAhead /\ ~Opened /\ \A x \in Clocks : ~EdgeReady(x)
  BY <1>5, <1>7, LateHasNoEdge
<1>9. Busy /\ ~OnItsWay("in")
  BY <1>1, <1>4, <1>5 DEF Busy, Awaited
<1>10. /\ RefsTaken \in Nat /\ Popped \in Nat
       /\ RefsTaken + (IF mem["ref"] = <<>> THEN 0 ELSE 1) = Popped - 1
  <2>1. RefsTaken \in Nat /\ Popped \in 0 .. Len(Lens) /\ Len(Lens) \in Nat
        /\ Refs = RefsTaken + (IF mem["ref"] = <<>> THEN 0 ELSE 1)
    BY <1>1, Counts, LensProper
  <2> QED BY <1>1, <1>9, <2>1 DEF Seen
<1>11. Popped >= 1
  BY <1>10
<1>12. val["in"] = Items(Popped)
  BY <1>1, <1>9, <1>11 DEF Data, Latest, OnItsWay
<1>13. \/ /\ mem["ref"] # <<>> /\ mem' = mem /\ trigPool' = trigPool
          /\ at'["passive"] = "push" /\ held'["passive"] = Items(Popped)
       \/ /\ mem["ref"] = <<>> /\ mem' = [mem EXCEPT !["ref"] = <<Items(Popped)>>]
          /\ trigPool' = trigPool \cup {"ref.enqueued"}
          /\ at'["passive"] = "watch"
  <2>1. CASE Passive
    BY <1>2, <1>12, <2>1, AppendToNone DEF Passive, Full, Pushed, RunProc
  <2>2. CASE PushAgain("passive", "ref", "in.updated", "watch")
    <3>1. at["passive"] = "push" /\ held["passive"] = Items(Popped)
      BY <1>1, <2>2 DEF PushAgain, Data
    <3> QED BY <1>2, <2>2, <3>1, AppendToNone DEF PushAgain, Full, Pushed, RunProc, Enqueued
  <2> QED BY <2>1, <2>2
<1>14. DOMAIN held' = Procs
  BY <1>1 DEF Passive, PushAgain, Shapes
<1>15. /\ mem'["in"] = mem["in"] /\ mem'["dut"] = mem["dut"] /\ DOMAIN mem' = Queues
       /\ mem["ref"] # <<>> => mem'["ref"] = mem["ref"]
       /\ mem["ref"] = <<>> => mem'["ref"] = <<Items(Popped)>>
  BY <1>2, <1>13 DEF Queues
<1>16. /\ RefsTaken' = RefsTaken /\ Outs' = Outs /\ Compared' = Compared
       /\ Popped' = Popped /\ \A s : Latest(s)' = Latest(s)
  BY <1>4, <1>5, <1>6, <1>15 DEF RefsTaken, Outs, Compared, Popped, Latest
<1>17. Shapes'
  BY <1>1, <1>4, <1>14, <1>15 DEF Shapes
<1>18. Data'
  <2>1. mem'["ref"] = <<>> \/ mem'["ref"] = <<Items(RefsTaken' + 1)>>
    <3>1. mem["ref"] = <<>> => RefsTaken + 1 = Popped
      BY <1>10, <1>11
    <3> QED BY <1>1, <1>15, <1>16, <3>1 DEF Data
  <2>2. at'["passive"] = "push" => held'["passive"] = Items(Popped')
    BY <1>13, <1>16
  <2> QED BY <1>1, <1>4, <1>5, <1>6, <1>15, <1>16, <2>1, <2>2 DEF Data
<1>19. Served'
  BY <1>1, <1>4, <1>5, <1>6, <1>13, <1>15 DEF Served, Due
<1>20. \A q \in Queues : OnItsWay(q)' <=> OnItsWay(q)
  BY <1>5, <1>13 DEF OnItsWay, Queues, Updated
<1>21. Awaited'
  BY <1>1, <1>5, <1>6, <1>9, <1>13, <1>20 DEF Awaited, OnItsWay, Queues, Updated
<1>22. Busy' <=> mem["ref"] # <<>>
  BY <1>5, <1>9, <1>13, <1>20 DEF Busy, Queues
<1>23. Seen'
  <2>1. Refs' = RefsTaken' + Len(mem'["ref"])
    BY DEF Refs
  <2>2. Refs' = IF Busy' THEN Popped' - 1 ELSE Popped'
    <3>1. CASE mem["ref"] = <<>>
      <4>1. Len(mem'["ref"]) = 1
        BY <1>15, <3>1, AppendToNone
      <4> QED BY <1>10, <1>16, <1>22, <2>1, <3>1, <4>1
    <3>2. CASE mem["ref"] # <<>>
      <4>1. Refs' = Refs
        BY <1>15, <1>16, <2>1, <3>2 DEF Refs
      <4> QED BY <1>1, <1>9, <1>16, <1>22, <3>2, <4>1 DEF Seen
    <3> QED BY <3>1, <3>2
  <2>3. fifo' = <<>> /\ at'["acquire"] # "popped" => ~Busy'
    BY <1>1, <1>4, <1>6, <1>9 DEF Seen
  <2> QED BY <2>2, <2>3 DEF Seen
<1>24. (\A j : RestFrom(j)' = RestFrom(j)) /\ InPos' = InPos
  BY <1>4, <1>6, <1>16 DEF RestFrom, Offer, InPos
<1>25. Offering'
  <2>1. "last_data_event" \in trigPool' <=> "last_data_event" \in trigPool
    BY <1>13
  <2> QED BY <1>1, <1>4, <1>5, <1>6, <1>16, <1>24, <2>1 DEF Offering
<1>26. ~EdgeAhead' /\ ~Opened' /\ \A x \in Clocks : ~EdgeReady(x)'
  BY <1>4, <1>5, <1>6, <1>8, <1>13 DEF EdgeAhead, Opened, EdgeReady, Clocks
<1>27. Streaming'
  BY <1>4, <1>5, <1>8, <1>16, <1>24, <1>26, StreamKept DEF Ran
<1>28. Calm'
  BY <1>26 DEF Calm
<1> QED BY <1>17, <1>18, <1>19, <1>21, <1>23, <1>25, <1>27, <1>28 DEF Places

\* A slice of the scoreboard has nothing to do with the items on the bus and in the design.
LEMMA CompareBeside ==
  ASSUME TransactionsAssumption, TypeOK, WaitsMatch, Timing, Places, Streaming,
         NEW U \in SUBSET {"ref", "dut"}, NEW e \in Events,
         RunProc("compare", {}, U, {e}, NoDelay),
         UNCHANGED <<val, sent, fifo, remain, held, received>>,
         \A q \in Procs \ {"compare"} : at'[q] = at[q],
         mem'["in"] = mem["in"], DOMAIN next' = DOMAIN next,
         \A s \in Sigs \ {"ref", "dut"} : next'[s] = next[s]
  PROVE  /\ pc = "evaluate" /\ "compare" \in readyPool /\ readyPool' = readyPool \ {"compare"}
         /\ trigPool' = trigPool /\ updatePool' = updatePool \cup U
         /\ at'["acquire"] = at["acquire"] /\ ("acquire" \in readyPool' <=> "acquire" \in readyPool)
         /\ at'["passive"] = at["passive"] /\ ("passive" \in readyPool' <=> "passive" \in readyPool)
         /\ ~OnItsWay("ref") /\ ~OnItsWay("dut")
         /\ Popped' = Popped /\ Latest("in")' = Latest("in")
         /\ OnItsWay("in")' <=> OnItsWay("in")
         /\ Offering' /\ Streaming' /\ Calm'
         /\ \A s, f : Waits("compare", s, f)' <=> s = at'["compare"] /\ f = e
<1>1. /\ "compare" \in Procs /\ U \in SUBSET Sigs /\ trigPool \cup {} = trigPool
      /\ \A q \in {"acquire", "passive", "clk", "send", "design", "recv"} : q \in Procs \ {"compare"}
      /\ \A s \in {"in", "bus", "pipe", "clk", "ready"} : s \in Sigs \ {"ref", "dut"}
  BY DEF TransactionsAssumption, Queues
<1>2. /\ pc = "evaluate" /\ pc' = pc /\ "compare" \in readyPool /\ readyPool' = readyPool \ {"compare"}
      /\ trigPool' = trigPool /\ updatePool' = updatePool \cup U
      /\ \A q \in Procs \ {"compare"} : /\ q \in readyPool' <=> q \in readyPool
                                        /\ \A s, f : Waits(q, s, f)' <=> Waits(q, s, f)
  BY <1>1, OthersKept, SMTT(20), ZenonT(30)
<1>3. Late
  BY <1>2 DEF Timing, CheckTiming
<1>4. ~EdgeAhead /\ ~Opened /\ \A x \in Clocks : ~EdgeReady(x)
  BY <1>2, <1>3, LateHasNoEdge
<1>5. Shapes /\ Data /\ Served /\ Awaited /\ Seen /\ Offering
  BY DEF Places
<1>6. ~OnItsWay("ref") /\ ~OnItsWay("dut")
  BY <1>2, <1>5 DEF Awaited
<1>7. \A s \in {"in", "bus", "pipe", "clk", "ready"} : s \in updatePool' <=> s \in updatePool
  BY <1>2
<1>8. Popped' = Popped /\ Latest("in")' = Latest("in") /\ Latest("bus")' = Latest("bus")
  BY <1>1, <1>7 DEF Popped, Latest
<1>9. (\A j : RestFrom(j)' = RestFrom(j)) /\ InPos' = InPos
  BY <1>1, <1>8 DEF RestFrom, Offer, InPos
<1>10. Offering'
  BY <1>1, <1>2, <1>5, <1>8, <1>9 DEF Offering
<1>11. ~EdgeAhead' /\ ~Opened' /\ \A x \in Clocks : ~EdgeReady(x)'
  BY <1>1, <1>2, <1>4, <1>7 DEF EdgeAhead, Opened, EdgeReady, Clocks
<1>12. Streaming'
  BY <1>1, <1>2, <1>4, <1>7, <1>9, <1>11, StreamKept DEF Ran
<1>13. Calm'
  BY <1>11 DEF Calm
<1>14. \A s, f : Waits("compare", s, f)' <=> s = at'["compare"] /\ f = e
  BY <1>1 DEF Waits, RunProc, TypeOK
<1>15. OnItsWay("in")' <=> OnItsWay("in")
  BY <1>2 DEF OnItsWay
<1> QED BY <1>1, <1>2, <1>6, <1>8, <1>10, <1>12, <1>13, <1>14, <1>15

LEMMA CompareRefPlaces ==
  ASSUME TransactionsAssumption, TypeOK, WaitsMatch, Timing, Places, Streaming, Calm, CompareRef
  PROVE  Places' /\ Streaming' /\ Calm'
<1>1. Shapes /\ Data /\ Served /\ Awaited /\ Seen /\ Offering
  BY DEF Places
<1>2. /\ at["compare"] = "start" /\ "compare" \in Procs /\ DOMAIN at = Procs
      /\ UNCHANGED <<val, sent, fifo, remain, held, received, results>>
      /\ \A q \in Procs \ {"compare"} : at'[q] = at[q]
      /\ DOMAIN mem = Queues /\ DOMAIN next = Sigs /\ "ref.enqueued" \in Events
      /\ "ref.updated" \in Events /\ "ref" \in Sigs
  BY <1>1 DEF CompareRef, PopBlocks, PopTakes, WaitsMatch, Shapes, TransactionsAssumption, Queues
<1>3. /\ Compared' = Compared /\ RefsTaken = Compared /\ Compared \in Nat
      /\ Refs = RefsTaken + (IF mem["ref"] = <<>> THEN 0 ELSE 1)
  BY <1>1, <1>2, Counts DEF RefsTaken, Compared
<1>4. CASE PopBlocks("compare", "ref")
  <2>1. /\ mem["ref"] = <<>> /\ UNCHANGED <<next, mem, at>>
        /\ RunProc("compare", {}, {}, {"ref.enqueued"}, NoDelay)
    BY <1>4 DEF PopBlocks, Enqueued
  <2>2. /\ readyPool' = readyPool \ {"compare"} /\ "compare" \in readyPool
        /\ trigPool' = trigPool /\ updatePool' = updatePool
        /\ at'["acquire"] = at["acquire"] /\ ("acquire" \in readyPool' <=> "acquire" \in readyPool)
        /\ at'["passive"] = at["passive"] /\ ("passive" \in readyPool' <=> "passive" \in readyPool)
        /\ ~OnItsWay("ref") /\ ~OnItsWay("dut") /\ Popped' = Popped
        /\ OnItsWay("in")' <=> OnItsWay("in")
        /\ Offering' /\ Streaming' /\ Calm'
        /\ \A s, f : Waits("compare", s, f)' <=> s = at'["compare"] /\ f = "ref.enqueued"
    <3>1. {} \in SUBSET {"ref", "dut"} /\ updatePool \cup {} = updatePool
      OBVIOUS
    <3> QED BY <1>2, <2>1, <3>1, CompareBeside
  <2>3. Shapes'
    BY <1>1, <1>2, <2>1 DEF Shapes
  <2>4. RefsTaken' = RefsTaken /\ Refs' = Refs /\ Outs' = Outs /\ \A s : Latest(s)' = Latest(s)
    BY <1>2, <2>1, <2>2 DEF RefsTaken, Refs, Outs, Compared, Latest
  <2>5. Data'
    BY <1>1, <1>2, <1>3, <2>1, <2>2, <2>4 DEF Data
  <2>6. Served'
    BY <1>1, <1>2, <2>1, <2>2 DEF Served, Due
  <2>7. Awaited'
    BY <1>1, <2>1, <2>2 DEF Awaited, OnItsWay, Queues
  <2>8. Seen'
    <3>1. Busy' <=> Busy
      BY <2>2 DEF Busy
    <3> QED BY <1>1, <1>2, <2>1, <2>2, <2>4, <3>1 DEF Seen
  <2> QED BY <2>2, <2>3, <2>5, <2>6, <2>7, <2>8 DEF Places
<1>5. CASE PopTakes("compare", "ref", "ref")
  <2>1. mem["ref"] = <<Items(Compared + 1)>>
    BY <1>1, <1>3, <1>5 DEF PopTakes, Data
  <2>2. /\ mem' = [mem EXCEPT !["ref"] = <<>>] /\ next' = [next EXCEPT !["ref"] = Items(Compared + 1)]
        /\ at' = [at EXCEPT !["compare"] = "ref"]
        /\ RunProc("compare", {}, {"ref"}, {"ref.updated"}, NoDelay)
    <3>1. Tail(mem["ref"]) = <<>> /\ Head(mem["ref"]) = Items(Compared + 1)
      BY <2>1
    <3> QED BY <1>5, <3>1 DEF PopTakes, Updated
  <2>3. /\ mem'["ref"] = <<>> /\ mem'["in"] = mem["in"] /\ mem'["dut"] = mem["dut"] /\ DOMAIN mem' = Queues
        /\ next'["ref"] = Items(Compared + 1) /\ \A s \in Sigs \ {"ref"} : next'[s] = next[s]
        /\ DOMAIN next' = DOMAIN next /\ at'["compare"] = "ref"
    BY <1>2, <2>2 DEF Queues
  <2>4. /\ readyPool' = readyPool \ {"compare"} /\ "compare" \in readyPool
        /\ trigPool' = trigPool /\ updatePool' = updatePool \cup {"ref"}
        /\ at'["acquire"] = at["acquire"] /\ ("acquire" \in readyPool' <=> "acquire" \in readyPool)
        /\ at'["passive"] = at["passive"] /\ ("passive" \in readyPool' <=> "passive" \in readyPool)
        /\ ~OnItsWay("ref") /\ ~OnItsWay("dut") /\ Popped' = Popped
        /\ (OnItsWay("in")' <=> OnItsWay("in")) /\ Latest("in")' = Latest("in")
        /\ Offering' /\ Streaming' /\ Calm'
        /\ \A s, f : Waits("compare", s, f)' <=> s = at'["compare"] /\ f = "ref.updated"
    <3>1. {"ref"} \in SUBSET {"ref", "dut"}
      OBVIOUS
    <3> QED BY <1>2, <2>2, <2>3, <3>1, CompareBeside, ZenonT(40)
  <2>5. Shapes'
    BY <1>1, <1>2, <2>3 DEF Shapes, TransactionsAssumption, Queues
  <2>6. Latest("ref")' = Items(Compared + 1)
    BY <2>3, <2>4 DEF Latest
  <2>7. RefsTaken' = Compared + 1 /\ Refs' = Refs /\ Outs' = Outs
    <3>1. RefsTaken' = Compared + 1
      BY <1>3, <2>3 DEF RefsTaken
    <3>2. Len(mem'["ref"]) = 0 /\ mem["ref"] # <<>>
      BY <2>1, <2>3, AppendToNone
    <3> QED BY <1>2, <1>3, <2>3, <3>1, <3>2 DEF Refs, Outs
  <2>8. Data'
    BY <1>1, <1>2, <1>3, <2>3, <2>4, <2>6, <2>7 DEF Data
  <2>9. Served'
    BY <1>1, <1>2, <2>3, <2>4 DEF Served, Due
  <2>10. Awaited'
    <3>1. \A q \in Queues : ~(q \in updatePool' /\ Updated[q] \in trigPool')
      BY <1>1, <2>4 DEF Awaited, OnItsWay, Queues
    <3>2. ~OnItsWay("dut")' /\ Waits("compare", "ref", "ref.updated")' /\ "compare" \notin readyPool'
      BY <2>3, <2>4 DEF OnItsWay
    <3> QED BY <1>1, <2>4, <3>1, <3>2 DEF Awaited
  <2>11. Seen'
    <3>1. Busy' <=> Busy
      BY <2>4 DEF Busy
    <3> QED BY <1>1, <1>2, <2>4, <2>7, <3>1 DEF Seen
  <2> QED BY <2>4, <2>5, <2>8, <2>9, <2>10, <2>11 DEF Places
<1> QED BY <1>4, <1>5 DEF CompareRef

LEMMA CompareDutPlaces ==
  ASSUME TransactionsAssumption, TypeOK, WaitsMatch, Timing, Places, Streaming, Calm, CompareDut
  PROVE  Places' /\ Streaming' /\ Calm'
<1>1. Shapes /\ Data /\ Served /\ Awaited /\ Seen /\ Offering
  BY DEF Places
<1>2. /\ at["compare"] = "ref" /\ "compare" \in Procs /\ DOMAIN at = Procs
      /\ UNCHANGED <<val, sent, fifo, remain, held, received, results>>
      /\ \A q \in Procs \ {"compare"} : at'[q] = at[q]
      /\ DOMAIN mem = Queues /\ DOMAIN next = Sigs /\ "dut.enqueued" \in Events
      /\ "dut.updated" \in Events /\ "dut" \in Sigs
  BY <1>1 DEF CompareDut, PopBlocks, PopTakes, WaitsMatch, Shapes, TransactionsAssumption, Queues
<1>3. /\ Compared' = Compared /\ RefsTaken = Compared + 1 /\ Compared \in Nat
      /\ Outs = Compared + 0 + (IF mem["dut"] = <<>> THEN 0 ELSE 1)
  BY <1>1, <1>2, Counts DEF RefsTaken, Compared
<1>4. CASE PopBlocks("compare", "dut")
  <2>1. /\ mem["dut"] = <<>> /\ UNCHANGED <<next, mem, at>>
        /\ RunProc("compare", {}, {}, {"dut.enqueued"}, NoDelay)
    BY <1>4 DEF PopBlocks, Enqueued
  <2>2. /\ readyPool' = readyPool \ {"compare"} /\ "compare" \in readyPool
        /\ trigPool' = trigPool /\ updatePool' = updatePool
        /\ at'["acquire"] = at["acquire"] /\ ("acquire" \in readyPool' <=> "acquire" \in readyPool)
        /\ at'["passive"] = at["passive"] /\ ("passive" \in readyPool' <=> "passive" \in readyPool)
        /\ ~OnItsWay("ref") /\ ~OnItsWay("dut") /\ Popped' = Popped
        /\ (OnItsWay("in")' <=> OnItsWay("in")) /\ Latest("in")' = Latest("in")
        /\ Offering' /\ Streaming' /\ Calm'
        /\ \A s, f : Waits("compare", s, f)' <=> s = at'["compare"] /\ f = "dut.enqueued"
    <3>1. {} \in SUBSET {"ref", "dut"} /\ updatePool \cup {} = updatePool
      OBVIOUS
    <3> QED BY <1>2, <2>1, <3>1, CompareBeside
  <2>3. Shapes'
    BY <1>1, <1>2, <2>1 DEF Shapes
  <2>4. RefsTaken' = RefsTaken /\ Refs' = Refs /\ Outs' = Outs /\ \A s : Latest(s)' = Latest(s)
    BY <1>2, <2>1, <2>2 DEF RefsTaken, Refs, Outs, Compared, Latest
  <2>5. Data'
    BY <1>1, <1>2, <1>3, <2>1, <2>2, <2>4 DEF Data
  <2>6. Served'
    BY <1>1, <1>2, <2>1, <2>2 DEF Served, Due
  <2>7. Awaited'
    BY <1>1, <2>1, <2>2 DEF Awaited, OnItsWay, Queues
  <2>8. Seen'
    <3>1. Busy' <=> Busy
      BY <2>2 DEF Busy
    <3> QED BY <1>1, <1>2, <2>1, <2>2, <2>4, <3>1 DEF Seen
  <2> QED BY <2>2, <2>3, <2>5, <2>6, <2>7, <2>8 DEF Places
<1>5. CASE PopTakes("compare", "dut", "dut")
  <2>1. mem["dut"] = <<Items(Compared + 1)>>
    <3>1. mem["dut"] # <<>> /\ Len(received) = Compared + 0 + 1
      BY <1>1, <1>3, <1>5 DEF PopTakes, Data
    <3> QED BY <1>1, <1>3, <3>1 DEF Data
  <2>2. /\ mem' = [mem EXCEPT !["dut"] = <<>>] /\ next' = [next EXCEPT !["dut"] = Items(Compared + 1)]
        /\ at' = [at EXCEPT !["compare"] = "dut"]
        /\ RunProc("compare", {}, {"dut"}, {"dut.updated"}, NoDelay)
    <3>1. Tail(mem["dut"]) = <<>> /\ Head(mem["dut"]) = Items(Compared + 1)
      BY <2>1
    <3> QED BY <1>5, <3>1 DEF PopTakes, Updated
  <2>3. /\ mem'["dut"] = <<>> /\ mem'["in"] = mem["in"] /\ mem'["ref"] = mem["ref"] /\ DOMAIN mem' = Queues
        /\ next'["dut"] = Items(Compared + 1) /\ \A s \in Sigs \ {"dut"} : next'[s] = next[s]
        /\ DOMAIN next' = DOMAIN next /\ at'["compare"] = "dut"
    BY <1>2, <2>2 DEF Queues
  <2>4. /\ readyPool' = readyPool \ {"compare"} /\ "compare" \in readyPool
        /\ trigPool' = trigPool /\ updatePool' = updatePool \cup {"dut"}
        /\ at'["acquire"] = at["acquire"] /\ ("acquire" \in readyPool' <=> "acquire" \in readyPool)
        /\ at'["passive"] = at["passive"] /\ ("passive" \in readyPool' <=> "passive" \in readyPool)
        /\ ~OnItsWay("ref") /\ ~OnItsWay("dut") /\ Popped' = Popped
        /\ (OnItsWay("in")' <=> OnItsWay("in")) /\ Latest("in")' = Latest("in")
        /\ Offering' /\ Streaming' /\ Calm'
        /\ \A s, f : Waits("compare", s, f)' <=> s = at'["compare"] /\ f = "dut.updated"
    <3>1. {"dut"} \in SUBSET {"ref", "dut"}
      OBVIOUS
    <3> QED BY <1>2, <2>2, <2>3, <3>1, CompareBeside, ZenonT(40)
  <2>5. Shapes'
    BY <1>1, <1>2, <2>3 DEF Shapes, TransactionsAssumption, Queues
  <2>6. /\ Latest("dut")' = Items(Compared + 1)
        /\ val'["ref"] = Items(Compared + 1) /\ "ref" \notin updatePool'
    BY <1>1, <1>2, <2>3, <2>4 DEF Latest, Data, OnItsWay
  <2>7. RefsTaken' = RefsTaken /\ Refs' = Refs /\ Outs' = Outs
    <3>1. RefsTaken' = RefsTaken
      BY <1>3, <2>3 DEF RefsTaken
    <3>2. Len(mem'["dut"]) = 0 /\ mem["dut"] # <<>>
      BY <2>1, <2>3, AppendToNone
    <3> QED BY <1>2, <1>3, <2>3, <3>1, <3>2 DEF Refs, Outs
  <2>8. Data'
    BY <1>1, <1>2, <1>3, <2>3, <2>4, <2>6, <2>7 DEF Data
  <2>9. Served'
    BY <1>1, <1>2, <2>3, <2>4 DEF Served, Due, OnItsWay
  <2>10. Awaited'
    <3>1. \A q \in Queues : ~(q \in updatePool' /\ Updated[q] \in trigPool')
      BY <1>1, <2>4 DEF Awaited, OnItsWay, Queues
    <3>2. ~OnItsWay("ref")' /\ Waits("compare", "dut", "dut.updated")' /\ "compare" \notin readyPool'
      BY <2>3, <2>4 DEF OnItsWay
    <3> QED BY <1>1, <2>4, <3>1, <3>2 DEF Awaited
  <2>11. Seen'
    <3>1. Busy' <=> Busy
      BY <2>4 DEF Busy
    <3> QED BY <1>1, <1>2, <2>4, <2>7, <3>1 DEF Seen
  <2> QED BY <2>4, <2>5, <2>8, <2>9, <2>10, <2>11 DEF Places
<1> QED BY <1>4, <1>5 DEF CompareDut

\* The scoreboard compares the two sides of one transaction.
LEMMA ComparePlaces ==
  ASSUME TransactionsAssumption, TypeOK, WaitsMatch, Timing, Places, Streaming, Calm, Compare
  PROVE  Places' /\ Streaming' /\ Calm'
<1>1. Shapes /\ Data /\ Served /\ Awaited /\ Seen /\ Offering
  BY DEF Places
<1>2. /\ at["compare"] = "dut" /\ "compare" \in Procs /\ DOMAIN at = Procs
      /\ UNCHANGED <<val, sent, fifo, remain, held, received>>
      /\ results' = Append(results, val["ref"] = val["dut"])
      /\ \A q \in Procs \ {"compare"} : at'[q] = at[q]
      /\ DOMAIN mem = Queues /\ DOMAIN next = Sigs /\ "ref.enqueued" \in Events
      /\ "ref.updated" \in Events /\ "ref" \in Sigs
  BY <1>1 DEF Compare, WaitsMatch, Shapes, TransactionsAssumption, Queues
<1>3. /\ RefsTaken = Compared + 1 /\ Compared \in Nat /\ RefsTaken \in Nat
      /\ Refs = RefsTaken + (IF mem["ref"] = <<>> THEN 0 ELSE 1)
      /\ Outs = Compared + 1 + (IF mem["dut"] = <<>> THEN 0 ELSE 1)
      /\ Len(mem["dut"]) = IF mem["dut"] = <<>> THEN 0 ELSE 1
  BY <1>1, <1>2, Counts DEF RefsTaken, Queues
<1>4. \/ /\ mem["ref"] = <<>> /\ UNCHANGED <<mem, next>> /\ at'["compare"] = "start"
         /\ RunProc("compare", {}, {}, {"ref.enqueued"}, NoDelay)
      \/ /\ mem["ref"] = <<Items(Compared + 2)>> /\ mem' = [mem EXCEPT !["ref"] = <<>>]
         /\ next' = [next EXCEPT !["ref"] = Items(Compared + 2)] /\ at'["compare"] = "ref"
         /\ RunProc("compare", {}, {"ref"}, {"ref.updated"}, NoDelay)
  <2>1. CASE mem["ref"] = <<>>
    BY <1>2, <2>1 DEF Compare
  <2>2. CASE mem["ref"] # <<>>
    <3>1. mem["ref"] = <<Items(Compared + 2)>>
      BY <1>1, <1>3, <2>2 DEF Data
    <3>2. Tail(mem["ref"]) = <<>> /\ Head(mem["ref"]) = Items(Compared + 2)
      BY <3>1
    <3> QED BY <1>2, <2>2, <3>1, <3>2 DEF Compare
  <2> QED BY <2>1, <2>2
<1>5. /\ mem'["in"] = mem["in"] /\ mem'["dut"] = mem["dut"] /\ mem'["ref"] = <<>> /\ DOMAIN mem' = Queues
      /\ DOMAIN next' = DOMAIN next /\ \A s \in Sigs \ {"ref"} : next'[s] = next[s]
  BY <1>2, <1>4 DEF Queues
<1>6. PICK U \in {{}, {"ref"}}, e \in {"ref.enqueued", "ref.updated"} :
        /\ RunProc("compare", {}, U, {e}, NoDelay)
        /\ \/ /\ U = {} /\ e = "ref.enqueued" /\ mem["ref"] = <<>> /\ at'["compare"] = "start"
              /\ UNCHANGED <<mem, next>>
           \/ /\ U = {"ref"} /\ e = "ref.updated" /\ mem["ref"] # <<>> /\ at'["compare"] = "ref"
              /\ next'["ref"] = Items(Compared + 2)
  <2>1. CASE mem["ref"] = <<>>
    <3>1. mem["ref"] # <<Items(Compared + 2)>>
      BY <2>1, AppendToNone
    <3> QED BY <1>4, <2>1, <3>1
  <2>2. CASE mem["ref"] # <<>>
    BY <1>2, <1>4, <2>2
  <2> QED BY <2>1, <2>2
<1>7. /\ readyPool' = readyPool \ {"compare"} /\ "compare" \in readyPool
      /\ trigPool' = trigPool /\ updatePool' = updatePool \cup U
      /\ at'["acquire"] = at["acquire"] /\ ("acquire" \in readyPool' <=> "acquire" \in readyPool)
      /\ at'["passive"] = at["passive"] /\ ("passive" \in readyPool' <=> "passive" \in readyPool)
      /\ ~OnItsWay("ref") /\ ~OnItsWay("dut") /\ Popped' = Popped
      /\ (OnItsWay("in")' <=> OnItsWay("in")) /\ Latest("in")' = Latest("in")
      /\ Offering' /\ Streaming' /\ Calm'
      /\ \A s, f : Waits("compare", s, f)' <=> s = at'["compare"] /\ f = e
  <2>1. U \in SUBSET {"ref", "dut"} /\ e \in Events
    BY <1>2
  <2>2. \A s \in Sigs \ {"ref", "dut"} : next'[s] = next[s]
    BY <1>5
  <2> QED BY <1>2, <1>5, <1>6, <2>1, <2>2, CompareBeside
<1>8. val["ref"] = Items(Compared + 1) /\ val["dut"] = Items(Compared + 1)
  BY <1>1, <1>2, <1>7 DEF Data, Latest, OnItsWay
<1>9. /\ results' = Append(results, TRUE) /\ Compared' = Compared + 1
      /\ results' \in Seq(BOOLEAN) /\ \A k \in 1 .. Len(results') : results'[k]
  <2>1. results' = Append(results, TRUE)
    <3>1. (val["ref"] = val["dut"]) = TRUE
      BY <1>8
    <3> QED BY <1>2, <3>1
  <2>2. /\ results \in Seq(BOOLEAN) /\ Len(results) \in Nat /\ TRUE \in BOOLEAN
        /\ \A k \in 1 .. Len(results) : results[k]
    BY <1>1 DEF Shapes, Data
  <2>3. /\ results' \in Seq(BOOLEAN) /\ Len(results') = Len(results) + 1
        /\ \A i \in 1 .. Len(results) : results'[i] = results[i]
        /\ results'[Len(results) + 1] = TRUE
    BY <2>1, <2>2, AppendProperties
  <2>4. ASSUME NEW k \in 1 .. Len(results') PROVE results'[k]
    <3>1. CASE k \in 1 .. Len(results)
      <4>1. results'[k] = results[k] /\ results[k]
        BY <2>2, <2>3, <3>1
      <4> QED BY <4>1
    <3>2. CASE k = Len(results) + 1
      <4>1. results'[k] = TRUE
        BY <2>3, <3>2
      <4> QED BY <4>1
    <3>3. k \in 1 .. Len(results) \/ k = Len(results) + 1
      BY <2>2, <2>3
    <3> QED BY <3>1, <3>2, <3>3
  <2> QED BY <2>1, <2>3, <2>4 DEF Compared
<1>10. Shapes'
  BY <1>1, <1>2, <1>5, <1>9 DEF Shapes, TransactionsAssumption, Queues
<1>11. RefsTaken' = (IF mem["ref"] = <<>> THEN RefsTaken ELSE RefsTaken + 1) /\ Refs' = Refs /\ Outs' = Outs
  <2>1. RefsTaken' = (IF mem["ref"] = <<>> THEN RefsTaken ELSE RefsTaken + 1)
    BY <1>3, <1>6, <1>9 DEF RefsTaken
  <2>2. Len(mem'["ref"]) = 0
    BY <1>5
  <2>3. Refs' = RefsTaken' + 0
    BY <2>2 DEF Refs
  <2>4. Outs' = Compared + 1 + 0 + Len(mem["dut"])
    BY <1>5, <1>6, <1>9 DEF Outs
  <2> QED BY <1>3, <2>1, <2>3, <2>4
<1>12. at'["compare"] = "ref" => Latest("ref")' = Items(Compared' + 1)
  <2>1. Compared' + 1 = Compared + 2
    BY <1>3, <1>9
  <2> QED BY <1>6, <1>7, <2>1 DEF Latest
<1>13. Data'
  BY <1>1, <1>2, <1>5, <1>6, <1>7, <1>9, <1>11, <1>12 DEF Data
<1>14. Served'
  BY <1>1, <1>2, <1>5, <1>6, <1>7 DEF Served, Due
<1>15. Awaited'
  <2>1. \A q \in Queues : ~(q \in updatePool' /\ Updated[q] \in trigPool')
    BY <1>1, <1>6, <1>7 DEF Awaited, OnItsWay, Queues
  <2>2. ~OnItsWay("dut")' /\ "compare" \notin readyPool'
    BY <1>6, <1>7 DEF OnItsWay
  <2>3. OnItsWay("ref")' => Waits("compare", "ref", "ref.updated")'
    BY <1>6, <1>7 DEF OnItsWay
  <2> QED BY <1>1, <1>7, <2>1, <2>2, <2>3 DEF Awaited
<1>16. Seen'
  <2>1. Busy' <=> Busy
    BY <1>7 DEF Busy
  <2> QED BY <1>1, <1>2, <1>7, <1>11, <2>1 DEF Seen
<1> QED BY <1>7, <1>10, <1>13, <1>14, <1>15, <1>16 DEF Places

-----------------------------------------------------------------------------
(* The processes on the edge *)

\* When a process is to run on the edge, the values of the bus are those it saw rise.
LEMMA AtTheEdge ==
  ASSUME TransactionsAssumption, TypeOK, Timing, Streaming, pc = "evaluate",
         NEW x \in Clocks, EdgeReady(x)
  PROVE  /\ deltaCount = 2 /\ time > 0 /\ ~Late /\ Opened /\ EdgeAhead
         /\ readyPool \cap {"passive", "compare"} = {}
         /\ x = "send" => "bus" \notin updatePool
<1>1. time \in Nat /\ deltaCount \in Nat
  BY DEF TypeOK
<1>2. deltaCount = 2 /\ time > 0
  BY DEF Timing, EdgeTiming
<1>3. ~Late
  BY <1>1, <1>2 DEF Late
<1>4. Opened /\ EdgeAhead
  BY DEF Streaming, EdgeAhead
<1>5. x = "send" => "bus" \notin updatePool
  BY <1>3 DEF Timing, ClockedTiming, EdgeReady
<1> QED BY <1>2, <1>3, <1>4, <1>5 DEF Timing, CheckTiming

\* What a slice of send does with the items on offer: nothing, the next one, or the last.
SendIdles ==
  /\ fifo' = fifo /\ Input.valid = 0 /\ "last_data_event" \notin trigPool' \ trigPool
  /\ fifo = <<>> => Latest("bus")'.valid = 0
  /\ fifo # <<>> => Latest("bus")' = Head(fifo)
SendGoesOn(j) ==
  /\ j < Lens[Popped] /\ fifo = RestFrom(j) /\ fifo' = RestFrom(j + 1)
  /\ Input = Offer(<<Popped, j>>) /\ "last_data_event" \notin trigPool' \ trigPool
  /\ Latest("bus")' = Head(fifo')
SendEnds ==
  /\ fifo = RestFrom(Lens[Popped]) /\ fifo' = <<>>
  /\ Input = Offer(<<Popped, Lens[Popped]>>) /\ Latest("bus")'.valid = 0

LEMMA SendEffect ==
  ASSUME TransactionsAssumption, TypeOK, Timing, Places, Streaming, Send
  PROVE  /\ DOMAIN next' = DOMAIN next /\ next'["bus"] \in Offers
         /\ \A s \in Sigs \ {"bus"} : next'[s] = next[s]
         /\ fifo' \in Seq(Offers)
         /\ SendIdles \/ SendEnds \/ \E j \in 1 .. Lens[Popped] : SendGoesOn(j)
<1>1. Shapes /\ Data /\ Offering
  BY DEF Places
<1>2. /\ at["send"] = "clocked" /\ UNCHANGED val
      /\ pc = "evaluate" /\ "send" \in readyPool
      /\ trigPool' = trigPool \cup (IF LastTaken THEN {"last_data_event"} ELSE {})
      /\ updatePool' = updatePool \cup (IF fifo = <<>> \/ Taken THEN {"bus"} ELSE {})
  BY DEF Send, Clocked, RunProc
<1>3. "bus" \notin updatePool /\ "bus" \in Sigs /\ DOMAIN next = Sigs
  <2>1. EdgeReady("send") /\ "send" \in Clocks
    BY <1>2 DEF EdgeReady, Clocks
  <2> QED BY <1>1, <1>2, <2>1, AtTheEdge DEF TransactionsAssumption, Shapes
<1>4. Latest("bus") = val["bus"] /\ val["bus"] \in Offers /\ val["ready"] \in Bit
  BY <1>1, <1>3 DEF Latest, Shapes
<1>5. DOMAIN next' = DOMAIN next /\ \A s \in Sigs \ {"bus"} : next'[s] = next[s]
  BY <1>3 DEF Send
<1> DEFINE none == [val["bus"] EXCEPT !.valid = 0, !.last = 0]
<1>6. none \in Offers /\ none.valid = 0
  BY <1>4 DEF Offers, Bit
<1>7. CASE fifo = <<>>
  <2>1. ~Taken /\ ~LastTaken
    BY <1>7 DEF Taken, LastTaken
  <2>2. fifo' = <<>> /\ next'["bus"] = none /\ "bus" \in updatePool'
    BY <1>2, <1>3, <1>7, <2>1 DEF Send
  <2>3. Latest("bus")'.valid = 0
    BY <1>6, <2>2 DEF Latest
  <2>4. Input.valid = 0
    BY <1>1, <1>4, <1>7 DEF Input, NoItem, Offering
  <2>5. SendIdles
    BY <1>2, <1>7, <2>1, <2>2, <2>3, <2>4 DEF SendIdles
  <2> QED BY <1>1, <1>5, <1>6, <1>7, <2>2, <2>5 DEF Shapes
<1>8. CASE fifo # <<>> /\ ~Taken
  <2>1. ~LastTaken /\ val["ready"] = 0
    BY <1>4, <1>8 DEF Taken, LastTaken, Bit
  <2>2. fifo' = fifo /\ next'["bus"] = next["bus"] /\ "bus" \notin updatePool'
    BY <1>2, <1>3, <1>8, <2>1 DEF Send
  <2>3. Latest("bus")' = Head(fifo)
    BY <1>1, <1>2, <1>4, <1>8, <2>2 DEF Latest, Offering
  <2>4. Input.valid = 0
    BY <2>1 DEF Input, NoItem
  <2>5. SendIdles
    BY <1>2, <1>8, <2>1, <2>2, <2>3, <2>4 DEF SendIdles
  <2> QED BY <1>1, <1>5, <2>2, <2>5 DEF Shapes
<1>9. CASE fifo # <<>> /\ Taken
  <2>1. PICK j \in 1 .. Lens[Popped] : fifo = RestFrom(j)
    BY <1>1, <1>9 DEF Offering
  <2>2. Popped \in 1 .. Len(Lens)
    <3>1. Popped >= 1 /\ Popped \in 0 .. Len(Lens) /\ Len(Lens) \in Nat
      BY <1>1, <1>9, Counts, LensProper DEF Offering
    <3> QED BY <3>1
  <2>3. Lens[Popped] \in Nat \ {0}
    BY <2>2, LensProper
  <2>4. /\ fifo \in Seq(Offers) /\ Head(fifo) = Offer(<<Popped, j>>)
        /\ Tail(fifo) = IF j = Lens[Popped] THEN <<>> ELSE RestFrom(j + 1)
    BY <2>1, <2>2, RestOfBurst
  <2>5. Input = Offer(<<Popped, j>>)
    BY <1>1, <1>4, <1>9, <2>4 DEF Input, Taken, Offering
  <2>6. fifo' = Tail(fifo) /\ "bus" \in updatePool'
        /\ next'["bus"] = IF Tail(fifo) = <<>> THEN none ELSE Head(Tail(fifo))
    BY <1>2, <1>3, <1>9 DEF Send
  <2>7. CASE j = Lens[Popped]
    <3>1. fifo' = <<>> /\ next'["bus"] = none
      BY <2>4, <2>6, <2>7
    <3>2. SendEnds
      BY <1>6, <2>1, <2>5, <2>6, <2>7, <3>1 DEF SendEnds, Latest
    <3>3. fifo' \in Seq(Offers)
      BY <3>1
    <3> QED BY <1>5, <1>6, <3>1, <3>2, <3>3
  <2>8. CASE j # Lens[Popped]
    <3>1. j < Lens[Popped] /\ j + 1 \in 1 .. Lens[Popped]
      BY <2>3, <2>8
    <3>2. RestFrom(j + 1) \in Seq(Offers) /\ RestFrom(j + 1) # <<>>
      BY <2>2, <3>1, RestOfBurst
    <3>3. fifo' = RestFrom(j + 1) /\ next'["bus"] = Head(fifo')
      BY <2>4, <2>6, <2>8, <3>2
    <3>4. Head(fifo).last = 0
      BY <2>3, <2>4, <2>8 DEF Offer
    <3>5. ~LastTaken
      BY <3>4 DEF LastTaken
    <3>6. SendGoesOn(j)
      BY <1>2, <2>1, <2>5, <2>6, <3>1, <3>3, <3>5 DEF SendGoesOn, Latest
    <3>7. next'["bus"] \in Offers /\ fifo' \in Seq(Offers)
      BY <3>2, <3>3, HeadTailProperties
    <3> QED BY <1>5, <3>6, <3>7
  <2> QED BY <2>7, <2>8
<1> QED BY <1>7, <1>8, <1>9

\* When the last item of a transaction is taken, the passive architecture has written it: as
\* long as it were blocked, the second transaction before this one would be in the design.
LEMMA SeenInTime ==
  ASSUME TransactionsAssumption, ReferenceKeepsUp, TypeOK, Timing, Places, Streaming, Calm,
         pc = "evaluate", EdgeReady("send"), Popped \in 1 .. Len(Lens),
         fifo = RestFrom(Lens[Popped])
  PROVE  ~Busy
<1>1. Shapes /\ Data /\ Awaited /\ Seen /\ Offering
  BY DEF Places
<1>2. EdgeAhead /\ readyPool \cap {"passive", "compare"} = {}
  BY AtTheEdge DEF Clocks
<1>3. Lens[Popped] \in Nat \ {0} /\ Popped \in Nat /\ Len(Lens) \in Nat
  <2>1. Len(Lens) \in Nat /\ Lens[Popped] \in Nat \ {0}
    BY LensProper
  <2> QED BY <2>1
<1>4. fifo # <<>> /\ Head(fifo) = Offer(<<Popped, Lens[Popped]>>)
  <2>1. Lens[Popped] \in 1 .. Lens[Popped]
    BY <1>3
  <2> QED BY <2>1, RestOfBurst
<1>5. ~OnItsWay("in")
  BY <1>2, <1>4 DEF Calm
<1> SUFFICES ASSUME at["passive"] = "push" PROVE FALSE
  BY <1>2, <1>5 DEF Busy
<1>6. mem["ref"] # <<>> /\ at["compare"] = "ref"
  BY <1>2 DEF Calm, Waits
<1>7. /\ Compared \in Nat /\ RefsTaken = Compared + 1 /\ Refs = RefsTaken + 1
      /\ Refs = Popped - 1
  BY <1>1, <1>6, Counts DEF RefsTaken, Seen, Busy
<1>8. Popped = Compared + 3 /\ Popped - 1 \in 1 .. Len(Lens) - 1
  BY <1>3, <1>7
<1>9. PICK E \in [0 .. Latency -> ItemIds] : Stream(E)
  BY DEF Streaming
<1>10. Latency \in Nat /\ 0 \in 0 .. Latency /\ Latency \in 0 .. Latency
  BY DEF TransactionsAssumption
<1>11. E[0] = <<Popped, Lens[Popped]>>
  BY <1>4, <1>9 DEF Stream, Ran, EdgeReady, InPos, Offer
<1>12. E[Latency][1] = Compared + 1 /\ Lag(E[Latency], E[0], Latency)
  BY <1>2, <1>9, <1>10 DEF Stream
<1>13. Lens[Popped - 1] \in Nat \ {0} /\ Latency < Lens[Popped - 1] + Lens[Popped]
  <2>1. Latency < Lens[Popped - 1] + Lens[(Popped - 1) + 1]
    BY <1>8 DEF ReferenceKeepsUp
  <2>2. (Popped - 1) + 1 = Popped
    BY <1>3
  <2>3. Popped - 1 \in 1 .. Len(Lens)
    BY <1>3, <1>8
  <2> QED BY <2>1, <2>2, <2>3, LensProper
<1>14. Lens[Popped] + Lens[Popped - 1] <= Latency
  <2>1. E[0][1] = Popped /\ E[0][2] = Lens[Popped]
    BY <1>11
  <2>2. E[Latency][1] = Popped - 2
    BY <1>7, <1>8, <1>12
  <2> QED BY <1>3, <1>12, <2>1, <2>2 DEF Lag
<1> QED BY <1>3, <1>10, <1>13, <1>14

LEMMA SendPlaces ==
  ASSUME TransactionsAssumption, ReferenceKeepsUp, TypeOK, WaitsMatch, Timing, Places, Streaming, Calm,
         Send
  PROVE  Places' /\ Streaming' /\ Calm'
<1>1. Shapes /\ Data /\ Served /\ Awaited /\ Seen /\ Offering
  BY DEF Places
<1>2. PICK T \in SUBSET {"last_data_event"}, U \in SUBSET {"bus"} :
        RunProc("send", T, U, {"clk.posedge"}, NoDelay)
  BY DEF Send, Clocked
<1>3. /\ UNCHANGED <<val, mem, at, sent, remain, held, received, results>> /\ at["send"] = "clocked"
      /\ "send" \in Procs /\ "send" \in Clocks
      /\ \A q \in {"acquire", "passive", "compare", "clk", "design", "recv"} : q \in Procs \ {"send"}
  BY DEF Send, Clocked, TransactionsAssumption, Clocks
<1>4. /\ pc = "evaluate" /\ pc' = pc /\ "send" \in readyPool /\ readyPool' = readyPool \ {"send"}
      /\ trigPool' = trigPool \cup T /\ updatePool' = updatePool \cup U
      /\ \A q \in Procs \ {"send"} : /\ q \in readyPool' <=> q \in readyPool
                                     /\ \A s, e : Waits(q, s, e)' <=> Waits(q, s, e)
  <2>1. T \in SUBSET Events /\ U \in SUBSET Sigs /\ {"clk.posedge"} \in SUBSET Events
    BY DEF TransactionsAssumption
  <2> QED BY <1>2, <1>3, <2>1, OthersKept
<1>5. EdgeReady("send") /\ Opened /\ EdgeAhead /\ ~Ran("send")
  <2>1. EdgeReady("send")
    BY <1>3, <1>4 DEF EdgeReady
  <2> QED BY <1>3, <1>4, <2>1, AtTheEdge DEF Ran
<1>6. /\ DOMAIN next' = DOMAIN next /\ next'["bus"] \in Offers
      /\ \A s \in Sigs \ {"bus"} : next'[s] = next[s]
      /\ fifo' \in Seq(Offers)
      /\ SendIdles \/ SendEnds \/ \E j \in 1 .. Lens[Popped] : SendGoesOn(j)
  BY SendEffect
<1>7. {"in", "ref", "dut", "pipe", "ready", "clk"} \subseteq Sigs \ {"bus"}
  BY DEF TransactionsAssumption, Queues
<1>8. Shapes'
  BY <1>1, <1>3, <1>6, <1>7 DEF Shapes
<1>9. /\ RefsTaken' = RefsTaken /\ Refs' = Refs /\ Outs' = Outs /\ Compared' = Compared
      /\ Popped' = Popped /\ \A s \in Sigs \ {"bus"} : Latest(s)' = Latest(s)
  BY <1>3, <1>4, <1>6 DEF RefsTaken, Refs, Outs, Compared, Popped, Latest
<1>10. Data'
  BY <1>1, <1>3, <1>4, <1>7, <1>9 DEF Data
<1>11. Served'
  BY <1>1, <1>3, <1>4 DEF Served, Due
<1>12. (\A q \in Queues : OnItsWay(q)' <=> OnItsWay(q)) /\ (Busy' <=> Busy)
  BY <1>3, <1>4 DEF OnItsWay, Busy, Queues, Updated
<1>13. Awaited'
  BY <1>1, <1>3, <1>4, <1>12 DEF Awaited, Queues, Updated, OnItsWay
<1>14. \A j : RestFrom(j)' = RestFrom(j)
  BY <1>9 DEF RestFrom, Offer
<1>15. PICK E \in [0 .. Latency -> ItemIds] : Stream(E)
  BY DEF Streaming
<1>16. InPos = E[0]
  BY <1>5, <1>15 DEF Stream
<1>17. fifo # <<>> => /\ Popped \in 1 .. Len(Lens) /\ Lens[Popped] \in Nat \ {0}
                      /\ Waits("acquire", "sent", "last_data_event") /\ "acquire" \notin readyPool
  <2>1. fifo # <<>> => Popped \in 1 .. Len(Lens)
    <3>1. Popped \in 0 .. Len(Lens) /\ Len(Lens) \in Nat /\ (fifo # <<>> => Popped >= 1)
      BY <1>1, Counts, LensProper DEF Offering
    <3> QED BY <3>1
  <2> QED BY <1>1, <2>1, LensProper DEF Offering
<1>18. fifo = <<>> => Input.valid = 0
  <2>1. "bus" \notin updatePool
    BY <1>3, <1>4, <1>5, AtTheEdge
  <2> QED BY <1>1, <2>1 DEF Offering, Latest, Input, NoItem
<1>19. Seen' /\ Offering' /\ InPos' = Past(E[0], Input) /\ (fifo' # <<>> => fifo # <<>>)
  <2>1. CASE SendIdles
    <3>1. Seen'
      BY <1>1, <1>3, <1>9, <1>12, <2>1 DEF Seen, SendIdles
    <3>2. "last_data_event" \in trigPool' => "last_data_event" \in trigPool
      BY <2>1 DEF SendIdles
    <3>3. Offering'
      BY <1>1, <1>3, <1>4, <1>9, <1>14, <2>1, <3>2 DEF Offering, SendIdles
    <3>4. InPos' = E[0]
      BY <1>3, <1>9, <1>16, <2>1 DEF InPos, SendIdles
    <3>5. InPos' = Past(E[0], Input)
      BY <2>1, <3>4 DEF Past, SendIdles
    <3> QED BY <2>1, <3>1, <3>3, <3>5 DEF SendIdles
  <2>2. CASE SendEnds
    <3>1. Popped \in 1 .. Len(Lens) /\ Lens[Popped] \in 1 .. Lens[Popped] /\ fifo # <<>>
          /\ Head(fifo) = Offer(<<Popped, Lens[Popped]>>)
      <4>1. fifo # <<>>
        BY <1>18, <2>2 DEF SendEnds, Offer
      <4>2. Lens[Popped] \in 1 .. Lens[Popped]
        BY <1>17, <4>1
      <4> QED BY <1>17, <2>2, <4>1, <4>2, RestOfBurst DEF SendEnds
    <3>2. ~Busy
      BY <1>4, <1>5, <2>2, <3>1, SeenInTime DEF SendEnds
    <3>3. Seen'
      BY <1>1, <1>9, <1>12, <3>2 DEF Seen
    <3>4. Offering'
      BY <1>3, <1>4, <1>17, <2>2, <3>1 DEF Offering, SendEnds, Waits
    <3>5. E[0] = <<Popped, Lens[Popped]>>
      BY <1>16, <3>1 DEF InPos, Offer
    <3>6. InPos' = <<Popped + 1, 1>>
      BY <1>3, <1>9, <1>17, <2>2, <3>1 DEF InPos, SendEnds, Waits
    <3>7. Past(E[0], Input) = <<Popped + 1, 1>>
      BY <2>2, <3>5 DEF Past, Succ, SendEnds, Offer
    <3> QED BY <2>2, <3>1, <3>3, <3>4, <3>6, <3>7 DEF SendEnds
  <2>3. ASSUME NEW j \in 1 .. Lens[Popped], SendGoesOn(j)
        PROVE  Seen' /\ Offering' /\ InPos' = Past(E[0], Input) /\ fifo # <<>>
    <3>1. fifo # <<>>
      BY <1>18, <2>3 DEF SendGoesOn, Offer
    <3>2. /\ j \in Nat /\ j + 1 \in 1 .. Lens[Popped]
      BY <1>17, <2>3, <3>1 DEF SendGoesOn
    <3>3. /\ Head(fifo) = Offer(<<Popped, j>>) /\ Head(fifo') = Offer(<<Popped, j + 1>>)
          /\ fifo' # <<>>
      BY <1>17, <2>3, <3>1, <3>2, RestOfBurst DEF SendGoesOn
    <3>4. Seen'
      BY <1>1, <1>3, <1>9, <1>12, <3>3 DEF Seen
    <3>5. Offering'
      <4>1. "last_data_event" \notin trigPool'
        BY <1>1, <2>3, <3>1 DEF Offering, SendGoesOn
      <4>2. \E k \in 1 .. Lens[Popped'] : fifo' = RestFrom(k)'
        BY <1>9, <1>14, <2>3, <3>2 DEF SendGoesOn
      <4> QED BY <1>1, <1>3, <1>4, <1>9, <1>17, <2>3, <3>1, <3>3, <4>1, <4>2 DEF Offering, SendGoesOn
    <3>6. E[0] = <<Popped, j>> /\ InPos' = <<Popped, j + 1>>
      BY <1>16, <3>1, <3>3 DEF InPos, Offer
    <3>7. Past(E[0], Input) = <<Popped, j + 1>>
      BY <1>17, <2>3, <3>1, <3>2, <3>6 DEF Past, Succ, SendGoesOn, Offer
    <3> QED BY <3>1, <3>4, <3>5, <3>6, <3>7
  <2> QED BY <1>6, <2>1, <2>2, <2>3
<1>20. /\ \A x \in Clocks : EdgeReady(x)' => EdgeReady(x)
       /\ Opened' /\ (EdgeAhead' => EdgeAhead)
       /\ Ran("send")' /\ (Ran("recv")' <=> Ran("recv"))
  <2>1. EdgeReady("design")' <=> EdgeReady("design")
    BY <1>3, <1>4 DEF EdgeReady
  <2>2. Opened'
    BY <1>4, <1>5, <2>1 DEF Opened
  <2> QED BY <1>3, <1>4, <1>5, <2>2 DEF EdgeReady, EdgeAhead, Ran
<1>21. Streaming'
  <2>1. Input' = Input /\ Output' = Output /\ Shifted' = Shifted /\ OutPos' = OutPos
    BY <1>3 DEF Input, Output, Shifted, OutPos
  <2>2. Stream(E)'
    BY <1>3, <1>4, <1>5, <1>9, <1>15, <1>19, <1>20, <2>1 DEF Stream
  <2>3. "pipe" \in updatePool' => "pipe" \in updatePool /\ next'["pipe"] = next["pipe"]
    BY <1>4, <1>6, <1>7
  <2> QED BY <1>20, <2>1, <2>2, <2>3 DEF Streaming
<1>22. Calm'
  BY <1>3, <1>4, <1>5, <1>12, <1>19, CalmKept DEF Queues
<1> QED BY <1>8, <1>10, <1>11, <1>13, <1>19, <1>21, <1>22 DEF Places

LEMMA DesignPlaces ==
  ASSUME TransactionsAssumption, TypeOK, WaitsMatch, Timing, Places, Streaming, Calm, Design
  PROVE  Places' /\ Streaming' /\ Calm'
<1>1. Shapes
  BY DEF Places
<1>2. /\ RunProc("design", {}, {"pipe", "ready"}, {"clk.posedge"}, NoDelay) /\ at["design"] = "clocked"
      /\ UNCHANGED <<val, mem, at, sent, fifo, remain, held, received, results>>
      /\ "design" \in Procs /\ "design" \in Clocks
      /\ \A q \in {"acquire", "passive", "compare", "clk", "send", "recv"} : q \in Procs \ {"design"}
      /\ Latency \in Nat
  BY DEF Design, Clocked, TransactionsAssumption, Clocks
<1>3. PICK r \in Bit : next' = [next EXCEPT !["pipe"] = Shifted, !["ready"] = r]
  BY DEF Design, Shifted, Bit
<1>4. /\ pc = "evaluate" /\ pc' = pc /\ "design" \in readyPool /\ readyPool' = readyPool \ {"design"}
      /\ trigPool' = trigPool /\ updatePool' = updatePool \cup {"pipe", "ready"}
      /\ \A q \in Procs \ {"design"} : /\ q \in readyPool' <=> q \in readyPool
                                       /\ \A s, e : Waits(q, s, e)' <=> Waits(q, s, e)
  <2>1. /\ {"pipe", "ready"} \in SUBSET Sigs /\ {"clk.posedge"} \in SUBSET Events
        /\ trigPool \cup {} = trigPool
    BY DEF TransactionsAssumption
  <2> QED BY <1>2, <2>1, OthersKept
<1>5. EdgeReady("design") /\ Opened /\ EdgeAhead
  <2>1. EdgeReady("design")
    BY <1>2, <1>4 DEF EdgeReady
  <2> QED BY <1>2, <1>4, <2>1, AtTheEdge
<1>6. /\ next'["pipe"] = Shifted /\ next'["ready"] = r /\ DOMAIN next' = Sigs
      /\ \A s \in Sigs \ {"pipe", "ready"} : next'[s] = next[s] /\ (s \in updatePool' <=> s \in updatePool)
      /\ Queues \cup {"bus", "clk"} \subseteq Sigs \ {"pipe", "ready"}
  BY <1>1, <1>3, <1>4 DEF Shapes, TransactionsAssumption, Queues
<1>7. Shapes'
  <2>1. Input \in Offers
    BY <1>1 DEF Shapes, Input, NoItem, Offers, Bit
  <2>2. \A k \in 1 .. Latency : k # 1 => val["pipe"][k - 1] \in Offers
    <3> SUFFICES ASSUME NEW k \in 1 .. Latency, k # 1 PROVE val["pipe"][k - 1] \in Offers
      OBVIOUS
    <3>1. k - 1 \in 1 .. Latency
      BY <1>2
    <3> QED BY <1>1, <3>1 DEF Shapes
  <2>3. Shifted \in [1 .. Latency -> Offers]
    BY <2>1, <2>2 DEF Shifted
  <2> QED BY <1>1, <1>2, <1>6, <2>3 DEF Shapes
<1>8. Places' /\ InPos' = InPos /\ Compared' = Compared /\ (OnItsWay("in")' <=> OnItsWay("in"))
  BY <1>2, <1>4, <1>6, <1>7, BesidePlaces
<1>9. /\ \A x \in Clocks : EdgeReady(x)' => EdgeReady(x)
      /\ Opened' /\ (EdgeAhead' => EdgeAhead)
      /\ (Ran("send")' <=> Ran("send")) /\ (Ran("recv")' <=> Ran("recv"))
  BY <1>2, <1>4, <1>5 DEF EdgeReady, EdgeAhead, Opened, Ran
<1>10. Streaming'
  <2>1. PICK E \in [0 .. Latency -> ItemIds] : Stream(E)
    BY DEF Streaming
  <2>2. Input' = Input /\ Output' = Output /\ Shifted' = Shifted /\ OutPos' = OutPos
    BY <1>2 DEF Input, Output, Shifted, OutPos
  <2>3. Stream(E)'
    BY <1>2, <1>4, <1>8, <1>9, <2>1, <2>2 DEF Stream
  <2> QED BY <1>6, <1>9, <2>2, <2>3 DEF Streaming
<1>11. Calm'
  BY <1>2, <1>4, <1>8, <1>9, CalmKept
<1> QED BY <1>8, <1>10, <1>11

\* The item that comes out of the design is the next one of the transaction that comes out.
LEMMA NextItemOut ==
  ASSUME TransactionsAssumption, TypeOK, Timing, Places, Streaming, pc = "evaluate", EdgeReady("recv")
  PROVE  /\ Len(received) = Compared /\ mem["dut"] = <<>>
         /\ Output.valid = 1 => Output = Offer(OutPos) /\ Len(received) + 1 \in 1 .. Len(Lens)
<1>1. Shapes /\ Data
  BY DEF Places
<1>2. EdgeAhead /\ Opened /\ ~Ran("recv")
  BY AtTheEdge DEF Clocks, Ran, EdgeReady
<1>3. PICK E \in [0 .. Latency -> ItemIds] : Stream(E)
  BY DEF Streaming
<1>4. Latency \in Nat /\ 0 \in 0 .. Latency /\ Latency \in 0 .. Latency
  BY DEF TransactionsAssumption
<1>5. OutPos = E[Latency] /\ E[Latency][1] = Compared + 1
  BY <1>2, <1>3 DEF Stream
<1>6. Len(received) \in Nat /\ Compared \in Nat
  BY <1>1, Counts DEF Shapes
<1>7. Len(received) = Compared
  BY <1>5, <1>6 DEF OutPos
<1>8. mem["dut"] = <<>>
  BY <1>1, <1>6, <1>7, Counts DEF Data
<1>9. ASSUME Output.valid = 1
      PROVE  Output = Offer(OutPos) /\ Len(received) + 1 \in 1 .. Len(Lens)
  <2>1. Output = Offer(E[Latency]) /\ E[Latency][1] <= Len(Lens)
    <3>1. CASE Latency = 0
      <4>1. Output = val["bus"]
        BY <1>9, <3>1 DEF Output, Input, NoItem
      <4> QED BY <1>3, <1>9, <3>1, <4>1 DEF Stream
    <3>2. CASE Latency # 0
      <4>1. Latency \in 1 .. Latency /\ Output = val["pipe"][Latency]
        BY <1>4, <3>2 DEF Output
      <4> QED BY <1>3, <1>9, <4>1 DEF Stream, Carries
    <3> QED BY <3>1, <3>2
  <2>2. Len(Lens) \in Nat
    BY LensProper
  <2> QED BY <1>5, <1>6, <1>7, <2>1, <2>2
<1> QED BY <1>7, <1>8, <1>9

RecvIdles == /\ UNCHANGED <<remain, received, mem, trigPool>>
             /\ Output.valid = 0
RecvGoesOn == /\ remain' = Append(remain, OutPos)
              /\ UNCHANGED <<received, mem, trigPool>>
              /\ Output = Offer(OutPos) /\ Len(remain) + 1 # Lens[Len(received) + 1]
RecvEnds == /\ remain' = <<>> /\ received' = Append(received, Items(Len(received) + 1))
            /\ mem' = [mem EXCEPT !["dut"] = <<Items(Len(received) + 1)>>]
            /\ trigPool' = trigPool \cup {"dut.enqueued"}
            /\ Output = Offer(OutPos) /\ Len(remain) + 1 = Lens[Len(received) + 1]

\* The queue has room for every transaction that comes out.
LEMMA RecvEffect ==
  ASSUME TransactionsAssumption, TypeOK, Timing, Places, Streaming, Recv
  PROVE  /\ UNCHANGED <<at, held>>
         /\ RecvIdles \/ RecvGoesOn \/ RecvEnds
         /\ \E T \in SUBSET Events : RunProc("recv", T, {}, {"clk.posedge"}, NoDelay)
<1>1. Shapes /\ Data
  BY DEF Places
<1>2. EdgeReady("recv") /\ pc = "evaluate" /\ trigPool \cup {} = trigPool
  BY DEF Recv, RunProc, EdgeReady
<1>3. mem["dut"] = <<>> /\ ~Full("dut")
  BY <1>2, NextItemOut DEF Full
<1>4. Output.valid = 1 => Output = Offer(OutPos) /\ Len(received) + 1 \in 1 .. Len(Lens)
  BY <1>2, NextItemOut
<1>5. Output.valid \in Bit
  <2>1. Input.valid \in Bit
    BY <1>1 DEF Shapes, Input, NoItem, Offers, Bit
  <2>2. ASSUME Latency # 0 PROVE val["pipe"][Latency] \in Offers
    <3>1. Latency \in 1 .. Latency
      BY <2>2 DEF TransactionsAssumption
    <3> QED BY <1>1, <3>1 DEF Shapes
  <2> QED BY <2>1, <2>2 DEF Output, Offers
<1>6. CASE Output.valid = 0
  <2>1. /\ UNCHANGED <<remain, received, mem, at, held>>
        /\ RunProc("recv", {}, {}, {"clk.posedge"}, NoDelay)
    BY <1>6 DEF Recv
  <2>2. RecvIdles
    BY <1>2, <1>6, <2>1 DEF RecvIdles, RunProc
  <2> QED BY <2>1, <2>2
<1>7. CASE Output.valid = 1 /\ Output.last = 0
  <2>1. /\ remain' = Append(remain, Output.item) /\ UNCHANGED <<received, mem, at, held>>
        /\ RunProc("recv", {}, {}, {"clk.posedge"}, NoDelay)
    BY <1>7 DEF Recv
  <2>2. Output.item = OutPos /\ Len(remain) + 1 # Lens[Len(received) + 1]
    BY <1>4, <1>7 DEF Offer, OutPos
  <2>3. RecvGoesOn
    BY <1>2, <1>4, <1>7, <2>1, <2>2 DEF RecvGoesOn, RunProc
  <2> QED BY <2>1, <2>3
<1>8. CASE Output.valid = 1 /\ Output.last = 1
  <2> DEFINE x == Append(remain, Output.item)
  <2>1. /\ remain' = <<>> /\ received' = Append(received, x) /\ UNCHANGED <<at, held>>
        /\ mem' = [mem EXCEPT !["dut"] = Append(mem["dut"], x)]
        /\ RunProc("recv", {"dut.enqueued"}, {}, {"clk.posedge"}, NoDelay)
    BY <1>3, <1>8 DEF Recv, Cleared, Pushed
  <2>2. Output.item = OutPos /\ Len(remain) + 1 = Lens[Len(received) + 1]
    BY <1>4, <1>8 DEF Offer, OutPos
  <2>3. x = Items(Len(received) + 1)
    <3>1. /\ remain \in Seq(ItemIds) /\ Len(remain) \in Nat /\ Len(received) \in Nat
          /\ remain = [j \in 1 .. Len(remain) |-> <<Len(received) + 1, j>>]
      BY <1>1 DEF Shapes, Data
    <3>2. OutPos \in ItemIds
      BY <3>1 DEF OutPos, ItemIds
    <3>3. /\ x \in Seq(ItemIds) /\ Len(x) = Len(remain) + 1
          /\ \A i \in 1 .. Len(remain) : x[i] = remain[i]
          /\ x[Len(remain) + 1] = OutPos
      BY <2>2, <3>1, <3>2, AppendProperties
    <3>4. \A i \in 1 .. Len(remain) + 1 : x[i] = <<Len(received) + 1, i>>
      <4> TAKE i \in 1 .. Len(remain) + 1
      <4>1. CASE i = Len(remain) + 1
        BY <3>3, <4>1 DEF OutPos
      <4>2. CASE i \in 1 .. Len(remain)
        BY <3>1, <3>3, <4>2
      <4> QED BY <3>1, <4>1, <4>2
    <3>5. Items(Len(received) + 1) \in [1 .. Len(remain) + 1 -> ItemIds]
          /\ \A i \in 1 .. Len(remain) + 1 : Items(Len(received) + 1)[i] = <<Len(received) + 1, i>>
      BY <2>2, <3>1 DEF Items, ItemIds
    <3>6. Items(Len(received) + 1) \in Seq(ItemIds) /\ Len(Items(Len(received) + 1)) = Len(remain) + 1
      BY <3>1, <3>5, FunctionIsSequence
    <3> QED BY <3>3, <3>4, <3>5, <3>6, SeqEqual
  <2>4. RecvEnds
    <3>1. mem' = [mem EXCEPT !["dut"] = <<Items(Len(received) + 1)>>]
      BY <1>3, <2>1, <2>3, AppendToNone
    <3> QED BY <1>4, <1>8, <2>1, <2>2, <2>3, <3>1 DEF RecvEnds, RunProc
  <2>5. {"dut.enqueued"} \in SUBSET Events
    BY DEF TransactionsAssumption
  <2> QED BY <2>1, <2>4, <2>5
<1>9. Output.valid = 1 => Output.last \in {0, 1}
  BY <1>4 DEF Offer
<1> QED BY <1>5, <1>6, <1>7, <1>8, <1>9 DEF Bit

LEMMA SequenceIsFunction ==
  ASSUME NEW S, NEW s \in Seq(S)
  PROVE  s = [i \in 1 .. Len(s) |-> s[i]]
OBVIOUS

LEMMA RecvPlaces ==
  ASSUME TransactionsAssumption, TypeOK, WaitsMatch, Timing, Places, Streaming, Calm, Recv
  PROVE  Places' /\ Streaming' /\ Calm'
<1>1. Shapes /\ Data /\ Served /\ Awaited /\ Seen /\ Offering
  BY DEF Places
<1>2. /\ UNCHANGED <<val, next, sent, fifo, results, at, held>> /\ at["recv"] = "clocked"
      /\ "recv" \in Procs /\ "recv" \in Clocks
      /\ \A q \in {"acquire", "passive", "compare", "clk", "send", "design"} : q \in Procs \ {"recv"}
  BY RecvEffect DEF Recv, TransactionsAssumption, Clocks
<1>3. PICK T \in SUBSET Events : RunProc("recv", T, {}, {"clk.posedge"}, NoDelay)
  BY RecvEffect
<1>4. /\ pc = "evaluate" /\ pc' = pc /\ "recv" \in readyPool /\ readyPool' = readyPool \ {"recv"}
      /\ updatePool' = updatePool
      /\ \A q \in Procs \ {"recv"} : /\ q \in readyPool' <=> q \in readyPool
                                     /\ \A s, e : Waits(q, s, e)' <=> Waits(q, s, e)
  <2>1. /\ {"clk.posedge"} \in SUBSET Events /\ updatePool \cup {} = updatePool
    BY DEF TransactionsAssumption
  <2> QED BY <1>2, <1>3, <2>1, OthersKept
<1>5. EdgeReady("recv") /\ Opened /\ EdgeAhead /\ ~Ran("recv")
  <2>1. EdgeReady("recv")
    BY <1>2, <1>4 DEF EdgeReady
  <2> QED BY <1>2, <1>4, <2>1, AtTheEdge DEF Ran
<1>6. Len(received) = Compared /\ mem["dut"] = <<>>
      /\ (Output.valid = 1 => Output = Offer(OutPos) /\ Len(received) + 1 \in 1 .. Len(Lens))
  BY <1>4, <1>5, NextItemOut
<1>7. RecvIdles \/ RecvGoesOn \/ RecvEnds
  BY RecvEffect
<1>8. /\ received \in Seq(Seq(ItemIds)) /\ remain \in Seq(ItemIds)
      /\ Len(received) \in Nat /\ Len(remain) \in Nat /\ DOMAIN mem = Queues /\ "dut" \in Queues
      /\ \A i \in 1 .. Len(received) : received[i] = Items(i)
      /\ remain = [j \in 1 .. Len(remain) |-> <<Len(received) + 1, j>>]
  BY <1>1 DEF Shapes, Data, Queues
<1>9. /\ Compared' = Compared /\ RefsTaken' = RefsTaken /\ \A s : Latest(s)' = Latest(s)
  BY <1>2, <1>4 DEF RefsTaken, Compared, Latest
<1>10. /\ mem'["in"] = mem["in"] /\ mem'["ref"] = mem["ref"] /\ DOMAIN mem' = Queues
       /\ trigPool \subseteq trigPool' /\ trigPool' \subseteq trigPool \cup {"dut.enqueued"}
       /\ mem'["dut"] # <<>> => "dut.enqueued" \in trigPool'
  BY <1>6, <1>7, <1>8 DEF RecvIdles, RecvGoesOn, RecvEnds, Queues
<1>11. Popped' = Popped /\ Refs' = Refs
  BY <1>2, <1>9, <1>10 DEF Popped, Refs
\* What has come out, and how far the next place is
<1>12. /\ received' \in Seq(Seq(ItemIds)) /\ remain' \in Seq(ItemIds)
       /\ mem'["dut"] = <<>> \/ mem'["dut"] = <<Items(Len(received'))>>
       /\ Len(received') = Outs'
       /\ \A i \in 1 .. Len(received') : received'[i] = Items(i)
       /\ remain' = [j \in 1 .. Len(remain') |-> <<Len(received') + 1, j>>]
       /\ OutPos' = Past(OutPos, Output)
  <2>1. Len(received) = Outs
    BY <1>1 DEF Data
  <2>2. CASE RecvIdles
    <3>1. Outs' = Outs /\ OutPos' = OutPos
      BY <1>2, <1>9, <2>2 DEF RecvIdles, Outs, OutPos
    <3>2. Past(OutPos, Output) = OutPos
      BY <2>2 DEF RecvIdles, Past
    <3> QED BY <1>6, <1>8, <2>1, <2>2, <3>1, <3>2 DEF RecvIdles
  <2>3. CASE RecvGoesOn
    <3>1. Outs' = Outs /\ OutPos \in ItemIds
      BY <1>2, <1>8, <1>9, <2>3 DEF RecvGoesOn, Outs, OutPos, ItemIds
    <3>2. /\ remain' \in Seq(ItemIds) /\ Len(remain') = Len(remain) + 1
          /\ \A i \in 1 .. Len(remain) : remain'[i] = remain[i]
          /\ remain'[Len(remain) + 1] = OutPos
      BY <1>8, <2>3, <3>1, AppendProperties DEF RecvGoesOn
    <3>3. \A i \in 1 .. Len(remain') : remain'[i] = <<Len(received) + 1, i>>
      <4> TAKE i \in 1 .. Len(remain')
      <4>1. CASE i = Len(remain) + 1
        BY <3>2, <4>1 DEF OutPos
      <4>2. CASE i \in 1 .. Len(remain)
        BY <1>8, <3>2, <4>2
      <4> QED BY <1>8, <3>2, <4>1, <4>2
    <3>4. remain' = [j \in 1 .. Len(remain') |-> <<Len(received) + 1, j>>]
      <4>1. remain' = [j \in 1 .. Len(remain') |-> remain'[j]]
        BY <3>2, SequenceIsFunction
      <4> QED BY <3>3, <4>1
    <3>5. OutPos' = <<Len(received) + 1, Len(remain) + 2>>
      BY <1>8, <2>3, <3>2 DEF RecvGoesOn, OutPos
    <3>6. Past(OutPos, Output) = <<Len(received) + 1, Len(remain) + 2>>
      BY <1>8, <2>3 DEF RecvGoesOn, Past, Succ, Offer, OutPos
    <3> QED BY <1>6, <1>8, <2>1, <2>3, <3>1, <3>2, <3>4, <3>5, <3>6 DEF RecvGoesOn
  <2>4. CASE RecvEnds
    <3>1. Items(Len(received) + 1) \in Seq(ItemIds)
      <4>1. Lens[Len(received) + 1] \in Nat
        BY <1>8, <2>4 DEF RecvEnds
      <4>2. Items(Len(received) + 1) \in [1 .. Lens[Len(received) + 1] -> ItemIds]
        BY <1>8, <4>1 DEF Items, ItemIds
      <4> QED BY <4>1, <4>2, FunctionIsSequence
    <3>2. /\ received' \in Seq(Seq(ItemIds)) /\ Len(received') = Len(received) + 1
          /\ \A i \in 1 .. Len(received) : received'[i] = received[i]
          /\ received'[Len(received) + 1] = Items(Len(received) + 1)
      BY <1>8, <2>4, <3>1, AppendProperties DEF RecvEnds
    <3>3. \A i \in 1 .. Len(received') : received'[i] = Items(i)
      <4> TAKE i \in 1 .. Len(received')
      <4>1. CASE i = Len(received) + 1
        BY <3>2, <4>1
      <4>2. CASE i \in 1 .. Len(received)
        BY <1>8, <3>2, <4>2
      <4> QED BY <1>8, <3>2, <4>1, <4>2
    <3>4. mem'["dut"] = <<Items(Len(received'))>>
      BY <1>8, <2>4, <3>2 DEF RecvEnds
    <3>5. Len(mem'["dut"]) = 1 /\ Len(mem["dut"]) = 0
      BY <1>6, <3>4, AppendToNone
    <3>6. Len(received') = Outs'
      <4> DEFINE due == IF at["compare"] = "dut" THEN 1 ELSE 0
      <4>1. Outs' = Compared + due + 1
        BY <1>2, <1>9, <3>5 DEF Outs
      <4>2. Outs = Compared + due + 0
        BY <3>5 DEF Outs
      <4>3. Compared \in Nat /\ due \in Nat
        BY <1>6, <1>8
      <4> HIDE DEF due
      <4>4. Outs' = Outs + 1
        BY <4>1, <4>2, <4>3
      <4> QED BY <2>1, <3>2, <4>4
    <3>7. remain' = <<>> /\ Len(remain') = 0
      BY <2>4 DEF RecvEnds
    <3>8. OutPos' = <<Len(received) + 2, 1>>
      BY <1>8, <3>2, <3>7 DEF OutPos
    <3>9. Past(OutPos, Output) = <<Len(received) + 2, 1>>
      BY <1>8, <2>4 DEF RecvEnds, Past, Succ, Offer, OutPos
    <3>10. remain' = [j \in 1 .. Len(remain') |-> <<Len(received') + 1, j>>] /\ remain' \in Seq(ItemIds)
      BY <3>7
    <3> QED BY <3>2, <3>3, <3>4, <3>6, <3>8, <3>9, <3>10
  <2> QED BY <1>7, <2>2, <2>3, <2>4
<1>13. Shapes'
  BY <1>1, <1>2, <1>10, <1>12 DEF Shapes
<1>14. Data'
  BY <1>1, <1>2, <1>4, <1>9, <1>10, <1>11, <1>12 DEF Data
<1>15. Served'
  BY <1>1, <1>2, <1>4, <1>10 DEF Served, Due
<1>16. (\A q \in Queues : OnItsWay(q)' <=> OnItsWay(q)) /\ (Busy' <=> Busy)
  BY <1>2, <1>4, <1>10 DEF OnItsWay, Busy, Queues, Updated
<1>17. Awaited'
  BY <1>1, <1>2, <1>4, <1>10, <1>16 DEF Awaited, OnItsWay, Queues, Updated
<1>18. Seen'
  BY <1>1, <1>2, <1>11, <1>16 DEF Seen
<1>19. (\A j : RestFrom(j)' = RestFrom(j)) /\ InPos' = InPos
  BY <1>2, <1>11 DEF RestFrom, Offer, InPos
<1>20. Offering'
  <2>1. "last_data_event" \in trigPool' <=> "last_data_event" \in trigPool
    BY <1>10
  <2> QED BY <1>1, <1>2, <1>4, <1>9, <1>11, <1>19, <2>1 DEF Offering
<1>21. /\ \A x \in Clocks : EdgeReady(x)' => EdgeReady(x)
       /\ Opened' /\ (EdgeAhead' => EdgeAhead)
       /\ Ran("recv")' /\ (Ran("send")' <=> Ran("send"))
  <2>1. EdgeReady("design")' <=> EdgeReady("design")
    BY <1>2, <1>4 DEF EdgeReady
  <2>2. Opened'
    BY <1>4, <1>5, <2>1 DEF Opened
  <2> QED BY <1>2, <1>4, <1>5, <2>2 DEF EdgeReady, EdgeAhead, Ran
<1>22. Streaming'
  <2>1. PICK E \in [0 .. Latency -> ItemIds] : Stream(E)
    BY DEF Streaming
  <2>2. Input' = Input /\ Output' = Output /\ Shifted' = Shifted
    BY <1>2 DEF Input, Output, Shifted
  <2>3. OutPos' = Past(E[Latency], Output)
    BY <1>5, <1>12, <2>1 DEF Stream
  <2>4. Stream(E)'
    BY <1>2, <1>4, <1>5, <1>9, <1>19, <1>21, <2>1, <2>2, <2>3 DEF Stream
  <2> QED BY <1>2, <1>4, <1>21, <2>2, <2>4 DEF Streaming
<1>23. Calm'
  BY <1>2, <1>4, <1>10, <1>16, <1>21, CalmKept DEF Queues
<1> QED BY <1>13, <1>14, <1>15, <1>17, <1>18, <1>20, <1>22, <1>23 DEF Places

-----------------------------------------------------------------------------
(* The update phase *)

\* Where one item more has gone past
LEMMA PastIsProper ==
  ASSUME TransactionsAssumption, NEW e \in ItemIds, Proper(e), NEW x, x.valid = 1 => e[1] <= Len(Lens)
  PROVE  Past(e, x) \in ItemIds /\ Proper(Past(e, x))
<1>1. e = <<e[1], e[2]>> /\ e[1] \in Nat /\ e[2] \in Nat
  BY DEF ItemIds
<1>2. Len(Lens) \in Nat /\ \A t \in 1 .. Len(Lens) : Lens[t] \in Nat \ {0}
  BY LensProper
<1>3. CASE x.valid # 1
  BY <1>3 DEF Past
<1>4. CASE x.valid = 1 /\ e[2] = Lens[e[1]]
  <2>1. Past(e, x) = <<e[1] + 1, 1>> /\ e[1] \in 1 .. Len(Lens)
    BY <1>1, <1>4 DEF Past, Succ, Proper
  <2>2. <<e[1] + 1, 1>>[1] = e[1] + 1 /\ <<e[1] + 1, 1>>[2] = 1
    OBVIOUS
  <2>3. e[1] + 1 \in 1 .. Len(Lens) + 1 /\ (e[1] + 1 <= Len(Lens) => 1 <= Lens[e[1] + 1])
    BY <1>2, <2>1
  <2> QED BY <1>1, <2>1, <2>2, <2>3 DEF Proper, ItemIds
<1>5. CASE x.valid = 1 /\ e[2] # Lens[e[1]]
  <2>1. Past(e, x) = <<e[1], e[2] + 1>> /\ e[1] \in 1 .. Len(Lens) /\ e[2] <= Lens[e[1]]
    BY <1>1, <1>5 DEF Past, Succ, Proper
  <2>2. <<e[1], e[2] + 1>>[1] = e[1] /\ <<e[1], e[2] + 1>>[2] = e[2] + 1
    OBVIOUS
  <2>3. e[1] \in 1 .. Len(Lens) + 1 /\ e[1] <= Len(Lens) /\ e[2] + 1 >= 1 /\ e[2] + 1 <= Lens[e[1]]
    BY <1>1, <1>2, <1>5, <2>1
  <2> QED BY <1>1, <2>1, <2>2, <2>3 DEF Proper, ItemIds
<1> QED BY <1>3, <1>4, <1>5

\* The same in plain numbers: l is the length of the transaction before the one of f.
LagOf(e1, e2, f1, f2, l, k) ==
  \/ e1 = f1 /\ e2 <= f2 /\ f2 - e2 <= k
  \/ e1 = f1 - 1 /\ f2 + l - e2 <= k
  \/ e1 <= f1 - 2 /\ f2 + l <= k

LEMMA LagIsNumeric ==
  ASSUME NEW e, NEW f, NEW k
  PROVE  Lag(e, f, k) <=> LagOf(e[1], e[2], f[1], f[2], Lens[f[1] - 1], k)
BY DEF Lag, LagOf

LEMMA LagGrows ==
  ASSUME TransactionsAssumption, NEW e \in ItemIds, NEW f \in ItemIds, NEW k \in Nat,
         Proper(e), Proper(f), Lag(e, f, k), NEW x, x.valid = 1 => f[1] <= Len(Lens)
  PROVE  Lag(e, Past(f, x), k + 1)
<1> DEFINE e1 == e[1]  e2 == e[2]  f1 == f[1]  f2 == f[2]  n == Len(Lens)
           le == Lens[e1]  lf == Lens[f1]  lp == Lens[f1 - 1]
<1>1. e1 \in Nat /\ e2 \in Nat /\ f1 \in Nat /\ f2 \in Nat
  BY DEF ItemIds
<1>2. n \in Nat /\ \A t \in 1 .. n : Lens[t] \in Nat \ {0}
  BY LensProper
<1>3. /\ e1 \in 1 .. n + 1 /\ f1 \in 1 .. n + 1
      /\ e1 <= n => le \in Nat \ {0} /\ e2 <= le /\ e2 >= 1
      /\ f1 <= n => lf \in Nat \ {0} /\ f2 <= lf /\ f2 >= 1
      /\ e1 = f1 - 1 => le = lp
  BY <1>1, <1>2 DEF Proper
<1>4. f1 >= 2 => lp \in Nat \ {0}
  <2>1. f1 >= 2 => f1 - 1 \in 1 .. n
    <3> HIDE DEF f1, n
    <3> QED BY <1>1, <1>2, <1>3
  <2> QED BY <1>2, <2>1
<1>5. LagOf(e1, e2, f1, f2, lp, k)
  BY LagIsNumeric
<1>6. CASE x.valid # 1
  <2>1. Past(f, x) = f
    BY <1>6 DEF Past
  <2>2. LagOf(e1, e2, f1, f2, lp, k + 1)
    <3> HIDE DEF e1, e2, f1, f2, n, le, lf, lp
    <3> QED BY <1>1, <1>2, <1>3, <1>4, <1>5 DEF LagOf
  <2> QED BY <2>1, <2>2, LagIsNumeric
<1>7. CASE x.valid = 1 /\ f2 = lf
  <2>1. Past(f, x) = <<f1 + 1, 1>> /\ f1 <= n
    BY <1>7 DEF Past, Succ
  <2>2. LagOf(e1, e2, f1 + 1, 1, lf, k + 1)
    <3> HIDE DEF e1, e2, f1, f2, n, le, lf, lp
    <3>1. CASE e1 = f1 /\ e2 <= f2 /\ f2 - e2 <= k
      BY <3>1, <1>1, <1>3, <1>7, <2>1 DEF LagOf
    <3>2. CASE e1 = f1 - 1 /\ f2 + lp - e2 <= k
      BY <3>2, <1>1, <1>2, <1>3, <1>4, <1>7, <2>1 DEF LagOf
    <3>3. CASE e1 <= f1 - 2 /\ f2 + lp <= k
      BY <3>3, <1>1, <1>2, <1>3, <1>4, <1>7, <2>1 DEF LagOf
    <3> QED BY <1>5, <3>1, <3>2, <3>3 DEF LagOf
  <2>3. lf = Lens[(f1 + 1) - 1]
    <3>1. (f1 + 1) - 1 = f1
      <4> HIDE DEF f1
      <4> QED BY <1>1
    <3> QED BY <3>1
  <2>4. Past(f, x)[1] = f1 + 1 /\ Past(f, x)[2] = 1
    BY <2>1
  <2> QED
    <3> HIDE DEF f1, e1, e2, lf
    <3>1. LagOf(e1, e2, Past(f, x)[1], Past(f, x)[2], Lens[Past(f, x)[1] - 1], k + 1)
      BY <2>2, <2>3, <2>4
    <3> QED BY <3>1, LagIsNumeric DEF e1, e2
<1>8. CASE x.valid = 1 /\ f2 # lf
  <2>1. Past(f, x) = <<f1, f2 + 1>> /\ f1 <= n
    BY <1>8 DEF Past, Succ
  <2>2. LagOf(e1, e2, f1, f2 + 1, lp, k + 1)
    <3> HIDE DEF e1, e2, f1, f2, n, le, lf, lp
    <3> QED BY <1>1, <1>2, <1>3, <1>4, <1>5 DEF LagOf
  <2>3. Past(f, x)[1] = f1 /\ Past(f, x)[2] = f2 + 1
    BY <2>1
  <2> QED
    <3>1. LagOf(e1, e2, Past(f, x)[1], Past(f, x)[2], Lens[Past(f, x)[1] - 1], k + 1)
      <4> HIDE DEF e1, e2, f1, f2
      <4> QED BY <2>2, <2>3 DEF lp
    <3> QED BY <3>1, LagIsNumeric
<1> QED BY <1>6, <1>7, <1>8

LEMMA UpdateEffect ==
  ASSUME TransactionsAssumption, TypeOK, Places, SignalsUpdate
  PROVE  /\ UNCHANGED <<next, mem, at, sent, fifo, remain, held, received, results>>
         /\ UNCHANGED <<readyPool, events, delayed, time, deltaCount>>
         /\ pc = "resolve" /\ pc' = "delta_end" /\ trigPool = {} /\ updatePool' = {}
         /\ DOMAIN val' = Sigs /\ \A s \in Sigs : val'[s] = Latest(s) /\ Latest(s)' = Latest(s)
         /\ \A q \in Queues : Updated[q] \in trigPool' <=> q \in updatePool
         /\ "clk.posedge" \in trigPool' => "clk" \in updatePool
         /\ \A p, s, e : Waits(p, s, e)' <=> Waits(p, s, e)
         /\ \A x : EdgeReady(x)' <=> EdgeReady(x)
<1>1. /\ UNCHANGED <<next, mem, at, sent, fifo, remain, held, received, results>>
      /\ UNCHANGED <<readyPool, events, delayed, time, deltaCount>>
      /\ pc = "resolve" /\ pc' = "delta_end" /\ trigPool = {} /\ updatePool' = {} /\ trigPool' = Triggers
      /\ val' = [s \in Sigs |-> Latest(s)]
  BY DEF SignalsUpdate, Update, subs, Latest
<1>2. \A s \in Sigs : val'[s] = Latest(s) /\ Latest(s)' = Latest(s)
  BY <1>1 DEF Latest
<1>3. (\A q \in Queues : Updated[q] \in Triggers <=> q \in updatePool)
      /\ ("clk.posedge" \in Triggers => "clk" \in updatePool)
  BY DEF Triggers, Updated, Queues
<1>4. \A p, s, e : Waits(p, s, e)' <=> Waits(p, s, e)
  BY <1>1 DEF Waits
<1>5. \A x : EdgeReady(x)' <=> EdgeReady(x)
  BY <1>1 DEF EdgeReady
<1> QED BY <1>1, <1>2, <1>3, <1>4, <1>5

LEMMA UpdatePlacesKept ==
  ASSUME TransactionsAssumption, TypeOK, WaitsMatch, Places, SignalsUpdate
  PROVE  /\ Places' /\ InPos' = InPos /\ Compared' = Compared
         /\ OnItsWay("in")' <=> OnItsWay("in")
<1>1. Shapes /\ Data /\ Served /\ Awaited /\ Seen /\ Offering
  BY DEF Places
<1>2. /\ UNCHANGED <<next, mem, at, sent, fifo, remain, held, received, results>>
      /\ UNCHANGED <<readyPool, events, delayed, time, deltaCount>>
      /\ pc = "resolve" /\ pc' = "delta_end" /\ trigPool = {} /\ updatePool' = {}
      /\ DOMAIN val' = Sigs /\ \A s \in Sigs : val'[s] = Latest(s) /\ Latest(s)' = Latest(s)
      /\ \A q \in Queues : Updated[q] \in trigPool' <=> q \in updatePool
      /\ \A p, s, e : Waits(p, s, e)' <=> Waits(p, s, e)
  BY UpdateEffect
<1>3. Popped' = Popped /\ RefsTaken' = RefsTaken /\ Refs' = Refs /\ Outs' = Outs /\ Compared' = Compared
      /\ InPos' = InPos
  BY <1>2 DEF Popped, RefsTaken, Refs, Outs, Compared, InPos
<1>4. \A s \in Queues \cup {"clk", "bus", "ready", "pipe"} : s \in Sigs
  BY DEF TransactionsAssumption
<1>5. Shapes'
  <2>1. \A s \in Sigs : val'[s] = next[s] \/ val'[s] = val[s]
    BY <1>2 DEF Latest
  <2> QED BY <1>1, <1>2, <1>4, <2>1 DEF Shapes
<1>6. Data'
  <2>1. Latest("in")' = Latest("in") /\ Latest("ref")' = Latest("ref") /\ Latest("dut")' = Latest("dut")
        /\ val'["ref"] = Latest("ref")
    BY <1>2, <1>4 DEF Queues
  <2>2. "ref" \notin updatePool => val'["ref"] = val["ref"]
    BY <2>1 DEF Latest
  <2> QED BY <1>1, <1>2, <1>3, <2>1, <2>2 DEF Data, Items
<1>7. \A q \in Queues : OnItsWay(q)' <=> OnItsWay(q)
  BY <1>2 DEF OnItsWay
<1>8. Updated["in"] = "in.updated" /\ Updated["ref"] = "ref.updated" /\ Updated["dut"] = "dut.updated"
      /\ {"in", "ref", "dut"} = Queues
  BY DEF Updated, Queues
<1>9. Served'
  <2>1. /\ Due("compare", "ref.enqueued") => Due("compare", "ref.enqueued")'
        /\ Due("compare", "dut.enqueued") => Due("compare", "dut.enqueued")'
        /\ "ref" \in updatePool \/ Due("compare", "ref.updated") => Due("compare", "ref.updated")'
        /\ "dut" \in updatePool \/ Due("compare", "dut.updated") => Due("compare", "dut.updated")'
        /\ "in" \in updatePool \/ Due("acquire", "in.updated") => Due("acquire", "in.updated")'
        /\ "ref" \in updatePool \/ Due("passive", "ref.updated") => Due("passive", "ref.updated")'
    BY <1>2, <1>8 DEF Due
  <2> QED BY <1>1, <1>2, <2>1 DEF Served
<1>10. Awaited'
  <2>1. "in.updated" \in trigPool' => at["passive"] = "watch"
    <3>1. SUFFICES ASSUME "in.updated" \in trigPool' PROVE at["passive"] = "watch"
      OBVIOUS
    <3>2. OnItsWay("in")
      BY <1>2, <1>8, <3>1 DEF OnItsWay
    <3>3. ~Unstarted("passive")
      BY <1>2 DEF WaitsMatch, Begun, TransactionsAssumption
    <3> QED BY <1>1, <3>2, <3>3 DEF Awaited, WaitsMatch, PassiveWaits, Waits
  <2> QED BY <1>1, <1>2, <1>7, <1>8, <2>1 DEF Awaited
<1>11. Seen'
  <2>1. Busy' <=> Busy
    BY <1>2, <1>7, <1>8 DEF Busy
  <2> QED BY <1>1, <1>2, <1>3, <2>1 DEF Seen
<1>12. Offering'
  <2>1. val'["bus"] = Latest("bus") /\ Latest("bus")' = Latest("bus")
    BY <1>2, <1>4
  <2>2. \A j : RestFrom(j)' = RestFrom(j)
    BY <1>3 DEF RestFrom
  <2>3. at["acquire"] = "popped" => fifo = <<>>
    BY <1>1 DEF Offering, Waits
  <2>4. "last_data_event" \notin trigPool'
    BY UpdateEffect DEF SignalsUpdate, Update, Triggers, Updated, Queues
  <2> QED BY <1>1, <1>2, <1>3, <2>1, <2>2, <2>3, <2>4 DEF Offering
<1> QED BY <1>3, <1>5, <1>6, <1>7, <1>8, <1>9, <1>10, <1>11, <1>12 DEF Places

\* What is on the bus from now on is the item that send hands over next.
LEMMA BusIsNext ==
  ASSUME TransactionsAssumption, Places, Latest("bus").valid = 1
  PROVE  Latest("bus") = Offer(InPos) /\ InPos[1] <= Len(Lens)
<1>1. Shapes /\ Data /\ Offering
  BY DEF Places
<1>2. fifo # <<>> /\ Popped >= 1 /\ Latest("bus") = Head(fifo)
  BY <1>1 DEF Offering
<1>3. PICK j \in 1 .. Lens[Popped] : fifo = RestFrom(j)
  BY <1>1, <1>2 DEF Offering
<1>4. Popped \in 1 .. Len(Lens)
  BY <1>1, <1>2, Counts
<1>5. Head(fifo) = Offer(<<Popped, j>>)
  BY <1>3, <1>4, RestOfBurst
<1>6. InPos = <<Popped, j>>
  BY <1>2, <1>5 DEF InPos, Offer
<1> QED BY <1>2, <1>4, <1>5, <1>6

\* The edge that the design has dealt with moves every item by one place.
LEMMA UpdateShifts ==
  ASSUME TransactionsAssumption, TypeOK, WaitsMatch, Timing, Places, Streaming, SignalsUpdate,
         "pipe" \in updatePool
  PROVE  Streaming' /\ ~EdgeAhead'
<1>1. /\ UNCHANGED <<next, mem, at, sent, fifo, remain, held, received, results>>
      /\ UNCHANGED <<readyPool, events, delayed, time, deltaCount>>
      /\ pc = "resolve" /\ pc' = "delta_end" /\ trigPool = {} /\ updatePool' = {}
      /\ \A s \in Sigs : val'[s] = Latest(s)
      /\ "clk.posedge" \in trigPool' => "clk" \in updatePool
      /\ \A x : EdgeReady(x)' <=> EdgeReady(x)
  BY UpdateEffect
<1>2. deltaCount = 2 /\ \A x \in Clocks : ~EdgeReady(x)
  BY <1>1 DEF Timing, ClockedTiming, EdgeTiming
<1>3. ~EdgeAhead' /\ ~Opened'
  <2>1. "clk" \notin readyPool /\ "clk" \notin updatePool
    BY <1>1, <1>2 DEF Timing, EdgeTiming
  <2> QED BY <1>1, <1>2, <2>1 DEF EdgeAhead, Opened, Clocks
<1>4. Ran("send") /\ Ran("recv") /\ ~Ran("send")' /\ ~Ran("recv")'
  <2>1. \A x \in Clocks : x \notin readyPool
    <3>1. \A x \in Clocks : at[x] = "clocked"
      BY <1>1 DEF WaitsMatch, Begun, ClockedWaits, Waits, Clocks, TransactionsAssumption
    <3> QED BY <1>2, <3>1 DEF EdgeReady
  <2> QED BY <1>3, <2>1 DEF Ran, Opened, Clocks
<1>5. PICK E \in [0 .. Latency -> ItemIds] : Stream(E)
  BY DEF Streaming
<1>6. InPos = Past(E[0], Input) /\ OutPos = Past(E[Latency], Output)
  BY <1>4, <1>5 DEF Stream
<1>7. Latency \in Nat /\ {"bus", "pipe", "ready"} \subseteq Sigs /\ 0 \in 0 .. Latency
  BY DEF TransactionsAssumption
<1>8. val'["pipe"] = Shifted /\ val'["bus"] = Latest("bus")
  BY <1>1, <1>7 DEF Latest, Streaming
<1>9. Carries(E[0], InPos, Input)
  BY <1>5, <1>6 DEF Carries, Input, NoItem, Stream
<1>10. InPos \in ItemIds /\ Proper(InPos)
  BY <1>5, <1>6, <1>7, <1>9, PastIsProper DEF Carries, Stream
<1> DEFINE F == [k \in 0 .. Latency |-> IF k = 0 THEN InPos ELSE E[k - 1]]
<1>11. F \in [0 .. Latency -> ItemIds] /\ F[0] = InPos
  BY <1>7, <1>10
<1>12. ASSUME NEW k \in 1 .. Latency
       PROVE  k - 1 \in 0 .. Latency /\ F[k] = E[k - 1] /\ k \in Nat /\ k # 0 /\ k - 1 \in Nat
  BY <1>7
<1>13. ASSUME NEW k \in 0 .. Latency PROVE Proper(F[k]) /\ Lag(F[k], F[0], k)
  <2>1. CASE k = 0
    <3>1. InPos[1] \in Nat /\ InPos[2] \in Nat
      BY <1>10 DEF ItemIds
    <3> QED BY <1>10, <1>11, <2>1, <3>1 DEF Lag
  <2>2. CASE k # 0
    <3>1. k \in 1 .. Latency
      BY <2>2
    <3>2. k - 1 \in 0 .. Latency /\ F[k] = E[k - 1] /\ k - 1 \in Nat /\ k \in Nat
      BY <1>12, <3>1
    <3> HIDE DEF F
    <3>3. Proper(E[k - 1]) /\ Lag(E[k - 1], E[0], k - 1) /\ Proper(E[0])
          /\ E[k - 1] \in ItemIds /\ E[0] \in ItemIds
      BY <1>5, <1>7, <3>2 DEF Stream
    <3>4. Lag(E[k - 1], Past(E[0], Input), (k - 1) + 1)
      BY <1>9, <3>2, <3>3, LagGrows DEF Carries
    <3>5. (k - 1) + 1 = k
      BY <3>2
    <3> QED BY <1>6, <1>11, <3>2, <3>3, <3>4, <3>5
  <2> QED BY <2>1, <2>2
<1>14. ASSUME NEW k \in 1 .. Latency PROVE Carries(F[k], F[k - 1], Shifted[k])
  <2>1. CASE k = 1
    BY <1>9, <1>11, <1>12, <2>1 DEF Shifted
  <2>2. CASE k # 1
    <3>1. k - 1 \in 1 .. Latency
      BY <1>7, <2>2
    <3>2. F[k] = E[k - 1] /\ F[k - 1] = E[(k - 1) - 1]
      BY <1>12, <3>1
    <3>3. Shifted[k] = val["pipe"][k - 1]
      BY <2>2 DEF Shifted
    <3>4. Carries(E[k - 1], E[(k - 1) - 1], val["pipe"][k - 1])
      BY <1>5, <3>1 DEF Stream
    <3> QED BY <3>2, <3>3, <3>4
  <2> QED BY <2>1, <2>2
<1>15. F[Latency] = OutPos
  <2>1. CASE Latency = 0
    BY <1>6, <1>11, <2>1 DEF Output
  <2>2. CASE Latency # 0
    <3>1. Latency \in 1 .. Latency
      BY <1>7, <2>2
    <3>2. Carries(E[Latency], E[Latency - 1], val["pipe"][Latency])
      BY <1>5, <3>1 DEF Stream
    <3> QED BY <1>6, <1>12, <2>2, <3>1, <3>2 DEF Carries, Output
  <2> QED BY <2>1, <2>2
<1>16. val'["bus"].valid = 1 => val'["bus"] = Offer(InPos) /\ InPos[1] <= Len(Lens)
  BY <1>8, BusIsNext
<1>17. InPos' = InPos /\ OutPos' = OutPos
  BY <1>1 DEF InPos, OutPos, Popped
<1>18. PICK G \in [0 .. Latency -> ItemIds] : G = F
  BY <1>11
<1> HIDE DEF F
<1>19. Stream(G)'
  BY <1>3, <1>4, <1>8, <1>11, <1>13, <1>14, <1>15, <1>16, <1>17, <1>18 DEF Stream
<1>20. "pipe" \notin updatePool' /\ \A x \in Clocks : ~EdgeReady(x)'
  BY <1>1, <1>2
<1> QED BY <1>3, <1>19, <1>20 DEF Streaming

LEMMA UpdateStays ==
  ASSUME TransactionsAssumption, TypeOK, WaitsMatch, Timing, Places, Streaming, SignalsUpdate,
         "pipe" \notin updatePool
  PROVE  Streaming' /\ (EdgeAhead' => EdgeAhead)
<1>1. /\ UNCHANGED <<next, mem, at, sent, fifo, remain, held, received, results>>
      /\ UNCHANGED <<readyPool, events, delayed, time, deltaCount>>
      /\ pc = "resolve" /\ pc' = "delta_end" /\ trigPool = {} /\ updatePool' = {}
      /\ \A s \in Sigs : val'[s] = Latest(s)
      /\ "clk.posedge" \in trigPool' => "clk" \in updatePool
      /\ \A x : EdgeReady(x)' <=> EdgeReady(x)
  BY UpdateEffect
<1>2. EdgeAhead' => EdgeAhead
  BY <1>1 DEF EdgeAhead
<1>3. (Opened' <=> Opened) /\ (Ran("send")' <=> Ran("send")) /\ (Ran("recv")' <=> Ran("recv"))
  BY <1>1 DEF Opened, Ran
<1>4. {"bus", "pipe", "ready"} \subseteq Sigs
  BY DEF TransactionsAssumption
<1>5. val'["pipe"] = val["pipe"] /\ val'["bus"] = Latest("bus")
  BY <1>1, <1>4 DEF Latest
<1>6. Opened => val'["bus"] = val["bus"] /\ val'["ready"] = val["ready"]
  <2>1. SUFFICES ASSUME Opened PROVE "bus" \notin updatePool /\ "ready" \notin updatePool
    BY <1>1, <1>4 DEF Latest
  <2>2. deltaCount = 1 /\ time > 0 /\ time \in Nat
    BY <1>1, <2>1 DEF Opened, Timing, EdgeTiming, Clocks, TypeOK
  <2> QED BY <1>1, <2>2 DEF Timing, ClockedTiming, Late
<1>7. Opened => Input' = Input /\ Output' = Output
  BY <1>5, <1>6 DEF Input, Output
<1>8. PICK E \in [0 .. Latency -> ItemIds] : Stream(E)
  BY DEF Streaming
<1>9. val'["bus"].valid = 1 => val'["bus"] = Offer(E[0]) /\ E[0][1] <= Len(Lens)
  <2>1. CASE Opened
    BY <1>6, <1>8, <2>1 DEF Stream
  <2>2. CASE ~Opened
    <3>1. InPos = E[0]
      BY <1>8, <2>2 DEF Stream, Ran
    <3> QED BY <1>5, <3>1, BusIsNext
  <2> QED BY <2>1, <2>2
<1>10. InPos' = InPos /\ OutPos' = OutPos /\ Compared' = Compared
  BY <1>1 DEF InPos, OutPos, Popped, Compared
<1>11. Stream(E)'
  <2>1. InPos = IF Ran("send") THEN Past(E[0], Input') ELSE E[0]
    BY <1>7, <1>8 DEF Stream, Ran
  <2>2. OutPos = IF Ran("recv") THEN Past(E[Latency], Output') ELSE E[Latency]
    BY <1>7, <1>8 DEF Stream, Ran
  <2>3. pc' # "finished" /\ EdgeAhead' => E[Latency][1] = Compared + 1
    BY <1>1, <1>2, <1>8 DEF Stream
  <2> QED BY <1>1, <1>3, <1>5, <1>8, <1>9, <1>10, <2>1, <2>2, <2>3 DEF Stream
<1>12. "pipe" \notin updatePool' /\ \A x \in Clocks : EdgeReady(x)' => Opened'
  BY <1>1, <1>3 DEF Streaming
<1> QED BY <1>2, <1>11, <1>12 DEF Streaming

LEMMA UpdatePlaces ==
  ASSUME TransactionsAssumption, TypeOK, WaitsMatch, Timing, Places, Streaming, Calm, SignalsUpdate
  PROVE  Places' /\ Streaming' /\ Calm'
<1>1. Places' /\ (OnItsWay("in")' <=> OnItsWay("in"))
  BY UpdatePlacesKept
<1>2. Streaming' /\ (EdgeAhead' => EdgeAhead)
  BY UpdateShifts, UpdateStays
<1>3. /\ UNCHANGED <<mem, at, fifo>> /\ pc # "finished"
      /\ \A p, s, e : Waits(p, s, e)' <=> Waits(p, s, e)
  BY UpdateEffect
<1> QED BY <1>1, <1>2, <1>3, CalmKept

-----------------------------------------------------------------------------
(* The steps of the kernel *)

LEMMA QuietFrame ==
  ASSUME TransactionsAssumption, KernelKept, WaitsMatch, QuietStep
  PROVE  /\ UNCHANGED <<val, next, mem, at, sent, fifo, remain, held, received, results>>
         /\ UNCHANGED <<events, delayed, updatePool>>
         /\ readyPool \subseteq readyPool' /\ trigPool' \subseteq trigPool
         /\ \A p, s, e : Waits(p, s, e)' <=> Waits(p, s, e)
         /\ \A s : Latest(s)' = Latest(s)
         /\ \A s : \A p \in Procs, e \in Events : Waits(p, s, e) /\ trigPool # {} =>
              /\ p \in readyPool' \ readyPool => Woke(p, e)
              /\ e \in trigPool => e \in trigPool' \/ p \in readyPool'
<1>1. /\ UNCHANGED <<val, next, mem, at, sent, fifo, remain, held, received, results>>
      /\ UNCHANGED <<events, delayed, updatePool>>
      /\ readyPool \subseteq readyPool' /\ trigPool' \subseteq trigPool
      /\ pc # "elaborate" =>
           \A q \in Procs : q \notin delayed => \A f \in Events : events[q] = {f} => Resolved(q, f)
  BY QuietStepEffect DEF WaitsMatch, bvars
<1>2. \A p, s, e : Waits(p, s, e)' <=> Waits(p, s, e)
  BY <1>1 DEF Waits
<1>3. \A s : Latest(s)' = Latest(s)
  BY <1>1 DEF Latest
<1>4. trigPool # {} => pc # "elaborate"
  BY DEF WaitsMatch, Elaborating
<1>5. ASSUME NEW p \in Procs, NEW s, NEW e \in Events, Waits(p, s, e), trigPool # {}
      PROVE  /\ p \in readyPool' \ readyPool => Woke(p, e)
             /\ e \in trigPool => e \in trigPool' \/ p \in readyPool'
  BY <1>1, <1>4, <1>5 DEF Waits, Woke, Resolved
<1> QED BY <1>1, <1>2, <1>3, <1>5

LEMMA QuietServed ==
  ASSUME TransactionsAssumption, KernelKept, WaitsMatch, Served, QuietStep
  PROVE  Served'
<1>1. /\ UNCHANGED <<mem, at, updatePool>> /\ readyPool \subseteq readyPool'
      /\ \A p, s, e : Waits(p, s, e)' <=> Waits(p, s, e)
      /\ \A s : \A p \in Procs, e \in Events : Waits(p, s, e) /\ e \in trigPool => e \in trigPool' \/ p \in readyPool'
  BY QuietFrame
<1>2. \A s : \A p \in Procs, e \in Events : Waits(p, s, e) /\ Due(p, e) => Due(p, e)'
  BY <1>1 DEF Due
<1>3. "compare" \in Procs /\ "acquire" \in Procs /\ "passive" \in Procs
      /\ {"ref.enqueued", "dut.enqueued", "ref.updated", "dut.updated", "in.updated"} \subseteq Events
  BY DEF TransactionsAssumption
<1>4. at["acquire"] = "popped" => Waits("acquire", "popped", "in.updated")
  BY DEF WaitsMatch, AcquireWaits, Unstarted, Waits
<1>5. at["passive"] = "push" => Waits("passive", "push", "ref.updated")
  BY DEF WaitsMatch, PassiveWaits, Unstarted, Waits
<1> QED BY <1>1, <1>2, <1>3, <1>4, <1>5 DEF Served

LEMMA QuietAwaited ==
  ASSUME TransactionsAssumption, KernelKept, WaitsMatch, Awaited, QuietStep
  PROVE  Awaited' /\ (Busy' <=> Busy) /\ (OnItsWay("in")' => OnItsWay("in"))
<1>1. /\ UNCHANGED <<mem, at, updatePool>> /\ readyPool \subseteq readyPool' /\ trigPool' \subseteq trigPool
      /\ \A p, s, e : Waits(p, s, e)' <=> Waits(p, s, e)
      /\ \A s : \A p \in Procs, e \in Events : Waits(p, s, e) /\ trigPool # {} =>
              /\ p \in readyPool' \ readyPool => Woke(p, e)
              /\ e \in trigPool => e \in trigPool' \/ p \in readyPool'
  BY QuietFrame
<1>2. Updated["in"] = "in.updated" /\ Updated["ref"] = "ref.updated" /\ Updated["dut"] = "dut.updated"
      /\ {"in", "ref", "dut"} = Queues
  BY DEF Updated, Queues
<1>3. "compare" \in Procs /\ "acquire" \in Procs /\ "passive" \in Procs
      /\ {"ref.enqueued", "dut.enqueued", "ref.updated", "dut.updated", "in.updated"} \subseteq Events
  BY DEF TransactionsAssumption
<1>4. at["acquire"] = "popped" => Waits("acquire", "popped", "in.updated")
  BY DEF WaitsMatch, AcquireWaits, Unstarted, Waits
<1>5. at["passive"] = "watch" => Waits("passive", "watch", "in.updated")
  BY DEF WaitsMatch, PassiveWaits, Unstarted, Waits
<1>6. ASSUME NEW q \in Queues, OnItsWay(q)' PROVE OnItsWay(q)
  BY <1>1, <1>6 DEF OnItsWay
<1>7. ASSUME NEW q \in Queues, OnItsWay(q)', NEW p \in Procs, NEW s, Waits(p, s, Updated[q]), p \notin readyPool
      PROVE  p \notin readyPool'
  <2>1. Updated[q] \in Events
    BY <1>2, <1>3
  <2>2. CASE trigPool = {}
    \* A process is made ready by the kernel alone: before the simulation, or by its delay.
    <3>1. q \in updatePool
      BY <1>1, <1>7, <2>2 DEF OnItsWay
    <3>2. pc # "elaborate"
      BY <3>1 DEF WaitsMatch, Elaborating
    <3>3. Resolved(p, Updated[q])
      BY <1>7, <2>1, <3>2, QuietStepEffect DEF WaitsMatch, Waits
    <3> QED BY <1>7, <2>2, <3>3 DEF Resolved
  <2>3. CASE trigPool # {}
    <3>1. p \in readyPool' => Updated[q] \in trigPool /\ Updated[q] \notin trigPool'
      BY <1>1, <1>7, <2>1, <2>3 DEF Woke
    <3>2. p \in readyPool' => q \in updatePool
      BY <1>1, <1>7, <3>1 DEF OnItsWay
    <3> QED BY <3>1, <3>2 DEF Awaited
  <2> QED BY <2>2, <2>3
<1>8. Awaited'
  <2>1. OnItsWay("ref")' => Waits("compare", "ref", "ref.updated")' /\ "compare" \notin readyPool'
    BY <1>1, <1>2, <1>3, <1>6, <1>7 DEF Awaited
  <2>2. OnItsWay("dut")' => Waits("compare", "dut", "dut.updated")' /\ "compare" \notin readyPool'
    BY <1>1, <1>2, <1>3, <1>6, <1>7 DEF Awaited
  <2>3. OnItsWay("in")' => /\ at'["acquire"] = "popped" /\ "acquire" \notin readyPool'
                           /\ at'["passive"] # "push" /\ (at'["passive"] = "watch" => "passive" \notin readyPool')
    BY <1>1, <1>2, <1>3, <1>4, <1>5, <1>6, <1>7 DEF Awaited
  <2>4. \A q \in Queues : ~(q \in updatePool' /\ Updated[q] \in trigPool')
    BY <1>1 DEF Awaited
  <2>5. "in.updated" \in trigPool' => at'["passive"] = "watch"
    BY <1>1 DEF Awaited
  <2> QED BY <2>1, <2>2, <2>3, <2>4, <2>5 DEF Awaited
<1>9. Busy => Busy'
  <2>1. CASE OnItsWay("in") /\ ~OnItsWay("in")'
    <3>1. "in.updated" \in trigPool /\ "in.updated" \notin trigPool'
      BY <1>1, <1>2, <2>1 DEF OnItsWay
    <3>2. at["passive"] = "watch" /\ "passive" \in readyPool'
      BY <1>1, <1>3, <1>5, <3>1 DEF Awaited
    <3> QED BY <1>1, <3>2 DEF Busy
  <2> QED BY <1>1, <2>1 DEF Busy
<1>10. Busy' => Busy
  <2>1. CASE OnItsWay("in")'
    BY <1>2, <1>6, <2>1 DEF Busy
  <2>2. CASE at["passive"] = "watch" /\ "passive" \in readyPool' \ readyPool
    <3>1. pc # "elaborate"
      BY <2>2 DEF WaitsMatch, Elaborating, TransactionsAssumption
    <3>2. Resolved("passive", "in.updated")
      BY <1>3, <1>5, <2>2, <3>1, QuietStepEffect DEF WaitsMatch, Waits
    <3> QED BY <1>2, <2>2, <3>2 DEF Busy, OnItsWay, Resolved
  <2> QED BY <1>1, <2>1, <2>2 DEF Busy
<1> QED BY <1>2, <1>6, <1>8, <1>9, <1>10

LEMMA QuietPlacesKept ==
  ASSUME TransactionsAssumption, KernelKept, WaitsMatch, Places, QuietStep
  PROVE  Places'
<1>1. Shapes /\ Data /\ Served /\ Awaited /\ Seen /\ Offering
  BY DEF Places
<1>2. /\ UNCHANGED <<val, next, mem, at, sent, fifo, remain, held, received, results>>
      /\ UNCHANGED <<events, delayed, updatePool>>
      /\ readyPool \subseteq readyPool' /\ trigPool' \subseteq trigPool
      /\ \A p, s, e : Waits(p, s, e)' <=> Waits(p, s, e)
      /\ \A s : Latest(s)' = Latest(s)
  BY QuietFrame
<1>3. Popped' = Popped /\ RefsTaken' = RefsTaken /\ Refs' = Refs /\ Outs' = Outs /\ Compared' = Compared
      /\ \A j : RestFrom(j)' = RestFrom(j)
  BY <1>2 DEF Popped, RefsTaken, Refs, Outs, Compared, RestFrom
<1>4. Shapes'
  BY <1>1, <1>2 DEF Shapes
<1>5. Data'
  BY <1>1, <1>2, <1>3 DEF Data, Items
<1>6. Served' /\ Awaited' /\ (Busy' <=> Busy)
  BY <1>1, QuietServed, QuietAwaited
<1>7. Seen'
  BY <1>1, <1>2, <1>3, <1>6 DEF Seen
<1>8. Offering'
  <2>1. ASSUME fifo # <<>>
        PROVE  /\ Waits("acquire", "sent", "last_data_event")'
               /\ "acquire" \notin readyPool' /\ "last_data_event" \notin trigPool'
    <3>1. /\ Waits("acquire", "sent", "last_data_event")
          /\ "acquire" \notin readyPool /\ "last_data_event" \notin trigPool
      BY <1>1, <2>1 DEF Offering
    <3>2. "acquire" \in Procs /\ "last_data_event" \in Events
      BY DEF TransactionsAssumption
    <3>3. pc # "elaborate"
      BY <3>1, <3>2 DEF WaitsMatch, Elaborating, Waits
    <3>4. Resolved("acquire", "last_data_event")
      BY <3>1, <3>2, <3>3, QuietStepEffect DEF WaitsMatch, Waits
    <3> QED BY <1>2, <3>1, <3>4 DEF Resolved
  <2>2. ASSUME fifo = <<>>, val["bus"].valid = 1
        PROVE  at["acquire"] = "sent" /\ pc' \in {"evaluate", "resolve"} /\ ("acquire" \in readyPool' => pc' = "resolve")
    <3>1. at["acquire"] = "sent" /\ pc \in {"evaluate", "resolve"} /\ ("acquire" \in readyPool => pc = "resolve")
      BY <1>1, <2>2 DEF Offering
    <3>2. pc' \in {"evaluate", "resolve"} /\ (pc = "resolve" => pc' = "resolve")
      BY <3>1 DEF QuietStep, KernelStep, Run, TimestepStart, DeltaStart, EvaluateDone, Resolve,
              DeltaLimit, AdvanceTime, NothingScheduled, ProcReg, DeltaEnd, Terminated, Stopped, allvars, vars
    <3>3. "acquire" \in readyPool' \ readyPool => pc' = "resolve"
      BY <3>1, QuietWakes DEF Woke
    <3> QED BY <3>1, <3>2, <3>3
  <2>3. fifo # <<>> => Popped >= 1 /\ (\E j \in 1 .. Lens[Popped] : fifo = RestFrom(j)) /\ Latest("bus") = Head(fifo)
    BY <1>1 DEF Offering
  <2>4. (fifo = <<>> => Latest("bus").valid = 0) /\ (at["acquire"] = "popped" => val["bus"].valid = 0)
    BY <1>1 DEF Offering
  <2> QED BY <1>2, <1>3, <2>1, <2>2, <2>3, <2>4 DEF Offering
<1> QED BY <1>4, <1>5, <1>6, <1>7, <1>8 DEF Places

\* Nothing is left to do in this time step.
Settled == readyPool = {} /\ trigPool = {} /\ updatePool = {} /\ pc \notin {"elaborate", "finished"}

LEMMA LoopSettled ==
  ASSUME KernelKept, pc = "loop", ~Pending
  PROVE  Settled
BY DEF KernelKept, KernelInv, WritesSettle, Pending, Settled

\* Each transaction that has come out of the design has been compared with its reference.
LEMMA AllComparedWhenSettled ==
  ASSUME TransactionsAssumption, WaitsMatch, Places, Streaming, Settled
  PROVE  /\ Len(received) = Compared
         /\ (at["compare"] = "start" /\ mem["ref"] = <<>>) \/ Waits("compare", "ref", "dut.enqueued")
         /\ at["passive"] = "push" => mem["ref"] # <<>>
         /\ ~OnItsWay("in")
         /\ \A E \in [0 .. Latency -> ItemIds] : Stream(E) => E[Latency][1] = Compared + 1
<1>1. Shapes /\ Data /\ Served /\ Seen
  BY DEF Places
<1>2. \A p, e : ~Due(p, e)
  BY DEF Settled, Due
<1>3. \A q : ~OnItsWay(q)
  BY DEF Settled, OnItsWay
<1>4. at["passive"] = "push" => mem["ref"] # <<>>
  BY <1>1, <1>2 DEF Served, Settled
<1>5. \/ Waits("compare", "start", "ref.enqueued") /\ mem["ref"] = <<>>
      \/ Waits("compare", "ref", "dut.enqueued") /\ mem["dut"] = <<>>
  <2>1. ~Unstarted("compare")
    BY DEF Settled, Unstarted
  <2> QED BY <1>1, <1>2, <2>1 DEF WaitsMatch, CompareWaits, Served, Settled
<1>6. ~Opened
  BY DEF Settled, Opened, EdgeReady
<1>7. /\ Popped \in 0 .. Len(Lens) /\ Compared \in Nat /\ Refs = RefsTaken + (IF mem["ref"] = <<>> THEN 0 ELSE 1)
      /\ Outs = Compared + (IF at["compare"] = "dut" THEN 1 ELSE 0) + (IF mem["dut"] = <<>> THEN 0 ELSE 1)
  BY <1>1, Counts
<1>8. Len(received) = Outs
  BY <1>1 DEF Data
<1>9. ASSUME NEW E \in [0 .. Latency -> ItemIds], Stream(E)
      PROVE  E[Latency][1] = Len(received) + 1 /\ E[Latency][1] <= InPos[1]
  <2>1. Latency \in Nat /\ 0 \in 0 .. Latency /\ Latency \in 0 .. Latency
    BY DEF TransactionsAssumption
  <2>2. OutPos = E[Latency] /\ InPos = E[0] /\ Lag(E[Latency], E[0], Latency)
    BY <1>6, <1>9, <2>1 DEF Stream, Ran
  <2>3. E[Latency][1] \in Nat /\ E[0][1] \in Nat
    BY <2>1 DEF ItemIds
  <2>4. E[Latency][1] = Len(received) + 1
    BY <2>2 DEF OutPos
  <2>5. E[Latency][1] <= E[0][1]
    BY <2>2, <2>3 DEF Lag
  <2> QED BY <2>2, <2>4, <2>5
<1>10. InPos[1] <= Popped + 1
  <2>1. Popped \in Nat /\ Len(Lens) \in Nat
    BY <1>7, LensProper
  <2>2. CASE fifo = <<>>
    BY <2>1, <2>2 DEF InPos
  <2>3. CASE fifo # <<>>
    <3>1. PICK j \in 1 .. Lens[Popped] : fifo = RestFrom(j)
      BY <2>3 DEF Places, Offering
    <3>2. Popped \in 1 .. Len(Lens)
      BY <1>7, <2>3 DEF Places, Offering
    <3>3. Head(fifo) = Offer(<<Popped, j>>)
      BY <3>1, <3>2, RestOfBurst
    <3> QED BY <2>1, <2>3, <3>3 DEF InPos, Offer
  <2> QED BY <2>2, <2>3
<1>11. Len(received) = Compared
  <2>1. CASE Waits("compare", "ref", "dut.enqueued") /\ mem["dut"] = <<>>
    BY <1>7, <1>8, <2>1 DEF Waits
  <2>2. CASE Waits("compare", "start", "ref.enqueued") /\ mem["ref"] = <<>>
    <3>1. ~Busy
      BY <1>3, <1>4, <2>2 DEF Busy, Settled
    <3>2. Popped = Compared
      BY <1>1, <1>7, <2>2, <3>1 DEF Seen, RefsTaken, Waits
    <3>3. PICK E \in [0 .. Latency -> ItemIds] : Stream(E)
      BY DEF Streaming
    <3>4. Len(received) + 1 <= Compared + 1
      <4>1. E[Latency][1] = Len(received) + 1 /\ E[Latency][1] <= InPos[1]
        BY <1>9, <3>3
      <4>2. InPos[1] <= Compared + 1
        BY <1>10, <3>2
      <4>3. InPos[1] \in Nat /\ Len(received) \in Nat
        <5>1. InPos = E[0] /\ 0 \in 0 .. Latency
          BY <1>6, <3>3 DEF Stream, Ran, TransactionsAssumption
        <5>2. E[0] \in ItemIds
          BY <3>3, <5>1
        <5>3. InPos[1] \in Nat
          BY <5>1, <5>2 DEF ItemIds
        <5> QED BY <1>1, <5>3 DEF Shapes
      <4> QED BY <1>7, <4>1, <4>2, <4>3
    <3>5. Len(received) = Compared + (IF mem["dut"] = <<>> THEN 0 ELSE 1)
      BY <1>7, <1>8, <2>2 DEF Waits
    <3> QED BY <1>7, <3>4, <3>5
  <2> QED BY <1>5, <2>1, <2>2
<1> QED BY <1>3, <1>4, <1>5, <1>9, <1>11 DEF Waits

\* The edge comes: the processes that are sensitive to it are made ready together.
LEMMA QuietEdge ==
  ASSUME TransactionsAssumption, KernelKept, WaitsMatch, Timing, Streaming, QuietStep,
         NEW y \in Clocks, Woke(y, "clk.posedge")
  PROVE  Streaming' /\ (EdgeAhead' => EdgeAhead)
<1>1. /\ UNCHANGED <<val, next, mem, at, sent, fifo, remain, held, received, results>>
      /\ UNCHANGED <<events, delayed, updatePool>>
      /\ readyPool \subseteq readyPool' /\ trigPool' \subseteq trigPool
  BY QuietFrame
<1>2. pc = "resolve" /\ pc' = "resolve" /\ "clk.posedge" \in trigPool /\ "clk.posedge" \notin trigPool'
  BY DEF Woke
<1>3. EdgeAhead
  BY <1>2 DEF EdgeAhead
<1>4. deltaCount = 1 /\ \A x \in Clocks : ~EdgeReady(x)
  BY <1>2 DEF Timing, EdgeTiming
<1>5. ~Opened
  BY <1>2, <1>4 DEF Opened, Clocks, Timing, ClockedTiming
<1>6. \A x \in Clocks : EdgeReady(x)'
  <2>1. Clocks \subseteq Procs /\ "clk.posedge" \in Events
    BY DEF Clocks, TransactionsAssumption
  <2>2. \A x \in Clocks : Waits(x, "clocked", "clk.posedge")
    BY <1>2, <2>1 DEF WaitsMatch, Begun, ClockedWaits
  <2>3. \A x \in Clocks : x \in readyPool'
    BY <1>2, <2>1, <2>2, QuietFrame
  <2> QED BY <1>1, <2>2, <2>3 DEF EdgeReady, Waits
<1>7. Opened' /\ ~Ran("send") /\ ~Ran("recv") /\ ~Ran("send")' /\ ~Ran("recv")'
  BY <1>5, <1>6 DEF Ran, Opened, EdgeReady, Clocks
<1>8. PICK E \in [0 .. Latency -> ItemIds] : Stream(E)
  BY DEF Streaming
<1>9. InPos' = InPos /\ OutPos' = OutPos /\ Compared' = Compared /\ Shifted' = Shifted
  BY <1>1 DEF InPos, OutPos, Popped, Compared, Shifted, Input
<1>10. Stream(E)'
  BY <1>1, <1>2, <1>3, <1>7, <1>8, <1>9 DEF Stream
<1>11. "pipe" \in updatePool' => next'["pipe"] = Shifted'
  BY <1>1, <1>9 DEF Streaming
<1> QED BY <1>3, <1>7, <1>10, <1>11 DEF Streaming

\* Time moves on: the clock may be the next to run.
LEMMA QuietAdvance ==
  ASSUME TransactionsAssumption, KernelKept, WaitsMatch, Places, Streaming, QuietStep,
         pc = "loop", ~Pending
  PROVE  Streaming' /\ Calm'
<1>1. /\ UNCHANGED <<val, next, mem, at, sent, fifo, remain, held, received, results>>
      /\ UNCHANGED <<events, delayed, updatePool>>
      /\ readyPool \subseteq readyPool' /\ trigPool' \subseteq trigPool
      /\ \A p, s, e : Waits(p, s, e)' <=> Waits(p, s, e)
  BY QuietFrame
<1>2. Settled
  BY LoopSettled
<1>3. /\ (at["compare"] = "start" /\ mem["ref"] = <<>>) \/ Waits("compare", "ref", "dut.enqueued")
      /\ at["passive"] = "push" => mem["ref"] # <<>>
      /\ \A E \in [0 .. Latency -> ItemIds] : Stream(E) => E[Latency][1] = Compared + 1
  BY <1>2, AllComparedWhenSettled
<1>4. ~OnItsWay("in")'
  BY <1>1, <1>2 DEF Settled, OnItsWay
<1>5. Calm'
  BY <1>1, <1>3, <1>4 DEF Calm
<1>6. \A x \in Clocks : ~EdgeReady(x) /\ ~EdgeReady(x)'
  <2>1. \A x \in Clocks : ~EdgeReady(x)
    BY <1>2 DEF Settled, EdgeReady
  <2> QED BY <1>2, <2>1, QuietWakes DEF Settled, Woke
<1>7. ~Opened /\ ~Opened'
  BY <1>1, <1>2, <1>6 DEF Opened, Settled, Clocks
<1>8. ~Ran("send") /\ ~Ran("recv") /\ ~Ran("send")' /\ ~Ran("recv")'
  BY <1>7 DEF Ran
<1>9. PICK E \in [0 .. Latency -> ItemIds] : Stream(E)
  BY DEF Streaming
<1>10. InPos' = InPos /\ OutPos' = OutPos /\ Compared' = Compared
  BY <1>1 DEF InPos, OutPos, Popped, Compared
<1>11. Stream(E)'
  BY <1>1, <1>3, <1>8, <1>9, <1>10 DEF Stream
<1>12. "pipe" \notin updatePool'
  BY <1>1, <1>2 DEF Settled
<1> QED BY <1>5, <1>6, <1>11, <1>12 DEF Streaming

\* The other steps leave what the edge has come to.
LEMMA QuietStays ==
  ASSUME TransactionsAssumption, KernelKept, WaitsMatch, Timing, Streaming, QuietStep,
         pc # "finished", ~AdvanceTime, \A y \in Clocks : ~Woke(y, "clk.posedge")
  PROVE  Streaming' /\ (EdgeAhead' => EdgeAhead)
<1>1. /\ UNCHANGED <<val, next, mem, at, sent, fifo, remain, held, received, results>>
      /\ UNCHANGED <<events, delayed, updatePool>>
      /\ readyPool \subseteq readyPool' /\ trigPool' \subseteq trigPool
  BY QuietFrame
<1>2. \A x \in Clocks : EdgeReady(x)' <=> EdgeReady(x)
  <2>1. CASE pc = "elaborate"
    <3>1. \A x \in Clocks : at[x] = "start"
      BY <2>1 DEF WaitsMatch, Elaborating, Clocks, TransactionsAssumption
    <3> QED BY <1>1, <3>1 DEF EdgeReady
  <2>2. CASE pc # "elaborate"
    BY <1>1, <2>2, QuietWakes DEF EdgeReady
  <2> QED BY <2>1, <2>2
<1>3. Opened' <=> Opened
  BY <1>1, <1>2 DEF Opened, Clocks
<1>4. Opened => \A x \in Clocks : at[x] = "clocked"
  <2>1. Opened => time > 0
    BY DEF Opened, Timing, EdgeTiming, ClockedTiming, Clocks
  <2> QED BY <2>1 DEF WaitsMatch, Begun, ClockedWaits, Waits, Clocks, TransactionsAssumption
<1>5. (Ran("send")' <=> Ran("send")) /\ (Ran("recv")' <=> Ran("recv"))
  BY <1>1, <1>2, <1>3, <1>4 DEF Ran, EdgeReady, Clocks
<1>6. EdgeAhead' => EdgeAhead
  <2>1. "clk" \in readyPool' /\ at["clk"] = "run" => "clk" \in readyPool
    <3>1. CASE pc = "elaborate"
      BY <3>1 DEF WaitsMatch, Elaborating, TransactionsAssumption
    <3>2. CASE pc # "elaborate"
      BY <3>2, QuietWakes
    <3> QED BY <3>1, <3>2
  <2> QED BY <1>1, <1>2, <2>1 DEF EdgeAhead
<1>7. InPos' = InPos /\ Compared' = Compared
  BY <1>1 DEF InPos, Popped, Compared
<1> QED BY <1>1, <1>2, <1>3, <1>5, <1>6, <1>7, StreamKept

LEMMA QuietPlaces ==
  ASSUME TransactionsAssumption, KernelKept, WaitsMatch, Timing, Places, Streaming, Calm, AllCompared,
         QuietStep
  PROVE  Places' /\ Streaming' /\ Calm' /\ AllCompared'
<1>1. /\ UNCHANGED <<val, next, mem, at, sent, fifo, remain, held, received, results>>
      /\ UNCHANGED <<events, delayed, updatePool>>
      /\ \A p, s, e : Waits(p, s, e)' <=> Waits(p, s, e)
  BY QuietFrame
<1>2. Places'
  BY QuietPlacesKept
<1>3. CASE pc = "finished"
  <2>1. UNCHANGED vars
    BY <1>3 DEF QuietStep, KernelStep, Run, TimestepStart, DeltaStart, EvaluateDone, Resolve,
           DeltaLimit, AdvanceTime, NothingScheduled, ProcReg, DeltaEnd, Terminated, allvars
  <2>2. UNCHANGED <<pc, readyPool, trigPool, updatePool, deltaCount>>
    BY <2>1 DEF vars, pools
  <2>3. /\ Opened' <=> Opened
        /\ Ran("send")' <=> Ran("send")
        /\ Ran("recv")' <=> Ran("recv")
        /\ \A x \in Clocks : EdgeReady(x)' => EdgeReady(x)
    BY <1>1, <2>2 DEF Opened, Ran, EdgeReady
  <2>4. InPos' = InPos
    BY <1>1 DEF InPos, Popped
  <2>5. Streaming'
    BY <1>1, <1>3, <2>2, <2>3, <2>4, StreamKept
  <2> QED BY <1>1, <1>2, <1>3, <2>2, <2>5 DEF Calm, AllCompared
<1>4. CASE pc # "finished"
  <2>1. pc = "loop" /\ ~Pending => Len(received) = Len(results)
    BY LoopSettled, AllComparedWhenSettled DEF Compared
  <2>2. AllCompared'
    <3>1. pc' = "finished" => DeltaLimit \/ (pc = "loop" /\ ~Pending)
      BY <1>4 DEF QuietStep, KernelStep, Run, TimestepStart, DeltaStart, EvaluateDone, Resolve,
           AdvanceTime, NothingScheduled, ProcReg, DeltaEnd, Terminated, Stopped, WaitsMatch, allvars, vars
    <3>2. DeltaLimit => ~(deltaCount' <= MaxDelta)
      BY BoundsAssumption DEF DeltaLimit, DeltaCounted, KernelKept, KernelInv, TypeOK
    <3> QED BY <1>1, <2>1, <3>1, <3>2 DEF AllCompared
  <2>3. CASE pc = "loop" /\ ~Pending
    BY <1>2, <2>2, <2>3, QuietAdvance
  <2>4. CASE ~(pc = "loop" /\ ~Pending)
    <3>1. ~AdvanceTime
      BY <2>4 DEF AdvanceTime
    <3>2. Streaming' /\ (EdgeAhead' => EdgeAhead)
      BY <1>4, <3>1, QuietEdge, QuietStays
    <3>3. Calm'
      <4>1. OnItsWay("in")' => OnItsWay("in")
        BY QuietAwaited DEF Places
      <4> QED BY <1>1, <1>4, <3>2, <4>1, CalmKept
    <3> QED BY <1>2, <2>2, <3>2, <3>3
  <2> QED BY <2>3, <2>4
<1> QED BY <1>3, <1>4

-----------------------------------------------------------------------------
(* The invariant *)

LEMMA InitInv == TransactionsAssumption /\ TInit => Inv
<1> SUFFICES ASSUME TransactionsAssumption, TInit PROVE Inv
  OBVIOUS
<1>1. /\ Init /\ pc = "elaborate" /\ time = 0 /\ deltaCount = 0 /\ procPool = {}
      /\ readyPool = {} /\ trigPool = {} /\ updatePool = {} /\ delayed = {}
      /\ events = [p \in Procs |-> {}] /\ at = [p \in Procs |-> "start"]
      /\ sent = 0 /\ fifo = <<>> /\ remain = <<>> /\ received = <<>> /\ results = <<>>
      /\ mem = [q \in Queues |-> <<>>] /\ next = val /\ held = [p \in Procs |-> <<>>]
  BY DEF TInit, Init
<1>2. {"main", "clk", "acquire", "send", "design", "recv", "passive", "compare"} = Procs
      /\ Sigs = Queues \cup {"clk", "bus", "ready", "pipe"} /\ Queues = {"in", "dut", "ref"}
  BY DEF TransactionsAssumption, Queues
<1>3. Latency \in Nat /\ Len(Lens) \in Nat /\ \A t \in 1 .. Len(Lens) : Lens[t] \in Nat \ {0}
  BY LensProper DEF TransactionsAssumption
<1>4. /\ DOMAIN val = Sigs /\ val["bus"] = NoItem /\ val["pipe"] = [k \in 1 .. Latency |-> NoItem]
      /\ val["ready"] = 1 /\ val["clk"] = 0
  BY <1>2 DEF TInit
<1>5. KernelKept
  BY <1>1, InitTypeOK DEF KernelKept, KernelInv, SubscriptionsExact, WritesSettle, TimersExact,
     DuesPositive, Init, NoDelay
<1>6. WaitsMatch
  <2>1. \A p \in Procs : Unstarted(p)
    BY <1>1 DEF Unstarted
  <2> QED
    BY <1>1, <1>2, <2>1 DEF WaitsMatch, Begun, Elaborating, AcquireWaits, ClockedWaits, ClkWaits,
       PassiveWaits, CompareWaits, Clocks
<1>7. Timing
  BY <1>1 DEF Timing, EdgeTiming, ClockedTiming, FlowTiming, CheckTiming, EdgeReady, Clocks
<1>8. NoItem \in Offers /\ NoItem.valid = 0
  BY DEF NoItem, Offers, Bit
<1>9. Shapes
  <2>1. <<>> \in Seq(Offers) /\ <<>> \in Seq(ItemIds) /\ <<>> \in Seq(Seq(ItemIds)) /\ <<>> \in Seq(BOOLEAN)
    OBVIOUS
  <2>2. val["pipe"] \in [1 .. Latency -> Offers]
    BY <1>4, <1>8
  <2> QED BY <1>1, <1>2, <1>3, <1>4, <1>8, <2>1, <2>2 DEF Shapes, Bit
<1>10. Popped = 0 /\ Compared = 0 /\ RefsTaken = 0 /\ Refs = 0 /\ Outs = 0
  <2>1. \A q \in Queues : mem[q] = <<>>
    BY <1>1
  <2>2. mem["in"] = <<>> /\ mem["ref"] = <<>> /\ mem["dut"] = <<>> /\ at["compare"] = "start" /\ Len(<<>>) = 0
    BY <1>1, <1>2, <2>1
  <2>3. Len(mem["in"]) = 0 /\ Len(mem["ref"]) = 0 /\ Len(mem["dut"]) = 0 /\ Compared = 0
    BY <1>1, <2>2 DEF Compared
  <2>4. sent = 0 /\ at["compare"] = "start" /\ at["compare"] # "dut"
    BY <1>1, <2>2
  <2>5. RefsTaken = 0
    BY <2>3, <2>4 DEF RefsTaken
  <2>6. Popped = 0
    BY <2>3, <2>4 DEF Popped
  <2> QED BY <2>3, <2>4, <2>5, <2>6 DEF Refs, Outs
<1>11. Data
  BY <1>1, <1>2, <1>10 DEF Data
<1>12. Served /\ Awaited /\ Seen /\ ~EdgeAhead
  BY <1>1, <1>2, <1>10 DEF Served, Awaited, Seen, Busy, OnItsWay, Waits, EdgeAhead, EdgeReady, Clocks
<1>13. Offering
  BY <1>1, <1>2, <1>4, <1>8 DEF Offering, Latest
<1>14. ~Opened /\ ~Ran("send") /\ ~Ran("recv") /\ \A x \in Clocks : ~EdgeReady(x)
  BY <1>1 DEF Opened, Ran, EdgeReady
<1> DEFINE first == <<1, 1>>
           E == [k \in 0 .. Latency |-> first]
<1>15. first \in ItemIds /\ first[1] = 1 /\ first[2] = 1 /\ InPos = first /\ OutPos = first
  BY <1>1, <1>2, <1>10 DEF ItemIds, InPos, OutPos
<1>16. Proper(first)
  <2> HIDE DEF first
  <2> QED BY <1>3, <1>15 DEF Proper
<1>17. \A k \in 0 .. Latency : Lag(first, first, k)
  <2> HIDE DEF first
  <2> QED BY <1>3, <1>15 DEF Lag
<1> HIDE DEF first
<1>18. E \in [0 .. Latency -> ItemIds] /\ (\A k \in 0 .. Latency : E[k] = first)
       /\ 0 \in 0 .. Latency /\ Latency \in 0 .. Latency
       /\ \A k \in 1 .. Latency : k \in 0 .. Latency /\ k - 1 \in 0 .. Latency
  BY <1>3, <1>15
<1> HIDE DEF E
<1>19. \A k \in 1 .. Latency : Carries(E[k], E[k - 1], val["pipe"][k])
  BY <1>4, <1>8, <1>18 DEF Carries, Past
<1>20. Stream(E)
  BY <1>4, <1>8, <1>12, <1>14, <1>15, <1>16, <1>17, <1>18, <1>19 DEF Stream
<1>21. Streaming
  BY <1>1, <1>14, <1>18, <1>20 DEF Streaming
<1> QED
  BY <1>1, <1>5, <1>6, <1>7, <1>9, <1>11, <1>12, <1>13, <1>21 DEF Inv, Places, Calm, AllCompared

LEMMA KernelStaysKept ==
  ASSUME TransactionsAssumption, KernelKept, [TNext]_allvars
  PROVE  KernelKept'
<1>1. [Next]_vars
  BY StepOnKernel
<1>2. 0 \notin Delays
  BY DEF TransactionsAssumption
<1> QED
  BY <1>1, <1>2, NextTypeOK, NextSubscriptions, NextWrites, NextTimers, NextDuesPositive
  DEF KernelKept, KernelInv

\* A slice of one of the processes
Slice ==
  \/ MainNext \/ MainBlocks \/ MainPush \/ AcquirePop \/ AcquireFill
  \/ \E p \in Clocks : Sensitive(p)
  \/ Send \/ ClkToggle \/ Design \/ Recv
  \/ PassiveWait \/ Passive \/ PushAgain("passive", "ref", "in.updated", "watch")
  \/ CompareRef \/ CompareDut \/ Compare

\* recv never finds the queue of the scoreboard full.
LEMMA StepsOfTransactions ==
  ASSUME WaitsMatch, [TNext]_allvars
  PROVE  Slice \/ SignalsUpdate \/ QuietStep
<1>1. ~PushAgain("recv", "dut", "clk.posedge", "clocked")
  BY DEF PushAgain, WaitsMatch, ClockedWaits, Unstarted, Waits, Clocks
<1> QED BY <1>1 DEF TNext, Slice, QuietStep, Clocks

LEMMA SliceInv ==
  ASSUME TransactionsAssumption, ReferenceKeepsUp, Inv, Slice
  PROVE  WaitsMatch' /\ Timing' /\ Places' /\ Streaming' /\ Calm' /\ AllCompared'
<1>1. TypeOK /\ KernelKept /\ WaitsMatch /\ Timing /\ Places /\ Streaming /\ Calm
  BY DEF Inv, KernelKept, KernelInv
<1>2. Timing'
  BY <1>1, DesignTiming DEF Slice
<1>3. Places' /\ Streaming' /\ Calm'
  BY <1>1, MainPlaces, AcquirePopPlaces, AcquireFillPlaces, SensitivePlaces, SendPlaces, ClkPlaces,
     DesignPlaces, RecvPlaces, PassiveWaitPlaces, PassivePlaces, CompareRefPlaces, CompareDutPlaces,
     ComparePlaces DEF Slice
<1>4. WaitsMatch'
  <2>1. Recv => UNCHANGED at
    BY <1>1, RecvEffect
  <2> QED
    BY <1>1, <2>1, MainWaits, AcquireSlices, ClockedSlices, ClkSlices, PassiveSlices, CompareSlices DEF Slice
<1>5. pc' = "evaluate"
  BY DEF Slice, MainNext, MainBlocks, MainPush, AcquirePop, PopBlocks, PopTakes, AcquireFill, Sensitive, Clocked,
         Send, ClkToggle, Design, Recv, PassiveWait, Passive, PushAgain, CompareRef, CompareDut, Compare, RunProc
<1> QED BY <1>2, <1>3, <1>4, <1>5 DEF AllCompared

LEMMA NextInv ==
  ASSUME TransactionsAssumption, ReferenceKeepsUp
  PROVE  Inv /\ [TNext]_allvars => Inv'
<1> SUFFICES ASSUME Inv, [TNext]_allvars PROVE Inv'
  OBVIOUS
<1>1. TypeOK /\ KernelKept /\ WaitsMatch /\ Timing /\ Places /\ Streaming /\ Calm /\ AllCompared
  BY DEF Inv, KernelKept, KernelInv
<1>2. KernelKept'
  BY <1>1, KernelStaysKept
<1>3. CASE Slice
  BY <1>2, <1>3, SliceInv DEF Inv
<1>4. CASE SignalsUpdate
  <2>1. Places' /\ Streaming' /\ Calm'
    BY <1>1, <1>4, UpdatePlaces
  <2>2. WaitsMatch' /\ Timing'
    BY <1>1, <1>4, UpdateWaits, UpdateTiming
  <2>3. AllCompared'
    BY <1>4 DEF AllCompared, SignalsUpdate, Update
  <2> QED BY <1>2, <2>1, <2>2, <2>3 DEF Inv
<1>5. CASE QuietStep
  BY <1>1, <1>2, <1>5, QuietWaits, QuietTiming, QuietPlaces DEF Inv
<1> QED BY <1>1, <1>3, <1>4, <1>5, StepsOfTransactions

\* The invariant of a verified design
THEOREM InvariantKept ==
  ASSUME TransactionsAssumption, ReferenceKeepsUp
  PROVE  TSpec => []Inv
<1>1. TInit => Inv
  BY InitInv
<1>2. Inv /\ [TNext]_allvars => Inv'
  BY NextInv
<1> QED BY <1>1, <1>2, PTL DEF TSpec

\* Every queue of a verified design holds one transaction at most, and the items that
\* send has left are the end of a transaction: the mark of the last is on the last alone.
THEOREM TransactionsTypeCorrect ==
  ASSUME TransactionsAssumption, ReferenceKeepsUp
  PROVE  TSpec => []BTypeOK
<1>1. Inv => BTypeOK
  <2> SUFFICES ASSUME Inv PROVE BTypeOK
    OBVIOUS
  <2>1. Shapes /\ Data /\ Offering
    BY DEF Inv, Places
  <2>2. Len(mem["dut"]) <= 1 /\ Len(mem["ref"]) <= 1 /\ Len(mem["in"]) <= 1
    BY <2>1, Counts DEF Queues
  <2>3. ASSUME NEW i \in DOMAIN fifo PROVE fifo[i].last = 1 <=> i = Len(fifo)
    <3>1. fifo # <<>>
      BY <2>3
    <3>2. PICK j \in 1 .. Lens[Popped] : fifo = RestFrom(j)
      BY <2>1, <3>1 DEF Offering
    <3>3. Popped \in 1 .. Len(Lens)
      BY <2>1, <3>1, Counts, LensProper DEF Offering
    <3>4. Lens[Popped] \in Nat \ {0} /\ j \in Nat /\ j <= Lens[Popped]
      BY <3>2, <3>3, LensProper
    <3> DEFINE n == Lens[Popped]
               m == n - j + 1
    <3>5. DOMAIN fifo = 1 .. m /\ fifo[i] = Offer(<<Popped, j + i - 1>>)
      BY <2>3, <3>2 DEF RestFrom
    <3>6. Len(fifo) \in Nat /\ DOMAIN fifo = 1 .. Len(fifo)
      BY <2>1 DEF Shapes
    <3>7. fifo[i].last = 1 <=> j + i - 1 = n
      BY <3>5 DEF Offer
    <3>8. m \in Nat
      BY <3>4
    <3>9. Len(fifo) = m
      <4> HIDE DEF m
      <4> QED BY <3>5, <3>6, <3>8
    <3>10. i \in Nat
      BY <2>3, <3>6
    <3> HIDE DEF n
    <3> QED BY <3>4, <3>7, <3>9, <3>10 DEF n
  <2> QED BY <2>1, <2>2, <2>3 DEF BTypeOK, Shapes
<1> QED BY <1>1, InvariantKept, PTL

\* Transactions come out of the design as they were sent, whole and in order.
THEOREM BurstsStayWhole ==
  ASSUME TransactionsAssumption, ReferenceKeepsUp
  PROVE  TSpec => []BurstsWhole
<1>1. Inv => BurstsWhole
  BY DEF Inv, Places, Shapes, Data, BurstsWhole
<1> QED BY <1>1, InvariantKept, PTL

\* The scoreboard compares like with like, and leaves nothing uncompared.
THEOREM ScoreboardIsExact ==
  ASSUME TransactionsAssumption, ReferenceKeepsUp
  PROVE  TSpec => []ScoreboardExact
<1>1. Inv => ScoreboardExact
  BY DEF Inv, Places, Shapes, Data, AllCompared, ScoreboardExact
<1> QED BY <1>1, InvariantKept, PTL
=============================================================================
