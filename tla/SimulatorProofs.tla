--------------------------- MODULE SimulatorProofs --------------------------
(***************************************************************************)
(* Proofs about the kernel of module Simulator, for every design: any set  *)
(* of processes, events, chains of events, delays and limits.              *)
(***************************************************************************)
EXTENDS Simulator, TLAPS

\* The inductive invariant is TypeOK together with the properties themselves; each is
\* shown to be kept by every step from the types and, where named, from others.

\* One resolve of e reaches e itself and events only.
LEMMA NotifiedEvents ==
  ASSUME NEW e \in Events
  PROVE  Notified(e) \subseteq Events /\ e \in Notified(e)
BY DEF Notified

\* The processes that one resolve wakes are processes.
LEMMA WokenProcs ==
  ASSUME TypeOK, NEW e \in Events
  PROVE  Woken(e) \subseteq Procs
BY NotifiedEvents DEF Woken, TypeOK

LEMMA InitTypeOK == Init => TypeOK
BY DEF Init, TypeOK, NoDelay

-----------------------------------------------------------------------------
(* Types *)

LEMMA RunProcTypeOK ==
  ASSUME TypeOK, NEW p \in Procs, NEW T \in SUBSET Events, NEW U \in SUBSET Sigs,
         NEW W \in SUBSET Events, NEW d \in Delays \cup {NoDelay}, RunProc(p, T, U, W, d)
  PROVE  TypeOK'
<1>1. DueAfter(p, d) \in Nat \cup {NoDelay}
  BY DelaysAssumption DEF DueAfter, TypeOK, NoDelay
<1>2. delayPool' \in [Procs -> Nat \cup {NoDelay}]
  BY <1>1 DEF TypeOK, RunProc
<1>3. evPool' \in [Events -> SUBSET Procs]
  BY DEF TypeOK, RunProc, Subscribed, Unsubscribed
<1>4. events' \in [Procs -> SUBSET Events]
  BY DEF TypeOK, RunProc
<1> QED BY <1>2, <1>3, <1>4 DEF TypeOK, RunProc

LEMMA AbortTypeOK ==
  ASSUME TypeOK, NEW p \in Procs, NEW T \in SUBSET Events, NEW U \in SUBSET Sigs,
         Abort(p, T, U)
  PROVE  TypeOK'
<1>1. delayPool' \in [Procs -> Nat \cup {NoDelay}]
  BY DEF TypeOK, Abort, DueAfter
<1>2. evPool' \in [Events -> SUBSET Procs]
  BY DEF TypeOK, Abort, Unsubscribed
<1> QED BY <1>1, <1>2 DEF TypeOK, Abort

LEMMA AdvanceTimeTypeOK ==
  ASSUME TypeOK, AdvanceTime
  PROVE  TypeOK'
<1>1. PICK t \in DueTimes :
        /\ readyPool' = readyPool \cup { p \in Scheduled : delayPool[p] <= t }
        /\ delayPool' = [p \in Procs |->
             IF p \in { q \in Scheduled : delayPool[q] <= t } THEN NoDelay ELSE delayPool[p]]
        /\ time' = t
        /\ pc' = IF PastEnd(t) THEN "finished" ELSE "timestep"
  BY DEF AdvanceTime
<1>2. t \in Nat
  BY DEF DueTimes, Scheduled, TypeOK
<1>3. delayPool' \in [Procs -> Nat \cup {NoDelay}] /\ readyPool' \subseteq Procs
  BY <1>1 DEF TypeOK, Scheduled
<1> QED BY <1>1, <1>2, <1>3 DEF TypeOK, AdvanceTime, subs

LEMMA NextTypeOK == TypeOK /\ [Next]_vars => TypeOK'
<1> SUFFICES ASSUME TypeOK, [Next]_vars PROVE TypeOK'
  OBVIOUS
<1>1. CASE Run \/ TimestepStart \/ DeltaStart \/ EvaluateDone \/ NothingScheduled
  BY <1>1 DEF TypeOK, Run, TimestepStart, DeltaStart, EvaluateDone, NothingScheduled,
              pools, subs
<1>2. ASSUME NEW e \in Events, Resolve(e) PROVE TypeOK'
  BY <1>2, WokenProcs DEF TypeOK, Resolve, subs
<1>3. CASE DeltaLimit
  BY <1>3 DEF TypeOK, DeltaLimit, DeltaCounted, pools, subs
<1>4. CASE AdvanceTime
  BY <1>4, AdvanceTimeTypeOK
<1>5. ASSUME NEW p \in Procs, ProcReg(p) PROVE TypeOK'
  BY <1>5 DEF TypeOK, ProcReg, subs
<1>6. ASSUME NEW p \in Procs, NEW T \in SUBSET Events, NEW U \in SUBSET Sigs,
             NEW W \in SUBSET Events, NEW d \in Delays \cup {NoDelay},
             RunProc(p, T, U, W, d)
      PROVE TypeOK'
  BY <1>6, RunProcTypeOK
<1>7. ASSUME NEW p \in Procs, NEW T \in SUBSET Events, NEW U \in SUBSET Sigs, Abort(p, T, U)
      PROVE TypeOK'
  BY <1>7, AbortTypeOK
<1>8. ASSUME NEW T \in SUBSET Events, Update(T) \/ DeltaEnd(T) PROVE TypeOK'
  BY <1>8 DEF TypeOK, Update, DeltaEnd, DeltaCounted, subs
<1>9. CASE Terminated \/ UNCHANGED vars
  BY <1>9 DEF TypeOK, Terminated, vars, pools, subs
<1> QED
  BY <1>1, <1>2, <1>3, <1>4, <1>5, <1>6, <1>7, <1>8, <1>9
  DEF Next, KernelStep, DesignStep

\* The types of the kernel's state.
THEOREM TypeCorrect == Spec => []TypeOK
<1>1. TypeOK /\ [Next]_vars => TypeOK'
  BY NextTypeOK
<1> QED BY <1>1, InitTypeOK, PTL DEF Spec

-----------------------------------------------------------------------------
(* Subscriptions *)

LEMMA NextSubscriptions ==
  TypeOK /\ SubscriptionsExact /\ [Next]_vars => SubscriptionsExact'
<1> SUFFICES ASSUME TypeOK, SubscriptionsExact, [Next]_vars PROVE SubscriptionsExact'
  OBVIOUS
<1>1. CASE KernelStep
  <2>1. pc # "aborted" /\ UNCHANGED subs
    BY <1>1 DEF KernelStep, Run, TimestepStart, DeltaStart, EvaluateDone, Resolve,
                DeltaLimit, AdvanceTime, NothingScheduled
  <2> QED BY <2>1 DEF SubscriptionsExact, subs
<1>2. ASSUME NEW p \in Procs, ProcReg(p) PROVE SubscriptionsExact'
  BY <1>2 DEF SubscriptionsExact, ProcReg, subs
<1>3. ASSUME NEW p \in Procs, NEW T \in SUBSET Events, NEW U \in SUBSET Sigs,
             NEW W \in SUBSET Events, NEW d \in Delays \cup {NoDelay},
             RunProc(p, T, U, W, d)
      PROVE SubscriptionsExact'
  \* p is in the pools of W alone; nobody else's membership changes.
  <2>1. pc # "aborted"
    BY <1>3 DEF RunProc
  <2> SUFFICES ASSUME NEW q \in Procs, NEW e \in Events
               PROVE  q \in evPool'[e] <=> e \in events'[q]
    BY DEF SubscriptionsExact
  <2>2. q \in evPool[e] <=> e \in events[q]
    BY <2>1 DEF SubscriptionsExact
  <2>3. CASE q = p
    BY <1>3, <2>2, <2>3 DEF RunProc, Subscribed, Unsubscribed, TypeOK
  <2>4. CASE q # p
    BY <1>3, <2>2, <2>4 DEF RunProc, Subscribed, Unsubscribed, TypeOK
  <2> QED BY <2>3, <2>4
<1>4. ASSUME NEW p \in Procs, NEW T \in SUBSET Events, NEW U \in SUBSET Sigs, Abort(p, T, U)
      PROVE SubscriptionsExact'
  BY <1>4 DEF SubscriptionsExact, Abort
<1>5. ASSUME NEW T \in SUBSET Events, Update(T) \/ DeltaEnd(T) PROVE SubscriptionsExact'
  BY <1>5 DEF SubscriptionsExact, Update, DeltaEnd, subs
<1>6. CASE Terminated \/ UNCHANGED vars
  BY <1>6 DEF SubscriptionsExact, Terminated, vars, subs
<1> QED BY <1>1, <1>2, <1>3, <1>4, <1>5, <1>6 DEF Next, DesignStep

\* Every process is in the pools of exactly the events of its last wait, so that no
\* slice ends in the KeyError of Event.unsubscribe.
THEOREM SubscriptionsCorrect == Spec => []SubscriptionsExact
<1>1. Init => SubscriptionsExact
  BY DEF Init, SubscriptionsExact
<1>2. TypeOK /\ SubscriptionsExact /\ [Next]_vars => SubscriptionsExact'
  BY NextSubscriptions
<1> QED BY <1>1, <1>2, TypeCorrect, PTL DEF Spec

-----------------------------------------------------------------------------
(* Timers *)

\* What time does to the delay pool: entries due by the new time are popped and
\* their processes made ready, the others are due later.
LEMMA AdvanceTimePops ==
  ASSUME TypeOK, AdvanceTime
  PROVE  /\ time' \in DueTimes
         /\ NewTime(time')
         /\ readyPool = {} /\ trigPool = {}
         /\ \A p \in Procs :
              \/ /\ delayPool[p] = NoDelay /\ delayPool'[p] = NoDelay
                 /\ p \notin readyPool'
              \/ /\ delayPool[p] # NoDelay /\ delayPool[p] <= time'
                 /\ p \in readyPool' /\ delayPool'[p] = NoDelay
              \/ /\ delayPool[p] # NoDelay /\ delayPool[p] > time'
                 /\ p \notin readyPool' /\ delayPool'[p] = delayPool[p]
<1>1. PICK t \in DueTimes :
        /\ NewTime(t)
        /\ readyPool' = readyPool \cup { p \in Scheduled : delayPool[p] <= t }
        /\ delayPool' = [p \in Procs |->
             IF p \in { q \in Scheduled : delayPool[q] <= t } THEN NoDelay ELSE delayPool[p]]
        /\ time' = t
  BY DEF AdvanceTime
<1>2. readyPool = {} /\ trigPool = {}
  BY DEF AdvanceTime, Pending
<1>3. t \in Nat
  BY DEF DueTimes, Scheduled, TypeOK
<1>4. ASSUME NEW p \in Procs
      PROVE  delayPool[p] = NoDelay \/ delayPool[p] <= t \/ delayPool[p] > t
  BY <1>3 DEF TypeOK, NoDelay
<1> QED BY <1>1, <1>2, <1>4 DEF Scheduled

LEMMA NextTimers ==
  TypeOK /\ TimersExact /\ [Next]_vars => TimersExact'
<1> SUFFICES ASSUME TypeOK, TimersExact, [Next]_vars, pc' # "aborted",
                    NEW q \in Procs
             PROVE  /\ delayPool'[q] # NoDelay => q \in delayed' /\ delayPool'[q] >= time'
                    /\ q \in delayed' /\ delayPool'[q] = NoDelay => q \in readyPool'
  BY DEF TimersExact
<1>1. CASE Run
  BY <1>1 DEF TimersExact, Run, pools, subs, TypeOK, NoDelay
<1>2. CASE TimestepStart \/ DeltaStart \/ EvaluateDone \/ DeltaLimit \/ NothingScheduled
  BY <1>2 DEF TimersExact, TimestepStart, DeltaStart, EvaluateDone, DeltaLimit,
              NothingScheduled, pools, subs
<1>3. CASE \E e \in Events : Resolve(e)
  BY <1>3 DEF TimersExact, Resolve, subs
<1>4. CASE AdvanceTime
  <2>1. pc # "aborted" /\ UNCHANGED delayed
    BY <1>4 DEF AdvanceTime, subs
  <2>2. time' \in Nat
    BY <1>4, AdvanceTimeTypeOK DEF TypeOK
  <2>3. delayPool[q] \in Nat \cup {NoDelay}
    BY DEF TypeOK
  <2> QED BY <1>4, <2>1, <2>2, <2>3, AdvanceTimePops DEF TimersExact, NoDelay
<1>5. CASE \E p \in Procs : ProcReg(p)
  BY <1>5 DEF TimersExact, ProcReg, subs
<1>6. ASSUME NEW p \in Procs, NEW T \in SUBSET Events, NEW U \in SUBSET Sigs,
             NEW W \in SUBSET Events, NEW d \in Delays \cup {NoDelay},
             RunProc(p, T, U, W, d)
      PROVE  /\ delayPool'[q] # NoDelay => q \in delayed' /\ delayPool'[q] >= time'
             /\ q \in delayed' /\ delayPool'[q] = NoDelay => q \in readyPool'
  <2>1. pc # "aborted" /\ UNCHANGED time /\ time \in Nat
    BY <1>6 DEF RunProc, TypeOK
  <2>2. CASE q # p
    BY <1>6, <2>1, <2>2 DEF TimersExact, RunProc, TypeOK
  <2>3. CASE q = p /\ d = NoDelay
    \* an entry that an event has made obsolete goes with the wait it belonged to
    BY <1>6, <2>1, <2>3 DEF TimersExact, RunProc, DueAfter, TypeOK
  <2>4. CASE q = p /\ d # NoDelay
    <3>1. d \in Nat /\ delayPool'[q] = time + d /\ q \in delayed'
      BY <1>6, <2>4, DelaysAssumption DEF RunProc, DueAfter, TypeOK
    <3> QED BY <3>1, <2>1 DEF NoDelay
  <2> QED BY <2>2, <2>3, <2>4
<1>7. CASE \E p \in Procs, T \in SUBSET Events, U \in SUBSET Sigs : Abort(p, T, U)
  BY <1>7 DEF Abort
<1>8. CASE \E T \in SUBSET Events : Update(T) \/ DeltaEnd(T)
  BY <1>8 DEF TimersExact, Update, DeltaEnd, subs
<1>9. CASE Terminated \/ UNCHANGED vars
  BY <1>9 DEF TimersExact, Terminated, vars, pools, subs
<1> QED
  BY <1>1, <1>2, <1>3, <1>4, <1>5, <1>6, <1>7, <1>8, <1>9
  DEF Next, KernelStep, DesignStep

\* The delay pool agrees with the waits of the processes: no leftover timer, no
\* overdue timer, no lost timer.
THEOREM TimersCorrect == Spec => []TimersExact
<1>1. Init => TimersExact
  BY DEF Init, TimersExact, NoDelay
<1>2. TypeOK /\ TimersExact /\ [Next]_vars => TimersExact'
  BY NextTimers
<1> QED BY <1>1, <1>2, TypeCorrect, PTL DEF Spec

-----------------------------------------------------------------------------
(* Writes, and the end of the simulation *)

LEMMA NextWrites == WritesSettle /\ [Next]_vars => WritesSettle'
<1> SUFFICES ASSUME WritesSettle, [Next]_vars, updatePool' # {}
             PROVE  pc' \in {"evaluate", "resolve", "aborted"}
  BY DEF WritesSettle
<1>1. CASE KernelStep
  BY <1>1 DEF WritesSettle, KernelStep, Run, TimestepStart, DeltaStart, EvaluateDone,
              Resolve, DeltaLimit, AdvanceTime, NothingScheduled, pools
<1>2. CASE DesignStep
  BY <1>2 DEF WritesSettle, DesignStep, ProcReg, RunProc, Abort, Update, DeltaEnd
<1>3. CASE Terminated \/ UNCHANGED vars
  BY <1>3 DEF WritesSettle, Terminated, vars, pools
<1> QED BY <1>1, <1>2, <1>3 DEF Next

\* No write of a signal outlives the delta cycle in which it was made.
THEOREM WritesCorrect == Spec => []WritesSettle
<1>1. Init => WritesSettle
  BY DEF Init, WritesSettle
<1> QED BY <1>1, NextWrites, PTL DEF Spec

LEMMA NextPastEnd == NoSlicePastEnd /\ [Next]_vars => NoSlicePastEnd'
<1> SUFFICES ASSUME NoSlicePastEnd, [Next]_vars PROVE NoSlicePastEnd'
  OBVIOUS
<1>1. CASE Run
  BY <1>1, BoundsAssumption DEF NoSlicePastEnd, Run
<1>2. CASE AdvanceTime
  BY <1>2 DEF NoSlicePastEnd, AdvanceTime, PastEnd
<1>3. CASE \/ TimestepStart \/ DeltaStart \/ EvaluateDone \/ DeltaLimit
           \/ NothingScheduled \/ (\E e \in Events : Resolve(e)) \/ DesignStep
  \* these leave the time alone, and none is a step of a finished simulation
  BY <1>3 DEF NoSlicePastEnd, TimestepStart, DeltaStart, EvaluateDone, DeltaLimit,
              NothingScheduled, Resolve, DesignStep, ProcReg, RunProc, Abort, Update,
              DeltaEnd
<1>4. CASE Terminated \/ UNCHANGED vars
  BY <1>4 DEF NoSlicePastEnd, Terminated, vars
<1> QED BY <1>1, <1>2, <1>3, <1>4 DEF Next, KernelStep

\* No process runs, no event is resolved and no signal is updated past the duration.
THEOREM EndCorrect == Spec => []NoSlicePastEnd
<1>1. Init => NoSlicePastEnd
  BY BoundsAssumption DEF Init, NoSlicePastEnd
<1> QED BY <1>1, NextPastEnd, PTL DEF Spec

\* A simulation that ended neither at its duration nor at the delta limit ended
\* because nothing is left to do.
EndsSettled ==
  pc = "finished" /\ time <= Duration /\ deltaCount <= MaxDelta =>
    ~Pending /\ Scheduled = {}

LEMMA NextEndsSettled == TypeOK /\ EndsSettled /\ [Next]_vars => EndsSettled'
<1> SUFFICES ASSUME TypeOK, EndsSettled, [Next]_vars,
                    pc' = "finished", time' <= Duration, deltaCount' <= MaxDelta
             PROVE  ~Pending' /\ Scheduled' = {}
  BY DEF EndsSettled
<1>1. CASE NothingScheduled
  BY <1>1 DEF NothingScheduled, Pending, Scheduled, pools
<1>2. CASE AdvanceTime
  <2>1. time' \in Nat
    BY <1>2, AdvanceTimeTypeOK DEF TypeOK
  <2> QED BY <1>2, <2>1, BoundsAssumption DEF AdvanceTime, PastEnd
<1>3. CASE DeltaLimit
  BY <1>3, BoundsAssumption DEF DeltaLimit, TypeOK, DeltaCounted
<1>4. CASE Terminated \/ UNCHANGED vars
  BY <1>4 DEF EndsSettled, Terminated, vars, pools, Pending, Scheduled
<1>5. CASE \/ Run \/ TimestepStart \/ DeltaStart \/ EvaluateDone
           \/ (\E e \in Events : Resolve(e)) \/ DesignStep
  BY <1>5 DEF Run, TimestepStart, DeltaStart, EvaluateDone, Resolve, DesignStep, ProcReg,
              RunProc, Abort, Update, DeltaEnd
<1> QED BY <1>1, <1>2, <1>3, <1>4, <1>5 DEF Next, KernelStep

THEOREM EndsSettledCorrect == Spec => []EndsSettled
<1>1. Init => EndsSettled
  BY DEF Init, EndsSettled
<1> QED BY <1>1, NextEndsSettled, TypeCorrect, PTL DEF Spec

-----------------------------------------------------------------------------
(* Wakeups *)

\* A process stays in the pools an event reaches as long as it does not run itself.
LEMMA WokenStays ==
  ASSUME NEW p \in Procs, NEW e \in Events, p \in Woken(e),
         \A f \in Events : p \in evPool[f] => p \in evPool'[f]
  PROVE  p \in Woken(e)'
BY NotifiedEvents DEF Woken

LEMMA NextWakeups ==
  ASSUME TypeOK, [Next]_vars, NEW p \in Procs, Owed(p), ~Runs(p)
  PROVE  Owed(p)'
<1>1. CASE UNCHANGED evPool /\ readyPool \subseteq readyPool' /\ trigPool \subseteq trigPool'
  BY <1>1, WokenStays DEF Owed, TypeOK
<1>2. CASE KernelStep
  <2>1. CASE \/ Run \/ TimestepStart \/ DeltaStart \/ EvaluateDone \/ DeltaLimit
             \/ NothingScheduled \/ AdvanceTime
    BY <1>1, <2>1 DEF Run, TimestepStart, DeltaStart, EvaluateDone, DeltaLimit,
                      NothingScheduled, AdvanceTime, pools, subs
  <2>2. ASSUME NEW e \in Events, Resolve(e) PROVE Owed(p)'
    \* p was owed by e, and is ready now, or by another event, still to be resolved
    <3>1. CASE p \in readyPool \cup Woken(e)
      BY <2>2, <3>1 DEF Owed, Resolve
    <3>2. CASE \E f \in trigPool \ {e} : p \in Woken(f)
      BY <2>2, <3>2, WokenStays DEF Owed, Resolve, subs, TypeOK
    <3> QED BY <3>1, <3>2 DEF Owed
  <2> QED BY <1>2, <2>1, <2>2 DEF KernelStep
<1>3. CASE DesignStep
  <2>1. ASSUME NEW q \in Procs, ProcReg(q) PROVE Owed(p)'
    BY <1>1, <2>1 DEF ProcReg, subs
  <2>2. ASSUME NEW q \in Procs, NEW T \in SUBSET Events, NEW U \in SUBSET Sigs,
               \/ \E W \in SUBSET Events, d \in Delays \cup {NoDelay} :
                    RunProc(q, T, U, W, d)
               \/ Abort(q, T, U)
        PROVE Owed(p)'
    <3>1. p # q
      BY <2>2 DEF Runs, RunProc, Abort
    <3>2. \A f \in Events : p \in evPool[f] => p \in evPool'[f]
      BY <2>2, <3>1 DEF RunProc, Abort, Subscribed, Unsubscribed
    <3>3. p \in readyPool => p \in readyPool'
      BY <2>2, <3>1 DEF RunProc, Abort
    <3>4. trigPool \subseteq trigPool'
      BY <2>2 DEF RunProc, Abort
    <3> QED BY <3>2, <3>3, <3>4, WokenStays DEF Owed, TypeOK
  <2>3. ASSUME NEW T \in SUBSET Events, Update(T) PROVE Owed(p)'
    \* every trigger of the delta cycle has been resolved by then
    BY <2>3 DEF Owed, Update
  <2>4. ASSUME NEW T \in SUBSET Events, DeltaEnd(T) PROVE Owed(p)'
    BY <1>1, <2>4 DEF DeltaEnd, subs
  <2> QED BY <1>3, <2>1, <2>2, <2>3, <2>4 DEF DesignStep
<1>4. CASE Terminated \/ UNCHANGED vars
  BY <1>1, <1>4 DEF Terminated, vars, pools, subs
<1> QED BY <1>2, <1>3, <1>4 DEF Next

\* No wakeup is lost: a process that was made ready, or that an event triggered while
\* it was subscribed, stays owed a slice until the scheduler runs it.
THEOREM WakeupsKept == Spec => WakeupNotLost
<1>1. TypeOK /\ [Next]_vars =>
        [\A p \in Procs : Owed(p) /\ ~Owed(p)' => Runs(p)]_vars
  BY NextWakeups
<1> QED BY <1>1, TypeCorrect, PTL DEF Spec, WakeupNotLost

-----------------------------------------------------------------------------
(* What the steps do to the processes that do not run in them *)

\* The steps in which no process runs and no signal is updated
Quiet ==
  \/ KernelStep
  \/ \E p \in Procs : ProcReg(p)
  \/ DeltaEnd({})
  \/ Terminated
  \/ UNCHANGED vars

LEMMA QuietEffect ==
  ASSUME TypeOK, Quiet
  PROVE  /\ UNCHANGED <<events, delayed, updatePool>>
         /\ readyPool \subseteq readyPool'
         /\ \A q \in Procs : Owed(q) => Owed(q)'
         /\ \A q \in procPool' \ procPool : q \in readyPool'
         /\ pc = "aborted" => pc' = "aborted"
<1>1. [Next]_vars
  BY DEF Quiet, Next, DesignStep
<1>2. UNCHANGED <<events, delayed, updatePool>> /\ readyPool \subseteq readyPool'
  BY DEF Quiet, KernelStep, Run, TimestepStart, DeltaStart, EvaluateDone, Resolve,
         DeltaLimit, AdvanceTime, NothingScheduled, ProcReg, DeltaEnd, Terminated, vars,
         pools, subs
<1>3. ASSUME NEW q \in Procs PROVE ~Runs(q)
  BY <1>2 DEF Runs
<1>4. \A q \in procPool' \ procPool : q \in readyPool'
  BY DEF Quiet, KernelStep, Run, TimestepStart, DeltaStart, EvaluateDone, Resolve,
         DeltaLimit, AdvanceTime, NothingScheduled, ProcReg, DeltaEnd, Terminated, vars
<1>5. pc = "aborted" => pc' = "aborted"
  BY DEF Quiet, KernelStep, Run, TimestepStart, DeltaStart, EvaluateDone, Resolve,
         DeltaLimit, AdvanceTime, NothingScheduled, ProcReg, DeltaEnd, Terminated, vars
<1> QED BY <1>1, <1>2, <1>3, <1>4, <1>5, NextWakeups

\* A slice, whatever it does, is a step of the kernel.
LEMMA SliceIsKernelStep ==
  ASSUME NEW p \in Procs, NEW T \in SUBSET Events, NEW U \in SUBSET Sigs,
         NEW W \in SUBSET Events, NEW d \in Delays \cup {NoDelay}, RunProc(p, T, U, W, d)
  PROVE  Next
BY DEF Next, DesignStep

\* A slice of p ends in a wait for W and d and leaves everybody else's wait alone.
SliceKeeps(p, W, d) ==
  /\ events'[p] = W /\ (p \in delayed' <=> d # NoDelay)
  /\ \A q \in Procs \ {p} :
       /\ events'[q] = events[q] /\ (q \in delayed' <=> q \in delayed)
       /\ Owed(q) => Owed(q)'
       /\ q \in readyPool => q \in readyPool'

LEMMA SliceEffect ==
  ASSUME TypeOK, NEW p \in Procs, NEW T \in SUBSET Events, NEW U \in SUBSET Sigs,
         NEW W \in SUBSET Events, NEW d \in Delays \cup {NoDelay}, RunProc(p, T, U, W, d)
  PROVE  /\ pc = "evaluate" /\ pc' = pc /\ procPool' = procPool
         /\ p \in readyPool /\ readyPool' = readyPool \ {p}
         /\ trigPool' = trigPool \cup T /\ updatePool' = updatePool \cup U
         /\ SliceKeeps(p, W, d)
<1>1. ASSUME NEW q \in Procs \ {p} PROVE Owed(q) => Owed(q)'
  <2>1. ~Runs(q)
    BY DEF Runs, RunProc, TypeOK
  <2> QED BY <2>1, SliceIsKernelStep, NextWakeups
<1> QED BY <1>1 DEF RunProc, TypeOK, SliceKeeps

\* A process is owed a slice as soon as an event it waits for is triggered.
LEMMA TriggerOwes ==
  ASSUME SubscriptionsExact, pc # "aborted", NEW q \in Procs, NEW e \in events[q],
         e \in Events, e \in trigPool
  PROVE  Owed(q)
BY NotifiedEvents DEF SubscriptionsExact, Owed, Woken

\* The invariants of the kernel that proofs about a design on it rest on.
KernelInv == TypeOK /\ SubscriptionsExact /\ WritesSettle

\* The design subscribes no event to another.
Unchained == Chain = [e \in Events |-> {}]

\* When events are not chained a resolve wakes its own pool only.
LEMMA WokenBySubscription ==
  ASSUME Unchained, NEW e \in Events
  PROVE  Woken(e) = evPool[e]
<1>1. \A f \in Notified(e) : f = e
  <2>1. {e} \in SUBSET Events /\ e \in {e} /\ \A x \in {e} : Chain[x] \subseteq {e}
    BY DEF Unchained
  <2> QED BY <2>1 DEF Notified
<1>2. Notified(e) = {e}
  BY <1>1, NotifiedEvents
<1> QED BY <1>2 DEF Woken

\* A process that waits for one event is woken by it, after the start of the simulation,
\* and by nothing else.
LEMMA WhoIsWoken ==
  ASSUME Unchained, KernelInv, TimersExact, Quiet, NEW q \in Procs, NEW f \in Events,
         events[q] = {f}, q \notin delayed, pc # "elaborate", pc # "aborted",
         q \notin readyPool, q \in readyPool'
  PROVE  f \in trigPool /\ f \notin trigPool'
<1>1. delayPool[q] = NoDelay
  BY DEF TimersExact
<1>2. ~AdvanceTime
  BY <1>1, AdvanceTimePops DEF KernelInv
<1>3. PICK e \in Events : Resolve(e)
  BY <1>2 DEF Quiet, KernelStep, Run, TimestepStart, DeltaStart, EvaluateDone,
              DeltaLimit, NothingScheduled, ProcReg, DeltaEnd, Terminated, vars, pools
<1>4. q \in evPool[e]
  BY <1>3, WokenBySubscription DEF Resolve
<1> QED BY <1>3, <1>4 DEF KernelInv, SubscriptionsExact, Resolve

\* The steps in which no process runs and no signal is updated leave what is owed to
\* such a process as it is.
LEMMA QuietOwes ==
  ASSUME Unchained, KernelInv, TimersExact, Quiet, NEW q \in Procs, NEW f \in Events,
         events[q] = {f}, q \notin delayed, pc # "elaborate", pc # "aborted"
  PROVE  Owed(q)' <=> Owed(q)
<1>1. Owed(q) => Owed(q)'
  BY QuietEffect DEF KernelInv
<1>2. /\ \A e \in trigPool' : e \in trigPool /\ e \in Events
      /\ evPool' = evPool
  BY DEF KernelInv, TypeOK, Quiet, KernelStep, Run, TimestepStart, DeltaStart, EvaluateDone,
         Resolve, DeltaLimit, AdvanceTime, NothingScheduled, ProcReg, DeltaEnd, Terminated,
         vars, pools, subs
<1>3. ASSUME NEW e \in trigPool', q \in Woken(e)' PROVE Owed(q)
  <2>1. q \in Woken(e) /\ e \in trigPool
    BY <1>2, <1>3 DEF Woken
  <2> QED BY <2>1 DEF Owed
<1>4. ASSUME q \in readyPool' PROVE Owed(q)
  <2>1. CASE q \in readyPool
    BY <2>1 DEF Owed
  <2>2. CASE q \notin readyPool
    BY <1>4, <2>2, WhoIsWoken, TriggerOwes DEF KernelInv
  <2> QED BY <2>1, <2>2
<1> QED BY <1>1, <1>3, <1>4 DEF Owed

-----------------------------------------------------------------------------
(* The kernel implements module Timers *)

\* With no Delay(0) every due time is later than the time 0 at which _advance_time
\* goes astray.
DuesPositive == \A p \in Procs : delayPool[p] # NoDelay => delayPool[p] >= 1

LEMMA NextDuesPositive ==
  ASSUME 0 \notin Delays, TypeOK, DuesPositive, [Next]_vars
  PROVE  DuesPositive'
<1>1. CASE KernelStep
  <2>1. CASE AdvanceTime
    BY <2>1, AdvanceTimePops DEF DuesPositive
  <2>2. CASE UNCHANGED delayPool
    BY <2>2 DEF DuesPositive
  <2> QED
    BY <1>1, <2>1, <2>2 DEF KernelStep, Run, TimestepStart, DeltaStart, EvaluateDone,
                            Resolve, DeltaLimit, NothingScheduled, pools
<1>2. CASE DesignStep
  <2>1. ASSUME NEW p \in Procs, NEW T \in SUBSET Events, NEW U \in SUBSET Sigs,
               NEW W \in SUBSET Events, NEW d \in Delays \cup {NoDelay},
               RunProc(p, T, U, W, d)
        PROVE  DuesPositive'
    <3>1. d # NoDelay => time + d >= 1
      BY DelaysAssumption DEF TypeOK
    <3> QED BY <2>1, <3>1 DEF DuesPositive, RunProc, DueAfter, TypeOK
  <2>2. ASSUME NEW p \in Procs, NEW T \in SUBSET Events, NEW U \in SUBSET Sigs,
               Abort(p, T, U)
        PROVE  DuesPositive'
    BY <2>2 DEF DuesPositive, Abort, DueAfter, TypeOK
  <2>3. CASE UNCHANGED delayPool
    BY <2>3 DEF DuesPositive
  <2> QED BY <1>2, <2>1, <2>2, <2>3 DEF DesignStep, ProcReg, Update, DeltaEnd
<1>3. CASE Terminated \/ UNCHANGED vars
  BY <1>3 DEF DuesPositive, Terminated, vars, pools
<1> QED BY <1>1, <1>2, <1>3 DEF Next

\* Run sets the time to 0, which it still is.
StartsAtZero == pc = "elaborate" => time = 0

LEMMA NextStartsAtZero == StartsAtZero /\ [Next]_vars => StartsAtZero'
BY DEF StartsAtZero, Next, KernelStep, DesignStep, Run, TimestepStart, DeltaStart,
       EvaluateDone, Resolve, DeltaLimit, AdvanceTime, NothingScheduled, ProcReg, RunProc,
       Abort, Update, DeltaEnd, Terminated, vars

Ringing == { p \in delayed \cap readyPool : delayPool[p] = NoDelay }

LEMMA NextTimersStep ==
  ASSUME TypeOK, TimersExact, DuesPositive, StartsAtZero, [Next]_vars
  PROVE  [Timers!Next]_(Timers!tvars)
<1> USE DEF Timers!NoDelay, NoDelay
<1>1. CASE UNCHANGED <<time, delayPool, Ringing>>
  BY <1>1 DEF Timers!tvars, Ringing
<1>2. CASE AdvanceTime
  <2>1. /\ time' \in DueTimes /\ NewTime(time') /\ readyPool = {} /\ UNCHANGED delayed
        /\ pc # "aborted"
    BY <1>2, AdvanceTimePops DEF AdvanceTime, subs
  <2>2. \A q \in Procs : delayPool[q] # NoDelay => time' <= delayPool[q]
    BY <2>1 DEF NewTime, DueTimes, Scheduled, DuesPositive
  <2>3. PICK p \in Procs : delayPool[p] # NoDelay /\ time' = delayPool[p]
    BY <2>1 DEF DueTimes, Scheduled
  <2>4. Ringing = {}
    BY <2>1 DEF Ringing
  <2>5. \A q \in Procs : q \in readyPool' <=> delayPool[q] = time'
    BY <1>2, <2>2, <2>3, AdvanceTimePops DEF TypeOK
  <2>6. Ringing' = { q \in Procs : delayPool[q] = time' }
    BY <1>2, <2>1, <2>3, <2>5, AdvanceTimePops, AdvanceTimeTypeOK
    DEF Ringing, TimersExact, TypeOK
  <2>7. delayPool' = [q \in Procs |-> IF q \in Ringing' THEN NoDelay ELSE delayPool[q]]
    BY <1>2, <2>5, <2>6, AdvanceTimePops, AdvanceTimeTypeOK DEF TypeOK
  <2>8. Timers!Tick
    BY <2>2, <2>3, <2>4, <2>6, <2>7 DEF Timers!Tick, Ringing
  <2> QED BY <2>8 DEF Timers!Next
<1>3. CASE \/ Run \/ TimestepStart \/ DeltaStart \/ EvaluateDone \/ DeltaLimit
           \/ NothingScheduled \/ Terminated \/ UNCHANGED vars
  <2>1. UNCHANGED <<time, delayPool, readyPool, delayed>>
    BY <1>3 DEF StartsAtZero, Run, TimestepStart, DeltaStart, EvaluateDone, DeltaLimit,
                NothingScheduled, Terminated, vars, pools, subs
  <2> QED BY <1>1, <2>1 DEF Ringing
<1>4. CASE (\E e \in Events : Resolve(e)) \/ (\E p \in Procs : ProcReg(p))
  \* who is made ready now has either not been waiting for a Delay, or has its entry
  \* still, or was ready before
  <2>1. /\ UNCHANGED <<time, delayPool, delayed>> /\ readyPool \subseteq readyPool'
        /\ pc # "aborted"
    BY <1>4 DEF Resolve, ProcReg, subs
  <2>2. Ringing' = Ringing
    BY <2>1 DEF Ringing, TimersExact, TypeOK
  <2> QED BY <1>1, <2>1, <2>2
<1>5. CASE \E T \in SUBSET Events : Update(T) \/ DeltaEnd(T)
  BY <1>1, <1>5 DEF Update, DeltaEnd, Ringing, subs
<1>6. ASSUME NEW p \in Procs, NEW T \in SUBSET Events, NEW U \in SUBSET Sigs,
             NEW W \in SUBSET Events, NEW d \in Delays \cup {NoDelay},
             RunProc(p, T, U, W, d)
      PROVE  Timers!Handle(p, d)
  <2>1. pc # "aborted" /\ UNCHANGED time
    BY <1>6 DEF RunProc
  <2>2. Ringing' = Ringing \ {p}
    BY <1>6 DEF RunProc, Ringing, TypeOK
  <2>3. DueAfter(p, d) = IF d = NoDelay THEN NoDelay ELSE time + d
    BY <2>1 DEF DueAfter, TimersExact
  <2> QED BY <1>6, <2>1, <2>2, <2>3 DEF RunProc, Timers!Handle, Ringing
<1>7. ASSUME NEW p \in Procs, NEW T \in SUBSET Events, NEW U \in SUBSET Sigs,
             Abort(p, T, U)
      PROVE  Timers!Handle(p, NoDelay)
  <2>1. pc # "aborted" /\ UNCHANGED <<time, delayed>>
    BY <1>7 DEF Abort
  <2>2. DueAfter(p, NoDelay) = NoDelay
    BY <2>1 DEF DueAfter, TimersExact
  <2>3. Ringing' = Ringing \ {p}
    BY <1>7, <2>1, <2>2 DEF Abort, Ringing, TypeOK
  <2> QED BY <1>7, <2>1, <2>2, <2>3 DEF Abort, Timers!Handle, Ringing
<1> QED
  BY <1>2, <1>3, <1>4, <1>5, <1>6, <1>7
  DEF Next, KernelStep, DesignStep, Timers!Next

\* With delays of at least 1 the kernel is a service of exact timers: time jumps to
\* the earliest alarm, rings all alarms of that time and only those, and stands
\* still until their processes have run.
THEOREM TimersImplemented == ASSUME 0 \notin Delays PROVE Spec => TimersSpec
<1>1. Init => Timers!Init /\ DuesPositive /\ StartsAtZero
  BY DEF Init, Timers!Init, Timers!NoDelay, NoDelay, DuesPositive, StartsAtZero
<1>2. TypeOK /\ DuesPositive /\ [Next]_vars => DuesPositive'
  BY NextDuesPositive
<1>3. TypeOK /\ TimersExact /\ DuesPositive /\ StartsAtZero /\ [Next]_vars
        => [Timers!Next]_(Timers!tvars)
  BY NextTimersStep
<1> QED
  BY <1>1, <1>2, <1>3, NextStartsAtZero, TypeCorrect, TimersCorrect, PTL
  DEF Spec, TimersSpec, Timers!Spec
=============================================================================
