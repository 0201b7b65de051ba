----------------------------- MODULE Simulator -----------------------------
(***************************************************************************)
(* The simulation kernel of sydpy (sydpy/simulator.py) together with the   *)
(* objects it schedules: processes (process.py), events (_event.py) and    *)
(* delays (_delay.py).                                                     *)
(*                                                                         *)
(* Processes are greenlets: the code a process runs between two calls of   *)
(* Simulator.wait is one indivisible slice.  What a slice does is up to    *)
(* the user's design, so RunProc takes it as parameters: the events it     *)
(* triggers, the signals it asks to be updated, the processes' next wait.  *)
(* A module that models a part of the design composes with the kernel by   *)
(* conjoining its own effects to RunProc, Update and DeltaEnd.             *)
(***************************************************************************)
EXTENDS Integers, FiniteSets

CONSTANTS
  Procs,      \* the processes of the design
  Events,     \* the events of its signals
  Sigs,       \* the signals, as far as the update pool is concerned
  Delays,     \* the values passed to Delay()
  Chain,      \* Chain[e]: the events subscribed to event e (slave interfaces)
  Duration,   \* Simulator.duration
  MaxDelta    \* Simulator.max_delta_count

NoDelay == -1     \* the process has no entry in delay_pool / waits for no Delay

\* Event.resolve recurses through the events that are subscribed to an event;
\* Notified(e) are the events whose pools one resolve of e walks.
Notified(e) ==
  { f \in Events : \A S \in SUBSET Events :
      (e \in S /\ \A x \in S : Chain[x] \subseteq S) => f \in S }

ASSUME DelaysAssumption == Delays \subseteq Nat
ASSUME BoundsAssumption == Duration \in Nat /\ MaxDelta \in Nat
ASSUME ChainAssumption  == Chain \in [Events -> SUBSET Events]
\* A cyclic chain is an endless recursion in Event.resolve.
ASSUME AcyclicAssumption == \A e \in Events, f \in Events :
                              f \in Chain[e] => e \notin Notified(f)

VARIABLES
  pc,          \* where the scheduler loop Simulator._run stands
  time,        \* Simulator.time
  deltaCount,  \* Simulator.delta_count
  readyPool,   \* Simulator._ready_pool
  trigPool,    \* Simulator.trig_pool
  updatePool,  \* Simulator.update_pool
  delayPool,   \* Simulator.delay_pool: due time, NoDelay when there is no entry
  procPool,    \* Simulator._proc_pool
  events,      \* Process.events, the Events of the last wait
  delayed,     \* the processes whose Process.events holds a Delay
  evPool       \* Event.pool, the processes in it

pools == <<readyPool, trigPool, updatePool, delayPool>>
subs  == <<events, delayed, evPool>>
vars  == <<pc, time, deltaCount, pools, procPool, subs>>

TypeOK ==
  /\ pc \in {"elaborate", "timestep", "loop", "evaluate", "resolve",
             "delta_end", "finished", "aborted"}
  /\ time \in Nat
  /\ deltaCount \in Nat
  /\ readyPool \subseteq Procs
  /\ trigPool \subseteq Events
  /\ updatePool \subseteq Sigs
  /\ delayPool \in [Procs -> Nat \cup {NoDelay}]
  /\ procPool \subseteq Procs
  /\ events \in [Procs -> SUBSET Events]
  /\ delayed \subseteq Procs
  /\ evPool \in [Events -> SUBSET Procs]

Init ==
  /\ pc = "elaborate"
  /\ time = 0
  /\ deltaCount = 0
  /\ readyPool = {}
  /\ trigPool = {}
  /\ updatePool = {}
  /\ delayPool = [p \in Procs |-> NoDelay]
  /\ procPool = {}
  /\ events = [p \in Procs |-> {}]
  /\ delayed = {}
  /\ evPool = [e \in Events |-> {}]

-----------------------------------------------------------------------------
(* Elaboration *)

\* Process.__init__ registers every process with the kernel, which makes it ready.
\* (A run_start callback may still do so, before the loop looks at any pool.)
ProcReg(p) ==
  /\ pc = "elaborate"
  /\ p \notin procPool
  /\ procPool' = procPool \cup {p}
  /\ readyPool' = readyPool \cup {p}
  /\ UNCHANGED <<pc, time, deltaCount, trigPool, updatePool, delayPool, subs>>

Run ==
  /\ pc = "elaborate"
  /\ pc' = "timestep"
  /\ time' = 0
  /\ UNCHANGED <<deltaCount, pools, procPool, subs>>

-----------------------------------------------------------------------------
(* The scheduler loop *)

Pending == readyPool # {} \/ trigPool # {}

TimestepStart ==
  /\ pc = "timestep"
  /\ pc' = "loop"
  /\ deltaCount' = 0
  /\ UNCHANGED <<time, pools, procPool, subs>>

DeltaStart ==
  /\ pc = "loop"
  /\ Pending
  /\ pc' = "evaluate"
  /\ UNCHANGED <<time, deltaCount, pools, procPool, subs>>

\* A process that stays in the pools of its last wait
KeptSubscribed(pool, p, es) == pool

\* Event.unsubscribe and Event.subscribe for all events of one process
Unsubscribed(pool, p, es) ==
  [e \in Events |-> IF e \in es THEN pool[e] \ {p} ELSE pool[e]]
Subscribed(pool, p, es) ==
  [e \in Events |-> IF e \in es THEN pool[e] \cup {p} ELSE pool[e]]

\* A timer that is not dropped when an event wakes its process first
KeptDueAfter(p, d) == IF d # NoDelay THEN time + d ELSE delayPool[p]

\* The due time a process is left with: _unsubscribe drops its entry when it was
\* waiting for a Delay, _subscribe makes one when it now waits for Delay(d).
DueAfter(p, d) ==
  IF d # NoDelay THEN time + d
  ELSE IF p \in delayed THEN NoDelay ELSE delayPool[p]

\* A ready process is taken (in any order: _ready_pool is a set), unsubscribed
\* from its last wait, and run up to its next wait.  Its slice triggers the
\* events T and requests the update of the signals U; then it waits for the
\* events W and, unless d is NoDelay, for Delay(d).
RunProc(p, T, U, W, d) ==
  /\ pc = "evaluate"
  /\ p \in readyPool
  /\ readyPool' = readyPool \ {p}
  /\ trigPool' = trigPool \cup T
  /\ updatePool' = updatePool \cup U
  /\ evPool' = Subscribed(Unsubscribed(evPool, p, events[p]), p, W)
  /\ events' = [events EXCEPT ![p] = W]
  /\ delayPool' = [delayPool EXCEPT ![p] = DueAfter(p, d)]
  /\ delayed' = IF d = NoDelay THEN delayed \ {p} ELSE delayed \cup {p}
  /\ UNCHANGED <<pc, time, deltaCount, procPool>>

\* The slice raises: the exception surfaces in the parent greenlet, the one that
\* called Simulator.run, and the scheduler is never resumed.
Abort(p, T, U) ==
  /\ pc = "evaluate"
  /\ p \in readyPool
  /\ pc' = "aborted"
  /\ readyPool' = readyPool \ {p}
  /\ trigPool' = trigPool \cup T
  /\ updatePool' = updatePool \cup U
  /\ evPool' = Unsubscribed(evPool, p, events[p])
  /\ delayPool' = [delayPool EXCEPT ![p] = DueAfter(p, NoDelay)]
  /\ UNCHANGED <<time, deltaCount, procPool, events, delayed>>

EvaluateDone ==
  /\ pc = "evaluate"
  /\ readyPool = {}
  /\ pc' = "resolve"
  /\ UNCHANGED <<time, deltaCount, pools, procPool, subs>>

\* The processes one resolve of event e makes ready
Woken(e) == UNION { evPool[f] : f \in Notified(e) }

\* A resolve that does not follow the chain of events
ResolveOneLevel(e) ==
  /\ pc = "resolve"
  /\ e \in trigPool
  /\ trigPool' = trigPool \ {e}
  /\ readyPool' = readyPool \cup evPool[e]
  /\ UNCHANGED <<pc, time, deltaCount, updatePool, delayPool, procPool, subs>>

Resolve(e) ==
  /\ pc = "resolve"
  /\ e \in trigPool
  /\ trigPool' = trigPool \ {e}
  /\ readyPool' = readyPool \cup Woken(e)
  /\ UNCHANGED <<pc, time, deltaCount, updatePool, delayPool, procPool, subs>>

\* An update phase that forgets to clear the update pool
UpdateKeepsPool(T) ==
  /\ pc = "resolve"
  /\ trigPool = {}
  /\ updatePool = {} => T = {}
  /\ pc' = "delta_end"
  /\ trigPool' = T
  /\ UNCHANGED <<time, deltaCount, readyPool, updatePool, delayPool, procPool, subs>>

\* _update: the signals of the update pool take their next values and trigger T.
Update(T) ==
  /\ pc = "resolve"
  /\ trigPool = {}
  /\ updatePool = {} => T = {}
  /\ pc' = "delta_end"
  /\ trigPool' = T
  /\ updatePool' = {}
  /\ UNCHANGED <<time, deltaCount, readyPool, delayPool, procPool, subs>>

\* A count that runs the wrong way, and one that stands still
DeltaCountDown  == deltaCount - 1
DeltaCountStuck == deltaCount

DeltaCounted == deltaCount + 1

\* The delta cycle is counted; when nothing is left to do the delta_settled
\* callbacks may write signals and update them at once, which triggers T.
DeltaEnd(T) ==
  /\ pc = "delta_end"
  /\ DeltaCounted <= MaxDelta
  /\ Pending => T = {}
  /\ pc' = "loop"
  /\ deltaCount' = DeltaCounted
  /\ trigPool' = trigPool \cup T
  /\ UNCHANGED <<time, readyPool, updatePool, delayPool, procPool, subs>>

DeltaLimit ==
  /\ pc = "delta_end"
  /\ DeltaCounted > MaxDelta
  /\ pc' = "finished"
  /\ deltaCount' = DeltaCounted
  /\ UNCHANGED <<time, pools, procPool, subs>>

Scheduled == { p \in Procs : delayPool[p] # NoDelay }
DueTimes  == { delayPool[p] : p \in Scheduled }

\* A search that ends at the latest due time
LatestTime(t) == t \in DueTimes /\ \A u \in DueTimes : u <= t

\* The t_new of _advance_time.  Its test "not t_new" also holds of the time 0, so
\* entries due at 0 do not end the search: the new time is the earliest due time
\* other than 0, and 0 only when nothing else is scheduled.
NewTime(t) ==
  /\ t \in DueTimes
  /\ \A u \in DueTimes : u >= t \/ u = 0
  /\ t = 0 => DueTimes = {0}

\* An end of the simulation that comes one time step late
PastEndLate(t) == t > Duration + 1

\* max_time is the duration: _run adds it to the time, which is 0 then.
PastEnd(t) == t > Duration

\* Every process due by then leaves the delay pool and becomes ready.
AdvanceTime ==
  /\ pc = "loop"
  /\ ~Pending
  /\ \E t \in DueTimes :
       /\ NewTime(t)
       /\ LET due == { p \in Scheduled : delayPool[p] <= t } IN
            /\ readyPool' = readyPool \cup due
            /\ delayPool' = [p \in Procs |-> IF p \in due THEN NoDelay ELSE delayPool[p]]
       /\ time' = t
       /\ pc' = IF PastEnd(t) THEN "finished" ELSE "timestep"
  /\ deltaCount' = 0
  /\ UNCHANGED <<trigPool, updatePool, procPool, subs>>

NothingScheduled ==
  /\ pc = "loop"
  /\ ~Pending
  /\ Scheduled = {}
  /\ pc' = "finished"
  /\ UNCHANGED <<time, deltaCount, pools, procPool, subs>>

Stopped == pc \in {"finished", "aborted"}

Terminated == Stopped /\ UNCHANGED vars

-----------------------------------------------------------------------------
(* The kernel with a design of which nothing is known *)

\* A step of the scheduler loop whose effects are the kernel's own
KernelStep ==
  \/ Run
  \/ TimestepStart
  \/ DeltaStart
  \/ EvaluateDone
  \/ \E e \in Events : Resolve(e)
  \/ DeltaLimit
  \/ AdvanceTime
  \/ NothingScheduled

DesignStep ==
  \/ \E p \in Procs : ProcReg(p)
  \/ \E p \in Procs, T \in SUBSET Events, U \in SUBSET Sigs :
       \/ \E W \in SUBSET Events, d \in Delays \cup {NoDelay} : RunProc(p, T, U, W, d)
       \/ Abort(p, T, U)
  \/ \E T \in SUBSET Events : Update(T) \/ DeltaEnd(T)

Next == KernelStep \/ DesignStep \/ Terminated

Spec == Init /\ [][Next]_vars

\* Once Simulator.run has switched to the scheduler nothing else runs in the
\* interpreter: the loop goes on as long as every slice comes to an end.
Loop == pc # "elaborate" /\ Next

FairSpec == Spec /\ WF_vars(Loop)

-----------------------------------------------------------------------------
(* Properties *)

\* A process is in the pool of exactly the events of its last wait: no process is
\* woken by an event it gave up, and Event.unsubscribe, a set.remove, never
\* meets a process that is not there (a KeyError that would end the simulation).
SubscriptionsExact ==
  pc # "aborted" =>
    \A p \in Procs, e \in Events : p \in evPool[e] <=> e \in events[p]

\* The delay pool agrees with what the processes wait for.  An entry belongs to a
\* process that still waits for its Delay (one that an event woke earlier is not
\* woken again by the leftover) and is not overdue; a process whose entry is
\* gone is on its way to run.
TimersExact ==
  pc # "aborted" =>
    \A p \in Procs :
      /\ delayPool[p] # NoDelay => p \in delayed /\ delayPool[p] >= time
      /\ p \in delayed /\ delayPool[p] = NoDelay => p \in readyPool

\* A write waits for the update phase of its own delta cycle only: no signal is
\* left in the update pool when a delta cycle, and so a time step, ends.
WritesSettle ==
  updatePool # {} => pc \in {"evaluate", "resolve", "aborted"}

\* Nothing is run outside the simulated time: the last step of time may exceed it,
\* and then the processes it made ready are left in the ready pool.
NoSlicePastEnd == time > Duration => pc = "finished"

\* A process is owed a slice when it is ready, or when an event it waits for,
\* directly or through a chain of events, has been triggered.
Owed(p) == p \in readyPool \/ \E e \in trigPool : p \in Woken(e)

\* The scheduler takes p out of the ready pool and runs it.
Runs(p) ==
  /\ pc = "evaluate"
  /\ p \in readyPool
  /\ readyPool' = readyPool \ {p}

\* No lost wakeup: what a process is owed is settled by running that process, by
\* nothing else; neither the update phase, nor the end of a delta cycle or of a
\* time step, nor a slice of another process takes it back.
WakeupNotLost ==
  [][\A p \in Procs : Owed(p) /\ ~Owed(p)' => Runs(p)]_vars

\* Every run comes to an end: the delta limit bounds a time step and the duration
\* bounds the time steps (provided that no Delay is 0).
Terminates == pc # "elaborate" ~> Stopped

\* The docstring of _advance_time: time moves to the earliest scheduled process.
AdvancesToEarliest ==
  [][time' # time => \A u \in DueTimes : time' <= u]_vars

\* The comment in _evaluate: a process that supplies no waiting events is terminated,
\* that is, taken out of the process pool.
IdleProcLeaves ==
  pc = "loop" =>
    \A p \in procPool \ readyPool : events[p] # {} \/ p \in delayed

\* The timers the kernel implements: Delay is an alarm that rings at its time.
Timers == INSTANCE Timers WITH
  now     <- time,
  alarm   <- delayPool,
  ringing <- { p \in delayed \cap readyPool : delayPool[p] = NoDelay }

TimersSpec == Timers!Spec
=============================================================================
