------------------------- MODULE SignalValueProofs --------------------------
(***************************************************************************)
(* Proofs about the values of signals of module SignalValue, for any       *)
(* processes, signals, values and waits.  The signals are built on the     *)
(* kernel, so they rest on the theorems of module SimulatorProofs.         *)
(***************************************************************************)
EXTENDS SignalValue, SimulatorProofs

-----------------------------------------------------------------------------
(* Types, and the relation that says which cells hold one object *)

\* Cells that hold one object are an equivalence class.
Classes == \A c \in Cells(Sigs) : c \in alias[c] /\ \A d \in alias[c] : alias[d] = alias[c]

LEMMA FreshClasses ==
  ASSUME alias \in [Cells(Sigs) -> SUBSET Cells(Sigs)], Classes, NEW C \in SUBSET Cells(Sigs), alias' = Fresh(C)
  PROVE  alias' \in [Cells(Sigs) -> SUBSET Cells(Sigs)] /\ Classes'
BY DEF Fresh, Classes, Cells

LEMMA AssignTypes ==
  ASSUME STypeOK, NEW s \in Sigs, NEW v \in Values(Bits), Assign(s, v)
  PROVE  held' \in [Cells(Sigs) -> Values(Bits)] /\ alias' \in [Cells(Sigs) -> SUBSET Cells(Sigs)] /\ Classes'
<1>1. <<s, "next">> \in Cells(Sigs)
  BY DEF Cells
<1> QED BY <1>1, FreshClasses DEF STypeOK, Assign, Classes

LEMMA CopyTypes ==
  ASSUME STypeOK, NEW s \in Sigs, NEW t \in Sigs, Copy(s, t)
  PROVE  held' \in [Cells(Sigs) -> Values(Bits)] /\ alias' \in [Cells(Sigs) -> SUBSET Cells(Sigs)] /\ Classes'
<1> DEFINE n == <<s, "next">>
           joined == alias[<<t, "val">>] \cup {n}
<1>1. n \in Cells(Sigs) /\ <<t, "val">> \in Cells(Sigs) /\ Val(t) \in Values(Bits)
  BY DEF Cells, STypeOK, Val
<1>2. CASE t \notin sourced
  BY <1>1, <1>2, AssignTypes DEF Copy
<1>3. CASE t \in sourced
  <2>1. /\ held' = [held EXCEPT ![n] = Val(t)]
        /\ alias' = [c \in Cells(Sigs) |-> IF c \in joined THEN joined ELSE alias[c] \ {n}]
    BY <1>3 DEF Copy
  <2>2. joined \subseteq Cells(Sigs)
    BY <1>1 DEF STypeOK
  <2>3. \A c \in Cells(Sigs) \ joined : \A d \in alias[c] \ {n} : d \notin joined
    \* a cell of the class of t._val would be in that class with all of its own
    BY <1>1 DEF STypeOK
  <2> QED BY <1>1, <2>1, <2>2, <2>3 DEF STypeOK, Classes
<1> QED BY <1>2, <1>3

LEMMA WriteSliceTypes ==
  ASSUME STypeOK, NEW s \in Sigs, NEW b \in Bits, NEW x \in {0, 1}, WriteSlice(s, b, x)
  PROVE  held' \in [Cells(Sigs) -> Values(Bits)] /\ alias' \in [Cells(Sigs) -> SUBSET Cells(Sigs)] /\ Classes'
<1>1. [NextVal(s) EXCEPT ![b] = x] \in Values(Bits)
  BY DEF STypeOK, NextVal, Cells, Values
<1> QED BY <1>1 DEF STypeOK, WriteSlice, Classes

\* What the slices of a design do to the values; every other step leaves all but the
\* update of the signals alone.
LEMMA NextSTypeOK == STypeOK /\ [SNext]_allvars => STypeOK'
<1> SUFFICES ASSUME STypeOK, [SNext]_allvars PROVE STypeOK'
  OBVIOUS
<1> USE SignalAssumption
<1>1. CASE UNCHANGED svars
  BY <1>1 DEF STypeOK, svars, valuevars, history
<1>2. ASSUME NEW p \in Procs, NEW P \in SUBSET Pushed, NEW U \in SUBSET Sigs,
             NEW W \in Waits \cup {{}}, NEW d, Slice(p, P, U, W, d)
      PROVE  /\ sourced' \subseteq Sigs /\ created' \subseteq Events
             /\ seen' \in [Procs -> [Sigs -> Values(Bits)]]
             /\ readEarly' \in [Procs -> SUBSET Sigs] /\ writtenEarly' \in [Procs -> SUBSET Sigs]
  <2>1. [s \in Sigs |-> Val(s)] \in [Sigs -> Values(Bits)]
    BY DEF STypeOK, Val, Cells
  <2>2. Unresolved \subseteq Sigs
    BY DEF Unresolved
  <2> QED BY <1>2, <2>1, <2>2 DEF Slice, History, STypeOK
<1>3. ASSUME NEW p \in Procs, Write(p) PROVE STypeOK'
  <2>1. PICK s \in Sigs, P \in SUBSET Pushed, W \in Waits, d \in Delays \cup {NoDelay} :
          /\ Slice(p, P, {s}, W, d)
          /\ \/ \E v \in Values(Bits) : Assign(s, v)
             \/ \E t \in Sigs : Copy(s, t)
             \/ \E b \in Bits, x \in {0, 1} : WriteSlice(s, b, x)
    BY <1>3 DEF Write
  <2>2. held' \in [Cells(Sigs) -> Values(Bits)] /\ alias' \in [Cells(Sigs) -> SUBSET Cells(Sigs)] /\ Classes'
    BY <2>1, AssignTypes, CopyTypes, WriteSliceTypes
  <2> QED BY <1>2, <1>3, <2>1, <2>2 DEF STypeOK, Write, Classes
<1>4. ASSUME NEW p \in Procs, ReadOnly(p) PROVE STypeOK'
  <2>1. PICK P \in SUBSET Pushed, W \in Waits, d \in Delays \cup {NoDelay} : Slice(p, P, {}, W, d)
    BY <1>4 DEF ReadOnly
  <2> QED BY <1>2, <1>4, <2>1 DEF STypeOK, ReadOnly
<1>5. ASSUME NEW p \in Procs, WriteAfter(p) PROVE STypeOK'
  <2>1. PICK s \in Sigs, v \in Values(Bits), P \in SUBSET Pushed, d \in Delays \ {0} :
          Slice(p, P, {}, {}, d) /\ later' = [later EXCEPT ![p] = <<s, v>>]
    BY <1>5 DEF WriteAfter
  <2> QED BY <1>2, <1>5, <2>1 DEF STypeOK, WriteAfter
<1>6. ASSUME NEW p \in Procs, DelayedWrite(p) PROVE STypeOK'
  <2>1. later[p][1] \in Sigs /\ later[p][2] \in Values(Bits)
    BY <1>6 DEF DelayedWrite, STypeOK
  <2>2. PICK P \in SUBSET Pushed, W \in Waits, d \in Delays \cup {NoDelay} :
          Slice(p, P, {later[p][1]}, W, d)
    BY <1>6 DEF DelayedWrite
  <2>3. held' \in [Cells(Sigs) -> Values(Bits)] /\ alias' \in [Cells(Sigs) -> SUBSET Cells(Sigs)] /\ Classes'
    BY <1>6, <2>1, AssignTypes DEF DelayedWrite
  <2>4. /\ sourced' \subseteq Sigs /\ created' \subseteq Events
        /\ seen' \in [Procs -> [Sigs -> Values(Bits)]]
        /\ readEarly' \in [Procs -> SUBSET Sigs] /\ writtenEarly' \in [Procs -> SUBSET Sigs]
    <3>1. {later[p][1]} \in SUBSET Sigs /\ W \in Waits \cup {{}}
      BY <2>1
    <3> QED BY <1>2, <2>2, <3>1
  <2> QED BY <1>6, <2>3, <2>4 DEF STypeOK, DelayedWrite, Classes
<1>7. CASE SignalsUpdate
  <2> DEFINE C == { s \in updatePool : Val(s) # NextVal(s) } \X {"val"}
  <2>1. alias' = Fresh(C)
    BY <1>7 DEF SignalsUpdate
  <2>2. alias' = Fresh(C \cap Cells(Sigs))
    BY <2>1 DEF Fresh, STypeOK
  <2>3. alias' \in [Cells(Sigs) -> SUBSET Cells(Sigs)] /\ Classes'
    BY <2>2, FreshClasses DEF STypeOK, Classes
  <2>4. held' \in [Cells(Sigs) -> Values(Bits)]
    <3>1. \A c \in Cells(Sigs) : NextVal(c[1]) \in Values(Bits)
      BY DEF STypeOK, NextVal, Cells
    <3> QED BY <1>7, <3>1 DEF SignalsUpdate, STypeOK
  <2> QED BY <1>7, <2>3, <2>4 DEF SignalsUpdate, STypeOK, Classes, history
<1> QED
  BY <1>1, <1>3, <1>4, <1>5, <1>6, <1>7 DEF SNext, allvars

\* The types of the signals' state.
THEOREM STypeCorrect == SSpec => []STypeOK
<1>1. SInit => STypeOK
  <2>1. [b \in Bits |-> 0] \in Values(Bits)
    BY DEF Values
  <2>2. ASSUME SInit PROVE alias \in [Cells(Sigs) -> SUBSET Cells(Sigs)] /\ Classes
    BY <2>2 DEF SInit, Classes
  <2> QED BY <2>1, <2>2 DEF SInit, STypeOK, Classes
<1> QED BY <1>1, NextSTypeOK, PTL DEF SSpec

-----------------------------------------------------------------------------
(* The signals use the kernel as it is *)

\* Events that a slice may trigger; the others are triggered by an update.
Enqueues == { e \in Events : e[2] = "enqueued" }

LEMMA SliceOfDesign ==
  ASSUME STypeOK, NEW p \in Procs,
         Write(p) \/ ReadOnly(p) \/ WriteAfter(p) \/ DelayedWrite(p)
  PROVE  \E P \in SUBSET Pushed, U \in SUBSET Sigs, W \in SUBSET Events, d \in Delays \cup {NoDelay} :
           /\ Slice(p, P, U, W, d)
           /\ Enqueue(P) \in SUBSET Enqueues
<1> USE SignalAssumption
<1>1. \A P \in SUBSET Pushed : Enqueue(P) \in SUBSET Enqueues
  BY DEF Enqueue, Enqueues, STypeOK
<1>2. CASE Write(p)
  <2>1. PICK s \in Sigs, P \in SUBSET Pushed, W \in Waits, d \in Delays \cup {NoDelay} :
          Slice(p, P, {s}, W, d)
    BY <1>2 DEF Write
  <2> QED BY <1>1, <2>1
<1>3. CASE ReadOnly(p)
  BY <1>1, <1>3 DEF ReadOnly
<1>4. CASE WriteAfter(p)
  BY <1>1, <1>4 DEF WriteAfter
<1>5. CASE DelayedWrite(p)
  <2>1. {later[p][1]} \in SUBSET Sigs
    BY <1>5 DEF DelayedWrite, STypeOK
  <2> QED BY <1>1, <1>5, <2>1 DEF DelayedWrite
<1> QED BY <1>2, <1>3, <1>4, <1>5

LEMMA UpdateOfDesign ==
  ASSUME STypeOK, SignalsUpdate
  PROVE  \E T \in SUBSET Events : Update(T)
<1>1. UNION { Triggers(s) : s \in updatePool } \subseteq Events
  BY DEF Triggers, STypeOK
<1> QED BY <1>1 DEF SignalsUpdate

LEMMA SignalsAreKernelStep ==
  ASSUME STypeOK, [SNext]_allvars
  PROVE  [Next]_vars
<1>1. ASSUME NEW p \in Procs, Write(p) \/ ReadOnly(p) \/ WriteAfter(p) \/ DelayedWrite(p)
      PROVE  Next
  <2>1. PICK P \in SUBSET Pushed, U \in SUBSET Sigs, W \in SUBSET Events, d \in Delays \cup {NoDelay} :
          Slice(p, P, U, W, d) /\ Enqueue(P) \in SUBSET Events
    BY <1>1, SliceOfDesign DEF Enqueues
  <2> QED BY <2>1, SliceIsKernelStep DEF Slice
<1>2. CASE SignalsUpdate
  BY <1>2, UpdateOfDesign DEF Next, DesignStep
<1> QED BY <1>1, <1>2 DEF SNext, allvars, Next, DesignStep

\* Whatever is proved of the kernel holds while it runs these signals.
THEOREM SignalsOnKernel == SSpec => Spec
<1>1. SInit => Init
  BY DEF SInit
<1>2. STypeOK /\ [SNext]_allvars => [Next]_vars
  BY SignalsAreKernelStep
<1> QED BY <1>1, <1>2, STypeCorrect, PTL DEF SSpec, Spec

-----------------------------------------------------------------------------
(* Reads are stable *)

\* A slice changes no current value, unless it writes a slice in an object that is a
\* current value too.
LEMMA SliceStable ==
  ASSUME STypeOK, NEW s \in Sigs,
         \/ \E t \in Sigs, v \in Values(Bits) : Assign(t, v)
         \/ \E t \in Sigs, u \in Sigs : Copy(t, u)
         \/ \E t \in Sliced, b \in Bits, x \in {0, 1} : WriteSlice(t, b, x)
  PROVE  ReadStable(s)
<1>1. <<s, "val">> \in Cells(Sigs)
  BY DEF Cells
<1>2. ASSUME NEW t \in Sigs, NEW v \in Values(Bits), Assign(t, v) PROVE Val(s)' = Val(s)
  BY <1>1, <1>2 DEF Assign, Val, STypeOK
<1>3. ASSUME NEW t \in Sigs, NEW u \in Sigs, Copy(t, u) PROVE Val(s)' = Val(s)
  BY <1>1, <1>3 DEF Copy, Assign, Val, STypeOK
<1>4. ASSUME NEW t \in Sliced, NEW b \in Bits, NEW x \in {0, 1}, WriteSlice(t, b, x)
      PROVE  Val(s)' = Val(s) \/ <<t, "next">> \in alias[<<s, "val">>]
  <2>1. <<t, "next">> \in Cells(Sigs)
    BY SignalAssumption DEF Cells
  <2>2. <<s, "val">> \in alias[<<t, "next">>] => <<t, "next">> \in alias[<<s, "val">>]
    BY <2>1 DEF STypeOK
  <2> QED BY <1>1, <1>4, <2>2 DEF WriteSlice, Val
<1> QED BY <1>2, <1>3, <1>4 DEF ReadStable

LEMMA NextStable == STypeOK /\ [SNext]_allvars => StableStep
<1> SUFFICES ASSUME STypeOK, [SNext]_allvars, pc # "resolve", NEW s \in Sigs
             PROVE  ReadStable(s)
  BY DEF StableStep
<1>1. CASE UNCHANGED held
  BY <1>1 DEF ReadStable, Val
<1>2. ASSUME NEW p \in Procs, Write(p) PROVE ReadStable(s)
  BY <1>2, SliceStable DEF Write
<1>3. ASSUME NEW p \in Procs, DelayedWrite(p) PROVE ReadStable(s)
  <2>1. later[p][1] \in Sigs /\ later[p][2] \in Values(Bits)
    BY <1>3 DEF DelayedWrite, STypeOK
  <2> QED BY <1>3, <2>1, SliceStable DEF DelayedWrite
<1>4. ~SignalsUpdate
  BY DEF SignalsUpdate, Update
<1> QED
  BY <1>1, <1>2, <1>3, <1>4 DEF SNext, ReadOnly, WriteAfter, allvars, svars, valuevars

\* Whatever the slices of an evaluate phase do, and in which order, a signal reads as it
\* did before the phase, unless it shares its object with one written slice by slice.
THEOREM ReadsAreStable == SSpec => ReadsStable
<1>1. STypeOK /\ [SNext]_allvars => [StableStep]_allvars
  BY NextStable
<1> QED BY <1>1, STypeCorrect, PTL DEF SSpec, ReadsStable

-----------------------------------------------------------------------------
(* Changes and edges are reported exactly *)

\* Nobody waits before the simulation starts, and nobody for an event that does not exist.
WaitsExist ==
  /\ pc = "elaborate" => trigPool = {} /\ \A p \in Procs : events[p] = {}
  /\ \A p \in Procs : events[p] \subseteq created

\* The single event p waits for, and nothing else
WaitsFor(p, e) == events[p] = {e} /\ p \notin delayed

\* A signal that is written again before its change is resolved is recorded for all, and
\* still so for the processes that the change has then made ready.
EarlyWrites ==
  /\ \A s \in updatePool \cap Unresolved, q \in Procs : s \in writtenEarly[q]
  /\ pc = "resolve" =>
       \A q \in readyPool, s \in updatePool, k \in Changes :
         WaitsFor(q, <<s, k>>) => s \in writtenEarly[q]

\* An edge that is triggered is that of the current value.
EdgesPending ==
  \A s \in Sigs : /\ <<s, "posedge">> \in trigPool => Truth(Val(s))
                  /\ <<s, "negedge">> \in trigPool => ~Truth(Val(s))

\* What is owed to a process follows from the values, up to what came early.
ChangeOwed ==
  \A p \in Procs, s \in Sigs, k \in {"changed", "event_def"} :
    WaitsFor(p, <<s, k>>) =>
      /\ Val(s) # seen[p][s] => Owed(p)
      /\ Owed(p) => Val(s) # seen[p][s] \/ s \in readEarly[p] \cup writtenEarly[p]

EdgeOwed ==
  \A p \in Procs, s \in Sigs :
    Owed(p) /\ s \notin writtenEarly[p] =>
      /\ WaitsFor(p, <<s, "posedge">>) => Truth(Val(s))
      /\ WaitsFor(p, <<s, "negedge">>) => ~Truth(Val(s))

\* The steps of the kernel in which no process runs and no signal is updated
LEMMA QuietKeeps ==
  ASSUME KernelInv, Quiet
  PROVE  /\ UNCHANGED <<events, delayed, updatePool>>
         /\ trigPool' \subseteq trigPool
         /\ pc' = "elaborate" => pc = "elaborate"
         /\ pc' = "resolve" => pc = "resolve" \/ readyPool' = {}
<1>1. UNCHANGED <<events, delayed, updatePool>>
  BY QuietEffect DEF KernelInv
<1> QED BY <1>1 DEF Quiet, KernelStep, Run, TimestepStart, DeltaStart, EvaluateDone, Resolve,
       DeltaLimit, AdvanceTime, NothingScheduled, ProcReg, DeltaEnd, Terminated, vars, pools

\* What a slice of p that writes the signals U does, as far as the values go
SliceDoes(p, U) ==
  /\ pc = "evaluate" /\ pc' = pc
  /\ updatePool' = updatePool \cup U
  /\ readyPool' = readyPool \ {p}
  /\ \A s \in Sigs, k \in Changes : <<s, k>> \in trigPool' <=> <<s, k>> \in trigPool
  /\ \A s \in Sigs : Val(s)' = Val(s) /\ seen'[p][s] = Val(s)
  /\ readEarly'[p] = Unresolved
  /\ \A q \in Procs : (updatePool \cup U) \cap Unresolved \subseteq writtenEarly'[q]
  /\ \A q \in Procs \ {p} :
       /\ events'[q] = events[q] /\ (q \in delayed' <=> q \in delayed)
       /\ seen'[q] = seen[q] /\ readEarly'[q] = readEarly[q]
       /\ writtenEarly[q] \subseteq writtenEarly'[q]
  /\ \A q \in Procs, s \in Sigs, k \in Changes :
       events'[q] = {<<s, k>>} /\ <<s, k>> \in Events =>
         (Owed(q)' <=> q \in readyPool' \/ <<s, k>> \in trigPool)
  /\ \E W \in SUBSET Events : events'[p] = W /\ created' = created \cup W

LEMMA NotifiedAlone ==
  ASSUME Unchained, NEW e \in Events
  PROVE  Notified(e) = {e}
<1>1. \A f \in Notified(e) : f = e
  <2>1. {e} \in SUBSET Events /\ e \in {e} /\ \A x \in {e} : Chain[x] \subseteq {e}
    BY DEF Unchained
  <2> QED BY <2>1 DEF Notified
<1> QED BY <1>1, NotifiedEvents

\* Only the update phase changes what a signal reads as, when no slices are written.
LEMMA ValuesKept ==
  ASSUME Sliced = {}, STypeOK, [SNext]_allvars, pc # "resolve", NEW s \in Sigs
  PROVE  Val(s)' = Val(s)
BY NextStable DEF StableStep, ReadStable

LEMMA SliceSettles ==
  ASSUME Sliced = {}, KernelInv, STypeOK, [SNext]_allvars, NEW p \in Procs,
         Write(p) \/ ReadOnly(p) \/ WriteAfter(p) \/ DelayedWrite(p)
  PROVE  \E U \in SUBSET Sigs : SliceDoes(p, U)
<1>1. PICK P \in SUBSET Pushed, U \in SUBSET Sigs, W \in SUBSET Events, d \in Delays \cup {NoDelay} :
        Slice(p, P, U, W, d) /\ Enqueue(P) \in SUBSET Enqueues
  BY SliceOfDesign
<1> DEFINE T == Enqueue(P)
<1>2. RunProc(p, T, U, W, d) /\ T \in SUBSET Events /\ created' = created \cup W
  BY <1>1 DEF Slice, Enqueues
<1>3. /\ pc = "evaluate" /\ pc' = pc /\ readyPool' = readyPool \ {p}
      /\ trigPool' = trigPool \cup T /\ updatePool' = updatePool \cup U
      /\ SliceKeeps(p, W, d)
  BY <1>2, SliceEffect DEF KernelInv
<1>4. \A s \in Sigs, k \in Changes : <<s, k>> \in trigPool' <=> <<s, k>> \in trigPool
  <2>1. \A s \in Sigs, k \in Changes : <<s, k>> \notin T
    BY <1>1 DEF Enqueues, Changes
  <2> QED BY <1>3, <2>1
<1>5. \A s \in Sigs : Val(s)' = Val(s)
  BY <1>3, ValuesKept
<1>6. /\ \A s \in Sigs : seen'[p][s] = Val(s)
      /\ readEarly'[p] = Unresolved
      /\ \A q \in Procs : (updatePool \cup U) \cap Unresolved \subseteq writtenEarly'[q]
      /\ \A q \in Procs \ {p} : /\ seen'[q] = seen[q] /\ readEarly'[q] = readEarly[q]
                                /\ writtenEarly[q] \subseteq writtenEarly'[q]
  BY <1>1 DEF Slice, History, STypeOK
<1>7. \A q \in Procs, e \in Events : q \in evPool'[e] <=> e \in events'[q]
  BY <1>2, <1>3 DEF RunProc, Subscribed, Unsubscribed, SliceKeeps, KernelInv, SubscriptionsExact, TypeOK
<1>8. \A e \in Events : Woken(e)' = evPool'[e]
  BY NotifiedAlone, SignalAssumption DEF Woken, Unchained
<1>9. trigPool' \subseteq Events
  BY <1>2, <1>3 DEF KernelInv, TypeOK
<1>10. ASSUME NEW q \in Procs, NEW s \in Sigs, NEW k \in Changes,
              events'[q] = {<<s, k>>}, <<s, k>> \in Events
       PROVE  Owed(q)' <=> q \in readyPool' \/ <<s, k>> \in trigPool
  <2>1. \A e \in trigPool' : q \in Woken(e)' <=> e = <<s, k>>
    BY <1>7, <1>8, <1>9, <1>10
  <2> QED BY <1>4, <2>1 DEF Owed
<1>11. events'[p] = W
  BY <1>3 DEF SliceKeeps
<1> QED BY <1>2, <1>3, <1>4, <1>5, <1>6, <1>10, <1>11 DEF SliceDoes, SliceKeeps

\* The triggers of an update are those of the signals that change.
LEMMA UpdateOwes ==
  ASSUME KernelInv, STypeOK, WaitsExist, SignalsUpdate,
         NEW p \in Procs, NEW s \in Sigs, NEW k, events[p] = {<<s, k>>}
  PROVE  /\ Owed(p) <=> p \in readyPool
         /\ Owed(p)' <=> Owed(p) \/ (s \in updatePool /\ Fires(k, Val(s), NextVal(s)))
<1> DEFINE T == UNION { Triggers(u) : u \in updatePool }
<1>1. Update(T) /\ T \subseteq Events
  BY UpdateOfDesign DEF SignalsUpdate, Triggers, STypeOK
<1>2. pc = "resolve" /\ trigPool = {} /\ trigPool' = T /\ UNCHANGED <<readyPool, events, evPool>>
  BY <1>1 DEF Update, subs
<1>3. Owed(p) <=> p \in readyPool
  BY <1>2 DEF Owed
<1>4. <<s, k>> \in created /\ <<s, k>> \in Events
  BY DEF WaitsExist, STypeOK
<1>5. \A e \in Events : p \in Woken(e)' <=> e = <<s, k>>
  <2>1. \A e \in Events : p \in evPool[e] <=> e = <<s, k>>
    BY <1>2 DEF KernelInv, SubscriptionsExact
  <2>2. \A e \in Events : Woken(e)' = evPool[e]
    BY <1>2, NotifiedAlone, SignalAssumption DEF Woken, Unchained
  <2> QED BY <2>1, <2>2
<1>6. Owed(p)' <=> p \in readyPool \/ <<s, k>> \in T
  BY <1>1, <1>2, <1>4, <1>5 DEF Owed
<1>7. <<s, k>> \in T <=> s \in updatePool /\ Fires(k, Val(s), NextVal(s))
  BY <1>4 DEF Triggers
<1> QED BY <1>3, <1>6, <1>7

\* What an update leaves in a signal
LEMMA UpdatedValue ==
  ASSUME STypeOK, SignalsUpdate, NEW s \in Sigs
  PROVE  /\ Val(s)' = IF s \in updatePool /\ Val(s) # NextVal(s) THEN NextVal(s) ELSE Val(s)
         /\ \A k \in Changes : <<s, k>> \in trigPool' =>
              s \in updatePool /\ Fires(k, Val(s), NextVal(s))
<1>1. <<s, "val">> \in Cells(Sigs)
  BY DEF Cells
<1>2. Val(s)' = IF s \in updatePool /\ Val(s) # NextVal(s) THEN NextVal(s) ELSE Val(s)
  BY <1>1 DEF SignalsUpdate, Val
<1>3. trigPool' = UNION { Triggers(u) : u \in updatePool }
  BY DEF SignalsUpdate, Update
<1> QED BY <1>2, <1>3 DEF Triggers

LEMMA NextWaitsExist ==
  ASSUME Sliced = {}, KernelInv, STypeOK, WaitsExist, [SNext]_allvars
  PROVE  WaitsExist'
<1>1. CASE Quiet /\ UNCHANGED svars
  BY <1>1, QuietKeeps DEF WaitsExist, svars
<1>2. ASSUME NEW p \in Procs, Write(p) \/ ReadOnly(p) \/ WriteAfter(p) \/ DelayedWrite(p)
      PROVE  WaitsExist'
  <2>1. PICK U \in SUBSET Sigs : SliceDoes(p, U)
    BY <1>2, SliceSettles
  <2> QED BY <2>1 DEF SliceDoes, WaitsExist
<1>3. CASE SignalsUpdate
  BY <1>3 DEF SignalsUpdate, Update, WaitsExist, subs
<1> QED BY <1>1, <1>2, <1>3 DEF SNext, Quiet, allvars

LEMMA NextEarlyWrites ==
  ASSUME Sliced = {}, KernelInv, TimersExact, STypeOK, EarlyWrites, [SNext]_allvars, pc # "aborted"
  PROVE  EarlyWrites'
<1>1. CASE Quiet /\ UNCHANGED svars
  <2>1. UNCHANGED writtenEarly /\ Unresolved' \subseteq Unresolved
    BY <1>1, QuietKeeps DEF svars, history, Unresolved
  <2>2. ASSUME pc' = "resolve", NEW q \in readyPool', NEW s \in updatePool', NEW k \in Changes,
               WaitsFor(q, <<s, k>>)'
        PROVE  s \in writtenEarly'[q]
    <3>1. /\ pc = "resolve" /\ WaitsFor(q, <<s, k>>) /\ s \in updatePool
          /\ q \in Procs /\ s \in Sigs
      <4>1. readyPool' # {}
        BY <2>2
      <4>2. q \in Procs /\ updatePool \subseteq Sigs
        <5>1. TypeOK'
          BY <1>1, QuietEffect, SignalsAreKernelStep, NextTypeOK DEF KernelInv
        <5> QED BY <2>2, <5>1 DEF TypeOK, KernelInv
      <4> QED BY <1>1, <2>2, <4>1, <4>2, QuietKeeps DEF WaitsFor
    <3>2. CASE q \in readyPool
      BY <2>1, <3>1, <3>2 DEF EarlyWrites
    <3>3. CASE q \notin readyPool
      <4>1. <<s, k>> \in Events
        BY <3>1 DEF WaitsFor, KernelInv, TypeOK
      <4>2. <<s, k>> \in trigPool
        BY <1>1, <2>2, <3>1, <3>3, <4>1, WhoIsWoken, SignalAssumption DEF WaitsFor, Unchained
      <4>3. s \in Unresolved
        BY <3>1, <4>2 DEF Unresolved
      <4> QED BY <2>1, <3>1, <4>3 DEF EarlyWrites
    <3> QED BY <3>2, <3>3
  <2> QED BY <1>1, <2>1, <2>2, QuietKeeps DEF EarlyWrites
<1>2. ASSUME NEW p \in Procs, Write(p) \/ ReadOnly(p) \/ WriteAfter(p) \/ DelayedWrite(p)
      PROVE  EarlyWrites'
  <2>1. PICK U \in SUBSET Sigs : SliceDoes(p, U)
    BY <1>2, SliceSettles
  <2>2. Unresolved' = Unresolved
    BY <2>1 DEF SliceDoes, Unresolved
  <2> QED BY <2>1, <2>2 DEF SliceDoes, EarlyWrites
<1>3. CASE SignalsUpdate
  BY <1>3 DEF SignalsUpdate, Update, EarlyWrites
<1> QED BY <1>1, <1>2, <1>3 DEF SNext, Quiet, allvars

LEMMA NextEdgesPending ==
  ASSUME Sliced = {}, KernelInv, STypeOK, EdgesPending, [SNext]_allvars
  PROVE  EdgesPending'
<1>1. CASE Quiet /\ UNCHANGED svars
  <2>1. trigPool' \subseteq trigPool /\ \A s \in Sigs : Val(s)' = Val(s)
    BY <1>1, QuietKeeps DEF svars, valuevars, Val
  <2> QED BY <2>1 DEF EdgesPending, Truth
<1>2. ASSUME NEW p \in Procs, Write(p) \/ ReadOnly(p) \/ WriteAfter(p) \/ DelayedWrite(p)
      PROVE  EdgesPending'
  <2>1. PICK U \in SUBSET Sigs : SliceDoes(p, U)
    BY <1>2, SliceSettles
  <2>2. \A s \in Sigs, k \in {"posedge", "negedge"} : <<s, k>> \in trigPool' => <<s, k>> \in trigPool
    BY <2>1 DEF SliceDoes, Changes
  <2>3. \A s \in Sigs : Val(s)' = Val(s)
    BY <2>1 DEF SliceDoes
  <2> QED BY <2>2, <2>3 DEF EdgesPending, Truth
<1>3. CASE SignalsUpdate
  <2>1. ASSUME NEW s \in Sigs, <<s, "posedge">> \in trigPool' PROVE Truth(Val(s)')
    BY <1>3, <2>1, UpdatedValue DEF Fires, Changes
  <2>2. ASSUME NEW s \in Sigs, <<s, "negedge">> \in trigPool' PROVE ~Truth(Val(s)')
    BY <1>3, <2>2, UpdatedValue DEF Fires, Changes
  <2> QED BY <2>1, <2>2 DEF EdgesPending, Truth
<1> QED BY <1>1, <1>2, <1>3 DEF SNext, Quiet, allvars

LEMMA NextOwed ==
  ASSUME Sliced = {}, KernelInv, TimersExact, STypeOK, WaitsExist, EarlyWrites, EdgesPending,
         ChangeOwed, EdgeOwed, [SNext]_allvars, pc # "aborted"
  PROVE  ChangeOwed' /\ EdgeOwed'
<1>1. CASE Quiet /\ UNCHANGED svars
  <2>1. UNCHANGED <<events, delayed, held, seen, readEarly, writtenEarly>>
    BY <1>1, QuietKeeps DEF svars, valuevars, history
  <2>2. ASSUME NEW p \in Procs, NEW s \in Sigs, NEW k, WaitsFor(p, <<s, k>>)'
        PROVE  (Owed(p)' <=> Owed(p)) /\ WaitsFor(p, <<s, k>>)
    <3>1. WaitsFor(p, <<s, k>>) /\ pc # "elaborate" /\ <<s, k>> \in Events
      BY <2>1, <2>2 DEF WaitsFor, WaitsExist, STypeOK
    <3> QED BY <1>1, <3>1, QuietOwes, SignalAssumption DEF WaitsFor, Unchained
  <2>3. \A s \in Sigs : Val(s)' = Val(s)
    BY <2>1 DEF Val
  <2>4. ChangeOwed'
    BY <2>1, <2>2, <2>3 DEF ChangeOwed
  <2> QED BY <2>1, <2>2, <2>3, <2>4 DEF EdgeOwed, Truth
<1>2. ASSUME NEW p \in Procs, Write(p) \/ ReadOnly(p) \/ WriteAfter(p) \/ DelayedWrite(p)
      PROVE  ChangeOwed' /\ EdgeOwed'
  <2>1. PICK U \in SUBSET Sigs : SliceDoes(p, U)
    BY <1>2, SliceSettles
  <2>2. ASSUME NEW q \in Procs, NEW s \in Sigs, NEW k \in Changes, WaitsFor(q, <<s, k>>)'
        PROVE  Owed(q)' <=> q \in readyPool' \/ <<s, k>> \in trigPool
    <3>1. <<s, k>> \in Events
      BY <1>2, <2>2, NextWaitsExist, NextSTypeOK DEF WaitsFor, WaitsExist, STypeOK
    <3> QED BY <2>1, <2>2, <3>1 DEF SliceDoes, WaitsFor
  <2>3. ASSUME NEW q \in Procs \ {p}, NEW s \in Sigs, NEW k \in Changes, WaitsFor(q, <<s, k>>)'
        PROVE  WaitsFor(q, <<s, k>>) /\ (Owed(q)' <=> Owed(q))
    <3>1. WaitsFor(q, <<s, k>>) /\ (q \in readyPool' <=> q \in readyPool)
      BY <2>1, <2>3 DEF SliceDoes, WaitsFor
    <3>2. \A e \in Events : q \in Woken(e) <=> e = <<s, k>>
      <4>1. pc # "aborted"
        OBVIOUS
      <4> QED BY <3>1, <4>1, WokenBySubscription, SignalAssumption
              DEF Unchained, WaitsFor, KernelInv, SubscriptionsExact
    <3>3. <<s, k>> \in Events /\ trigPool \subseteq Events
      BY <3>1 DEF WaitsFor, KernelInv, TypeOK
    <3> QED BY <2>2, <2>3, <3>1, <3>2, <3>3 DEF Owed
  <2>4. ASSUME NEW s \in Sigs, NEW k \in Changes, WaitsFor(p, <<s, k>>)', Owed(p)'
        PROVE  <<s, k>> \in trigPool /\ s \in Unresolved
    <3>1. p \notin readyPool'
      BY <2>1 DEF SliceDoes
    <3> QED BY <2>2, <2>4, <3>1 DEF Unresolved
  <2>5. ASSUME NEW q \in Procs, NEW s \in Sigs, NEW k \in {"changed", "event_def"},
               WaitsFor(q, <<s, k>>)'
        PROVE  /\ Val(s)' # seen'[q][s] => Owed(q)'
               /\ Owed(q)' => Val(s)' # seen'[q][s] \/ s \in readEarly'[q] \cup writtenEarly'[q]
    <3>1. k \in Changes
      BY DEF Changes
    <3>2. CASE q = p
      BY <2>1, <2>4, <2>5, <3>1, <3>2 DEF SliceDoes
    <3>3. CASE q # p
      <4>1. WaitsFor(q, <<s, k>>) /\ (Owed(q)' <=> Owed(q))
        BY <2>3, <2>5, <3>1, <3>3
      <4> QED BY <2>1, <3>3, <4>1 DEF SliceDoes, ChangeOwed
    <3> QED BY <3>2, <3>3
  <2>6. ASSUME NEW q \in Procs, NEW s \in Sigs, Owed(q)', s \notin writtenEarly'[q]
        PROVE  /\ WaitsFor(q, <<s, "posedge">>)' => Truth(Val(s)')
               /\ WaitsFor(q, <<s, "negedge">>)' => ~Truth(Val(s)')
    <3>1. {"posedge", "negedge"} \subseteq Changes
      BY DEF Changes
    <3>2. CASE q = p
      BY <2>1, <2>4, <2>6, <3>1, <3>2 DEF SliceDoes, EdgesPending
    <3>3. CASE q # p
      BY <2>1, <2>3, <2>6, <3>1, <3>3 DEF SliceDoes, EdgeOwed
    <3> QED BY <3>2, <3>3
  <2>7. ChangeOwed'
    BY <2>5 DEF ChangeOwed
  <2> QED BY <2>6, <2>7 DEF EdgeOwed, Truth
<1>3. CASE SignalsUpdate
  <2>1. UNCHANGED <<events, delayed, seen, readEarly, writtenEarly>> /\ pc = "resolve"
    BY <1>3 DEF SignalsUpdate, Update, subs, history
  <2>2. ASSUME NEW p \in Procs, NEW s \in Sigs, NEW k \in Changes, WaitsFor(p, <<s, k>>)'
        PROVE  /\ WaitsFor(p, <<s, k>>)
               /\ Owed(p)' <=> Owed(p) \/ (s \in updatePool /\ Fires(k, Val(s), NextVal(s)))
               /\ Owed(p) /\ s \in updatePool => s \in writtenEarly'[p]
    <3>1. WaitsFor(p, <<s, k>>)
      BY <2>1, <2>2 DEF WaitsFor
    <3>2. /\ Owed(p) <=> p \in readyPool
          /\ Owed(p)' <=> Owed(p) \/ (s \in updatePool /\ Fires(k, Val(s), NextVal(s)))
      BY <1>3, <3>1, UpdateOwes DEF WaitsFor
    <3> QED BY <2>1, <3>1, <3>2 DEF EarlyWrites
  <2>3. ASSUME NEW p \in Procs, NEW s \in Sigs, NEW k \in {"changed", "event_def"},
               WaitsFor(p, <<s, k>>)'
        PROVE  /\ Val(s)' # seen'[p][s] => Owed(p)'
               /\ Owed(p)' => Val(s)' # seen'[p][s] \/ s \in readEarly'[p] \cup writtenEarly'[p]
    <3>1. k \in Changes /\ (Fires(k, Val(s), NextVal(s)) <=> Val(s) # NextVal(s))
      BY DEF Fires, Changes, Kinds
    <3>2. /\ WaitsFor(p, <<s, k>>)
          /\ Owed(p)' <=> Owed(p) \/ (s \in updatePool /\ Val(s) # NextVal(s))
          /\ Owed(p) /\ s \in updatePool => s \in writtenEarly'[p]
      BY <2>2, <2>3, <3>1
    <3>3. /\ Val(s) # seen[p][s] => Owed(p)
          /\ Owed(p) => Val(s) # seen[p][s] \/ s \in readEarly[p] \cup writtenEarly[p]
      BY <3>2 DEF ChangeOwed
    <3>4. Val(s)' = IF s \in updatePool /\ Val(s) # NextVal(s) THEN NextVal(s) ELSE Val(s)
      BY <1>3, UpdatedValue
    <3> QED BY <2>1, <3>2, <3>3, <3>4
  <2>4. ASSUME NEW p \in Procs, NEW s \in Sigs, Owed(p)', s \notin writtenEarly'[p]
        PROVE  /\ WaitsFor(p, <<s, "posedge">>)' => Truth(Val(s)')
               /\ WaitsFor(p, <<s, "negedge">>)' => ~Truth(Val(s)')
    <3>1. Val(s)' = IF s \in updatePool /\ Val(s) # NextVal(s) THEN NextVal(s) ELSE Val(s)
      BY <1>3, UpdatedValue
    <3>2. ASSUME WaitsFor(p, <<s, "posedge">>)' PROVE Truth(Val(s)')
      <4>1. /\ WaitsFor(p, <<s, "posedge">>)
            /\ Owed(p)' <=> Owed(p) \/ (s \in updatePool /\ Fires("posedge", Val(s), NextVal(s)))
            /\ Owed(p) /\ s \in updatePool => s \in writtenEarly'[p]
        BY <2>2, <3>2 DEF Changes
      <4>2. CASE Owed(p)
        BY <2>1, <2>4, <3>1, <4>1, <4>2 DEF EdgeOwed
      <4>3. CASE ~Owed(p)
        BY <2>4, <3>1, <4>1, <4>3 DEF Fires
      <4> QED BY <4>2, <4>3
    <3>3. ASSUME WaitsFor(p, <<s, "negedge">>)' PROVE ~Truth(Val(s)')
      <4>1. /\ WaitsFor(p, <<s, "negedge">>)
            /\ Owed(p)' <=> Owed(p) \/ (s \in updatePool /\ Fires("negedge", Val(s), NextVal(s)))
            /\ Owed(p) /\ s \in updatePool => s \in writtenEarly'[p]
        BY <2>2, <3>3 DEF Changes
      <4>2. CASE Owed(p)
        BY <2>1, <2>4, <3>1, <4>1, <4>2 DEF EdgeOwed
      <4>3. CASE ~Owed(p)
        BY <2>4, <3>1, <4>1, <4>3 DEF Fires
      <4> QED BY <4>2, <4>3
    <3> QED BY <3>2, <3>3
  <2>5. ChangeOwed'
    BY <2>3 DEF ChangeOwed
  <2> QED BY <2>4, <2>5 DEF EdgeOwed, Truth
<1> QED BY <1>1, <1>2, <1>3 DEF SNext, Quiet, allvars

\* No slice of this design raises.
LEMMA NeverAborted == STypeOK /\ pc # "aborted" /\ [SNext]_allvars => pc' # "aborted"
<1> SUFFICES ASSUME STypeOK, pc # "aborted", [SNext]_allvars PROVE pc' # "aborted"
  OBVIOUS
<1>1. CASE \E p \in Procs : Write(p) \/ ReadOnly(p) \/ WriteAfter(p) \/ DelayedWrite(p)
  BY <1>1, SliceOfDesign DEF Slice, RunProc
<1>2. CASE SignalsUpdate
  BY <1>2 DEF SignalsUpdate, Update
<1> QED
  BY <1>1, <1>2 DEF SNext, KernelStep, Run, TimestepStart, DeltaStart, EvaluateDone, Resolve,
     DeltaLimit, AdvanceTime, NothingScheduled, ProcReg, DeltaEnd, Terminated, vars, allvars

LEMMA OwedCorrect ==
  ASSUME Sliced = {}
  PROVE  SSpec => [](ChangeOwed /\ EdgeOwed)
<1> DEFINE Inv == /\ pc # "aborted" /\ WaitsExist /\ EarlyWrites /\ EdgesPending
                  /\ ChangeOwed /\ EdgeOwed
<1>1. SInit => Inv
  <2> SUFFICES ASSUME SInit
               PROVE WaitsExist /\ EarlyWrites /\ EdgesPending /\ ChangeOwed /\ EdgeOwed
    BY DEF SInit, Init
  <2>1. (\A p \in Procs : events[p] = {}) /\ trigPool = {} /\ updatePool = {} /\ readyPool = {}
    BY DEF SInit, Init
  <2>2. pc = "elaborate"
    BY DEF SInit, Init
  <2> QED BY <2>1, <2>2 DEF WaitsExist, EarlyWrites, EdgesPending, ChangeOwed, EdgeOwed, WaitsFor
<1>2. KernelInv /\ TimersExact /\ STypeOK /\ Inv /\ [SNext]_allvars => Inv'
  BY NextWaitsExist, NextEarlyWrites, NextEdgesPending, NextOwed, NeverAborted
<1>3. Spec => [](KernelInv /\ TimersExact)
  BY TypeCorrect, SubscriptionsCorrect, WritesCorrect, TimersCorrect, PTL DEF KernelInv
<1> QED BY <1>1, <1>2, <1>3, STypeCorrect, SignalsOnKernel, PTL DEF SSpec

\* A process that waits for a change is owed a slice whenever the signal differs from
\* what the process has last read: whoever writes and pushes, and when, no change is
\* missed between a read and a subscription.  It is owed one only then, or when a slice
\* came between the update and the resolution of its events.
THEOREM ChangesExact == ASSUME Sliced = {} PROVE SSpec => []ChangeExact
<1>1. KernelInv /\ ChangeOwed => ChangeExact
  BY DEF KernelInv, TypeOK, ChangeExact, ChangeOwed, WaitsFor
<1>2. Spec => []KernelInv
  BY TypeCorrect, SubscriptionsCorrect, WritesCorrect, PTL DEF KernelInv
<1> QED BY <1>1, <1>2, OwedCorrect, SignalsOnKernel, PTL

\* The value that an edge has left is still there when the woken process runs, unless
\* the signal was written between the update and the resolution of the edge.
THEOREM EdgesSeen == ASSUME Sliced = {} PROVE SSpec => []EdgeSeen
<1>1. KernelInv /\ EdgeOwed => EdgeSeen
  BY DEF KernelInv, TypeOK, EdgeSeen, EdgeOwed, WaitsFor, Owed
<1>2. Spec => []KernelInv
  BY TypeCorrect, SubscriptionsCorrect, WritesCorrect, PTL DEF KernelInv
<1> QED BY <1>1, <1>2, OwedCorrect, SignalsOnKernel, PTL

-----------------------------------------------------------------------------
(* Designs that do not push *)

\* Without pushes a delta cycle either runs processes or resolves triggers: the events of
\* an update find nobody ready, and wake processes for the delta cycle after the next.
Alternates ==
  /\ pc # "resolve" => trigPool = {} \/ readyPool = {}
  /\ pc = "resolve" => updatePool = {} \/ readyPool = {}
  /\ trigPool # {} => updatePool = {}
  /\ pc = "elaborate" => trigPool = {}

LEMMA NextAlternates ==
  ASSUME Pushed = {}, KernelInv, STypeOK, Alternates, NothingEarly, [SNext]_allvars
  PROVE  Alternates' /\ NothingEarly'
<1>1. CASE Quiet /\ UNCHANGED svars
  <2>1. Alternates'
    BY <1>1 DEF KernelInv, WritesSettle, Alternates, Quiet, KernelStep, Run, TimestepStart,
       DeltaStart, EvaluateDone, Resolve, DeltaLimit, AdvanceTime, NothingScheduled, ProcReg,
       DeltaEnd, Terminated, vars, pools, Pending
  <2> QED BY <1>1, <2>1 DEF NothingEarly, svars, history
<1>2. ASSUME NEW p \in Procs, Write(p) \/ ReadOnly(p) \/ WriteAfter(p) \/ DelayedWrite(p)
      PROVE  Alternates' /\ NothingEarly'
  <2>1. PICK P \in SUBSET Pushed, U \in SUBSET Sigs, W \in SUBSET Events, d \in Delays \cup {NoDelay} :
          Slice(p, P, U, W, d)
    BY <1>2, SliceOfDesign
  <2>2. RunProc(p, {}, U, W, d)
    BY <2>1 DEF Slice, Enqueue
  <2>3. trigPool = {} /\ Unresolved = {}
    BY <2>2 DEF RunProc, Alternates, Unresolved
  <2>4. NothingEarly'
    BY <2>1, <2>3 DEF Slice, History, NothingEarly, STypeOK
  <2> QED BY <2>2, <2>3, <2>4 DEF RunProc, Alternates
<1>3. CASE SignalsUpdate
  BY <1>3 DEF SignalsUpdate, Update, Alternates, NothingEarly, history
<1> QED BY <1>1, <1>2, <1>3 DEF SNext, Quiet, allvars

\* Where nobody pushes nothing comes early, and ChangeExact and EdgeSeen hold without an
\* exception.
THEOREM NothingComesEarly == ASSUME Pushed = {} PROVE SSpec => []NothingEarly
<1>1. SInit => Alternates /\ NothingEarly
  BY DEF SInit, Init, Alternates, NothingEarly
<1>2. KernelInv /\ STypeOK /\ Alternates /\ NothingEarly /\ [SNext]_allvars
        => Alternates' /\ NothingEarly'
  BY NextAlternates
<1>3. Spec => []KernelInv
  BY TypeCorrect, SubscriptionsCorrect, WritesCorrect, PTL DEF KernelInv
<1> QED BY <1>1, <1>2, <1>3, STypeCorrect, SignalsOnKernel, PTL DEF SSpec
=============================================================================
