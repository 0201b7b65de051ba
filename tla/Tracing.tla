------------------------------- MODULE Tracing -------------------------------
(***************************************************************************)
(* The events of the simulation loop (SimEvent and Simulator._run of       *)
(* sydpy/_simulator.py; simulator.py has the same SimEvent) and the        *)
(* extensions that hook to them: VCDTracer (extens/tracing.py), which      *)
(* writes the values of the signals to a file, and SimtimeProgress         *)
(* (extens/simprog.py).  What a delta cycle does to the signals is left    *)
(* open here; module Simulator has the cycle itself.                       *)
(***************************************************************************)
EXTENDS Integers, Sequences, SequencesExt

CONSTANTS
  Signals,
  Declared,      \* those with a trace on a channel below the top module
  TraceValues,
  UserCalls,     \* callbacks of the user
  Hooked,        \* Hooked[e]: those in the event e, in order
  Step,          \* SimtimeProgress.step
  Letters,       \* the letters of a trace's code (26 of them in the code)
  MaxTime, MaxDeltas

SimEvents  == {"timestep_start", "delta_start", "timestep_end", "run_end"}
Extensions == {"write_timestamp", "write_traces", "write_delta_traces", "writeVcdHeader",
               "log_begin_timestep"}
NoValue    == -1

ASSUME TracingAssumption ==
  /\ Declared \subseteq Signals /\ TraceValues \subseteq Nat
  /\ Hooked \in [SimEvents -> Seq(UserCalls)] /\ UserCalls \cap Extensions = {}
  /\ {Step, Letters} \subseteq Nat \ {0} /\ {MaxTime, MaxDeltas} \subseteq Nat

VARIABLES
  phase, now, delta,   \* the loop of _run
  value,               \* the values of the signals
  hooks,               \* the lists of callbacks
  ended,               \* ended[e]: the callbacks that have returned a false value
  traceDeltas,         \* VCDTracer.trace_deltas
  traces,              \* VCDTracer.trace_list: the signals that are traced, in order
  codes,               \* the code of each of them
  lastCode,            \* VCDTracer.last_code
  shown,               \* VCDTrace._val
  tmp,                 \* the lines of the temporary file
  file,                \* the lines of the final one
  oldTime,             \* SimtimeProgress.old_time
  truth                \* the values at each timestamp, in the order of the file

hookvars  == <<hooks, ended, traceDeltas>>
tracevars == <<traces, codes, lastCode>>
outvars   == <<shown, tmp, file, oldTime>>
vvars     == <<phase, now, delta, value, hookvars, tracevars, outvars, truth>>

Code == Nat \X (0 .. Letters - 1) \X (0 .. Letters - 1)

VTypeOK ==
  /\ phase \in {"init", "timestep_start", "loop", "evaluate", "advance", "finished"}
  /\ now \in 0 .. MaxTime /\ delta \in 0 .. MaxDeltas + 1
  /\ value \in [Signals -> TraceValues]
  /\ shown \in [Signals -> TraceValues \cup {NoValue}]
  /\ traceDeltas \in BOOLEAN
  /\ traces \in Seq(Signals) /\ lastCode \in Code
  /\ codes \in [Signals -> Code \cup {<<>>}]
  /\ \A s \in Signals : codes[s] # <<>> <=> s \in Range(traces)
  /\ oldTime \in Nat

\* The lists as they are made: the user's callbacks and those of the extensions
Own(e) ==
  CASE e = "timestep_start" -> <<"write_timestamp", "log_begin_timestep">>
    [] e = "delta_start"    -> IF traceDeltas THEN <<"write_delta_traces">> ELSE <<>>
    [] e = "timestep_end"   -> <<"write_traces">>
    [] e = "run_end"        -> <<"writeVcdHeader">>

Listed(e) == Hooked[e] \o Own(e)

\* The extensions are made before the simulation.
VInit ==
  /\ phase = "init" /\ now = 0 /\ delta = 0
  /\ value \in [Signals -> TraceValues]
  /\ traceDeltas \in BOOLEAN
  /\ hooks = [e \in SimEvents |-> Listed(e)]
  /\ ended = [e \in SimEvents |-> {}]
  /\ traces = <<>>
  /\ codes = [s \in Signals |-> <<>>]
  /\ lastCode = <<0, 0, 0>>
  /\ shown = [s \in Signals |-> NoValue]
  /\ tmp = <<>> /\ file = <<>>
  /\ oldTime = 0
  /\ truth = <<>>

-----------------------------------------------------------------------------
(* VCDTracer and SimtimeProgress *)

\* The items of q that are not in R, in order
Without(q, R) ==
  LET w[k \in 0 .. Len(q)] ==
        IF k = 0 THEN <<>> ELSE IF q[k] \in R THEN w[k - 1] ELSE Append(w[k - 1], q[k])
  IN  w[Len(q)]

\* add_trace: the next code, counted up from the last letter
NextCode(c) ==
  IF c[3] # Letters - 1 THEN <<c[1], c[2], c[3] + 1>>
  ELSE IF c[2] # Letters - 1 THEN <<c[1], c[2] + 1, 0>>
  ELSE <<c[1] + 1, 0, 0>>

\* A signal is traced from its first write on.
AddTrace(s) ==
  IF s \in Range(traces) THEN UNCHANGED tracevars
  ELSE /\ traces' = Append(traces, s)
       /\ codes' = [codes EXCEPT ![s] = lastCode]
       /\ lastCode' = NextCode(lastCode)

StampLine(k) == [kind |-> "stamp", at |-> <<now, k>>]
ValueLine(s) == [kind |-> "value", code |-> codes[s], val |-> value[s]]

\* The traces whose values differ from those last written
Changed(sh)  == Without(traces, {s \in Signals : sh[s] = value[s]})
Lines(q)     == [i \in 1 .. Len(q) |-> ValueLine(q[i])]

\* The changed values are written, without noting all of them
PrintForgets(st) ==
  LET new == Changed(st.shown)
  IN  [st EXCEPT !.tmp = @ \o Lines(new),
                 !.shown = [s \in Signals |-> IF s \in Range(new) /\ @[s] = NoValue THEN value[s] ELSE @[s]]]

\* The changed values are written.
PrintChanged(st) ==
  LET new == Changed(st.shown)
  IN  [st EXCEPT !.tmp = @ \o Lines(new),
                 !.shown = [s \in Signals |-> IF s \in Range(new) THEN value[s] ELSE @[s]]]

Stamped(st, k) == [st EXCEPT !.tmp = Append(@, StampLine(k))]

\* writeVcdHeader: the lines whose codes the hierarchy does not declare
Undeclared(q) == { line \in Range(q) : line.kind = "value" /\ \A s \in Declared : line.code # codes[s] }

Progress(t) == (t \div Step) * Step

\* What a callback does; those of the user write nothing.
Effect(st, c) ==
  CASE c = "write_timestamp"    -> Stamped(st, 0)
    [] c = "write_traces"       -> PrintChanged(st)
    [] c = "write_delta_traces" -> IF delta = 0 THEN st ELSE PrintChanged(Stamped(st, delta))
    [] c = "writeVcdHeader"     -> [st EXCEPT !.file = Without(st.tmp, Undeclared(st.tmp))]
    [] c = "log_begin_timestep" -> IF now > st.old + Step THEN [st EXCEPT !.old = Progress(now)] ELSE st
    [] OTHER                    -> st

-----------------------------------------------------------------------------
(* SimEvent *)

\* The callbacks of q, called in order
Called(q, st) ==
  LET f[k \in 0 .. Len(q)] == IF k = 0 THEN st ELSE Effect(f[k - 1], q[k])
  IN  f[Len(q)]

\* The expired callbacks deleted by their old places, from the first on
DeletedForward(q, R) ==
  LET d[k \in 0 .. Len(q)] ==
        IF k = 0 THEN q ELSE IF q[k] \in R /\ k <= Len(d[k - 1]) THEN RemoveAt(d[k - 1], k) ELSE d[k - 1]
  IN  d[Len(q)]

\* The places of the expired callbacks R in q, deleted from the last to the first
Deleted(q, R) ==
  LET d[k \in 0 .. Len(q)] ==
        IF k = 0 THEN q ELSE IF q[Len(q) + 1 - k] \in R THEN RemoveAt(d[k - 1], Len(q) + 1 - k) ELSE d[k - 1]
  IN  d[Len(q)]

\* The event e with the callbacks R returning a false value (None among them).
Fire(e, R) ==
  LET st == Called(hooks[e], [tmp |-> tmp, shown |-> shown, file |-> file, old |-> oldTime])
  IN  /\ hooks' = [hooks EXCEPT ![e] = Deleted(@, R)]
      /\ tmp' = st.tmp /\ shown' = st.shown /\ file' = st.file /\ oldTime' = st.old

\* Of the extensions' callbacks only writeVcdHeader returns nothing.
Event(e) ==
  \E R \in SUBSET (UserCalls \cap Range(hooks[e])) :
    /\ Fire(e, R \cup {"writeVcdHeader"})
    /\ ended' = [ended EXCEPT ![e] = @ \cup R \cup ({"writeVcdHeader"} \cap Range(hooks[e]))]
    /\ UNCHANGED traceDeltas

-----------------------------------------------------------------------------
(* The loop *)

\* A signal gets its value (and its trace) at a write of elaboration or of a delta cycle.
Written ==
  \E s \in Signals, v \in TraceValues : value' = [value EXCEPT ![s] = v] /\ AddTrace(s)

Initialize ==
  /\ phase = "init"
  /\ Written
  /\ UNCHANGED <<phase, now, delta, hookvars, outvars, truth>>

RunStart ==
  /\ phase = "init"
  /\ phase' = "timestep_start"
  /\ UNCHANGED <<now, delta, value, hookvars, tracevars, outvars, truth>>

TimestepBegins ==
  /\ phase = "timestep_start"
  /\ phase' = "loop" /\ delta' = 0
  /\ Event("timestep_start")
  /\ UNCHANGED <<now, value, tracevars, truth>>

\* The values that the file should give for the timestamp last written
Recorded(k) == Append(truth, [at |-> <<now, k>>, val |-> [s \in Range(traces) |-> value[s]]])

DeltaBegins ==
  /\ phase = "loop"
  /\ phase' = "evaluate"
  /\ Event("delta_start")
  /\ truth' = IF traceDeltas /\ delta > 0 THEN Recorded(delta) ELSE truth
  /\ UNCHANGED <<now, delta, value, tracevars>>

\* Evaluation and update change any signals, here one or none.
Settle ==
  /\ phase = "evaluate" /\ delta + 1 <= MaxDeltas
  /\ phase' = "loop"
  /\ delta' = delta + 1
  /\ Written \/ UNCHANGED <<value, tracevars>>
  /\ UNCHANGED <<now, hookvars, outvars, truth>>

\* One delta cycle too many: run_end comes without timestep_end.
TooManyDeltas ==
  /\ phase = "evaluate" /\ delta + 1 > MaxDeltas
  /\ phase' = "finished"
  /\ delta' = delta + 1
  /\ Event("run_end")
  /\ UNCHANGED <<now, value, tracevars, truth>>

TimestepEnds ==
  /\ phase = "loop"
  /\ phase' = "advance"
  /\ Event("timestep_end")
  /\ truth' = Recorded(IF traceDeltas /\ delta > 0 THEN delta - 1 ELSE 0)
  /\ UNCHANGED <<now, delta, value, tracevars>>

NextTimestep ==
  /\ phase = "advance"
  /\ phase' = "timestep_start"
  /\ now' \in now + 1 .. MaxTime
  /\ UNCHANGED <<delta, value, hookvars, tracevars, outvars, truth>>

RunEnd ==
  /\ phase = "advance"
  /\ phase' = "finished"
  /\ Event("run_end")
  /\ UNCHANGED <<now, delta, value, tracevars, truth>>

VNext ==
  \/ Initialize \/ RunStart
  \/ TimestepBegins \/ DeltaBegins \/ Settle \/ TimestepEnds
  \/ NextTimestep \/ RunEnd \/ TooManyDeltas
  \/ phase = "finished" /\ UNCHANGED vvars

VSpec == VInit /\ [][VNext]_vvars

-----------------------------------------------------------------------------
(* Properties *)

\* A callback stays in its event as long as it returns a true value and is taken out
\* when it does not, however many of its neighbours are at the same time: none of
\* the extensions is ever lost to a callback of the user, and their order is kept.  So
\* the reported time is never more than a step behind the simulation.
HooksExact ==
  /\ \A e \in SimEvents : hooks[e] = Without(Listed(e), ended[e])
  /\ phase = "loop" => oldTime <= now /\ now <= oldTime + Step

\* No two signals share a code.
CodesDiffer == \A s, t \in Range(traces) : s # t => codes[s] # codes[t]

NotAfter(t, u) == t[1] < u[1] \/ (t[1] = u[1] /\ t[2] <= u[2])

\* The line i of q is written under a timestamp up to t.
UpTo(q, i, t) == \A j \in 1 .. i : q[j].kind = "stamp" => NotAfter(q[j].at, t)

Gives(q, i, c) == q[i].kind = "value" /\ q[i].code = c

\* The lines q, read up to the timestamp t, leave the code c with the value v.
Replayed(q, t, c, v) ==
  \E i \in DOMAIN q :
    /\ Gives(q, i, c) /\ q[i].val = v /\ UpTo(q, i, t)
    /\ \A j \in i + 1 .. Len(q) : Gives(q, j, c) => ~ UpTo(q, j, t)

\* The last value recorded for a timestamp
LastOf(i) == i = Len(truth) \/ truth[i + 1].at # truth[i].at

\* Only the changes are written, so the file has to be read from its start; read that
\* way, it gives each declared signal, from the end of the time step of its first write
\* on, the value it had at the end of each time step (and of each delta cycle, the last
\* but one excepted, if deltas are traced).
FileExact ==
  /\ CodesDiffer
  /\ phase = "finished" =>
       \A i \in DOMAIN truth : LastOf(i) =>
         \A s \in Declared \cap DOMAIN truth[i].val :
           Replayed(file, truth[i].at, codes[s], truth[i].val[s])
=============================================================================
