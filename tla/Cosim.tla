-------------------------------- MODULE Cosim --------------------------------
(***************************************************************************)
(* Cosimulation with an HDL simulator (sydpy/xsim.py, server.py, cosim.py) *)
(* over the kernel of module Simulator and the other end of module         *)
(* Xsimintf.  XsimIntf hangs its commands on the kernel's callbacks; while *)
(* one is talking to the other end the kernel stands where it called it.   *)
(*                                                                         *)
(* One input and one output port stand for all: every command carries all  *)
(* values of one direction.  Processes of the design write the input and   *)
(* wait for changes of the output.                                         *)
(***************************************************************************)
EXTENDS Simulator, Xsimintf

CONSTANTS
  InSig,       \* the signal of the HDL module's input
  OutEvent,    \* the event of a change of its output
  InDflt,      \* the value the input has before the first write
  OutDflt      \* the value the output has before the first export

ASSUME CosimAssumption ==
  /\ Sigs = {InSig} /\ Events = {OutEvent} /\ Chain = [e \in Events |-> {}]
  /\ InDflt \in Vals /\ OutDflt \in Vals \cup {NoVal}

VARIABLES
  place,       \* the command that awaits its answer, by callback; "none", or "raised"
  cosimTime,   \* XsimIntf.cosim_time
  input,       \* the value of the input signal
  inputNext,   \* its next value
  output,      \* the value of the output signal
  created      \* OutEvent, once a process has used it

simside == <<place, cosimTime, input, inputNext, output, created>>
cvars   == <<vars, hdlvars, simside>>

Places == { "none", "raised", "start_get", "start_continue",
            "step_get", "step_skip", "step_set", "step_continue",
            "settled_import", "settled_continue", "settled_get", "settled_export",
            "end_get", "end_continue", "end_close" }

States == {"S_CONNECTED", "S_IMPORT", "S_EXPORT", "S_DELAY"}

CTypeOK ==
  /\ TypeOK
  /\ place \in Places
  /\ cosimTime \in Nat /\ hdlTime \in Nat
  /\ {input, inputNext} \subseteq Vals
  /\ output \in Vals \cup {NoVal}
  /\ {importBuf, hdlIn, hdlOut} \subseteq Vals \cup {NoVal}
  /\ created \subseteq Events
  /\ hdl \in States \cup {"running", "done"}
  /\ delay \in Int /\ finish \in BOOLEAN /\ changes \in 0 .. MaxChanges
  \* one command at a time, and either it or its answer is on its way
  /\ Len(toHdl) + Len(toSim) <= 1

CInit ==
  /\ Init /\ HdlInit
  /\ place = "none"
  /\ cosimTime = 0
  /\ input = InDflt /\ inputNext = InDflt
  /\ output = OutDflt
  /\ created = {}

-----------------------------------------------------------------------------
(* send_command *)

\* A step of the kernel alone, outside every callback
Alone == place = "none" /\ UNCHANGED hdlvars

Send(type, param) == toHdl' = Append(toHdl, Message(type, param))

Heard == UNCHANGED <<finish, hdl, delay, importBuf, ports>>

\* A callback begins with a command.
Begin(to, type, param) ==
  /\ place = "none"
  /\ place' = to
  /\ Send(type, param)
  /\ UNCHANGED toSim
  /\ Heard

\* The answer to the command of a place arrives; Server.recv waits for it without limit.
Answer(at) ==
  /\ place = at
  /\ toSim # <<>>
  /\ toSim' = Tail(toSim)
  /\ Heard

AnswerParam == Head(toSim).param

\* It is followed by the next command of the callback, or the callback returns.
Ask(at, to, type, param) ==
  /\ Answer(at)
  /\ place' = to
  /\ Send(type, param)
  /\ UNCHANGED <<vars, cosimTime, input, inputNext, output, created>>

Leave(at) == Answer(at) /\ place' = "none" /\ UNCHANGED toHdl

\* The callback raises: the exception leaves the simulation, and with the process
\* the connection ends.
Raise(at) ==
  /\ Answer(at)
  /\ place' = "raised"
  /\ UNCHANGED <<toHdl, vars, cosimTime, input, inputNext, output, created>>

-----------------------------------------------------------------------------
(* The callbacks *)

\* sim_run_start: a process is there, Cosim's own.
RunStart ==
  /\ pc = "elaborate" /\ procPool # {}
  /\ Begin("start_get", "GET", NoVal)
  /\ cosimTime' = 0
  /\ UNCHANGED <<vars, input, inputNext, output, created>>

Started ==
  \/ AnswerParam = "S_CONNECTED" /\ Ask("start_get", "start_continue", "CONTINUE", NoVal)
  \/ AnswerParam # "S_CONNECTED" /\ Raise("start_get")
  \/ Leave("start_continue") /\ Run /\ UNCHANGED <<cosimTime, input, inputNext, output, created>>

\* sim_timestep_start at time 0
FirstTimestep ==
  /\ time = 0
  /\ Alone
  /\ TimestepStart
  /\ cosimTime' = time
  /\ UNCHANGED <<place, input, inputNext, output, created>>

\* sim_timestep_start at any later time
TimestepBegins ==
  /\ pc = "timestep" /\ time > 0
  /\ Begin("step_get", "GET", NoVal)
  /\ UNCHANGED <<vars, cosimTime, input, inputNext, output, created>>

\* A delay that forgets the time unit in which the wrapper came to ask for it
WholeStep == time - cosimTime

StepLess1 == time - cosimTime - 1

\* A time step that does not mind where the HDL simulator waits
NeverAtExport == FALSE

AtExport == AnswerParam = "S_EXPORT"

TimestepGoesOn ==
  \/ AtExport /\ Ask("step_get", "step_skip", "CONTINUE", NoVal)
  \/ ~AtExport /\ Ask("step_get", "step_set", "SET", StepLess1)
  \/ Ask("step_skip", "step_set", "SET", StepLess1)
  \/ Ask("step_set", "step_continue", "CONTINUE", NoVal)
  \/ /\ Leave("step_continue")
     /\ TimestepStart
     /\ cosimTime' = time
     /\ UNCHANGED <<input, inputNext, output, created>>

\* The end of a delta cycle that has left something to do calls no callback.
DeltaEndPending ==
  /\ Alone
  /\ Pending
  /\ DeltaEnd({})
  /\ UNCHANGED simside

\* sim_delta_settled
DeltaSettled ==
  /\ pc = "delta_end" /\ DeltaCounted <= MaxDelta /\ ~Pending
  /\ Begin("settled_import", "IMPORT", input)
  /\ UNCHANGED <<vars, cosimTime, input, inputNext, output, created>>

\* recv_export writes the output and updates it at once: whoever waits for a change
\* of it runs in a further delta cycle.
OutputTriggers == IF AnswerParam = output THEN {} ELSE {OutEvent} \cap created

RecvExport ==
  /\ Leave("settled_export")
  /\ DeltaEnd(OutputTriggers)
  /\ output' = AnswerParam
  /\ UNCHANGED <<cosimTime, input, inputNext, created>>

SettledGoesOn ==
  \/ Ask("settled_import", "settled_continue", "CONTINUE", NoVal)
  \/ Ask("settled_continue", "settled_get", "GET", NoVal)
  \/ AnswerParam = "S_EXPORT" /\ Ask("settled_get", "settled_export", "EXPORT", NoVal)
  \/ AnswerParam \notin {"S_EXPORT", "S_DELAY"} /\ Raise("settled_get")
  \/ /\ AnswerParam = "S_DELAY"
     /\ Leave("settled_get")
     /\ DeltaEnd({})
     /\ UNCHANGED <<cosimTime, input, inputNext, output, created>>
  \/ RecvExport

\* The last step of the loop calls sim_run_end.
RunEnd ==
  /\ \/ DeltaLimit
     \/ NothingScheduled
     \/ AdvanceTime /\ pc' = "finished"
  /\ Begin("end_get", "GET", NoVal)
  /\ UNCHANGED <<cosimTime, input, inputNext, output, created>>

RunEndGoesOn ==
  \/ AnswerParam = "S_DELAY" /\ Ask("end_get", "end_close", "CLOSE", NoVal)
  \/ AnswerParam # "S_DELAY" /\ Ask("end_get", "end_continue", "CONTINUE", NoVal)
  \/ Ask("end_continue", "end_get", "GET", NoVal)

-----------------------------------------------------------------------------
(* The processes of the design *)

\* A slice may write the input, and waits for a change of the output or a Delay.
Slice(p) ==
  /\ Alone
  /\ \E U \in SUBSET {InSig}, W \in SUBSET {OutEvent}, d \in Delays \cup {NoDelay} :
       /\ RunProc(p, {}, U, W, d)
       /\ inputNext' \in IF U = {} THEN {inputNext} ELSE Vals
       /\ created' = created \cup W
  /\ UNCHANGED <<place, cosimTime, input, output>>

SignalUpdate ==
  /\ Alone
  /\ Update({})
  /\ input' = IF InSig \in updatePool THEN inputNext ELSE input
  /\ UNCHANGED <<place, cosimTime, inputNext, output, created>>

\* The steps of the loop that call no callback
QuietStep ==
  /\ Alone
  /\ \/ \E p \in Procs : ProcReg(p)
     \/ DeltaStart \/ EvaluateDone
     \/ \E e \in Events : Resolve(e)
     \/ AdvanceTime /\ pc' # "finished"
  /\ UNCHANGED simside

SimStep ==
  \/ RunStart \/ FirstTimestep \/ TimestepBegins \/ DeltaEndPending \/ DeltaSettled \/ RunEnd
  \/ toSim # <<>> /\ (Started \/ TimestepGoesOn \/ SettledGoesOn \/ RunEndGoesOn)
  \/ \E p \in Procs : Slice(p)
  \/ SignalUpdate
  \/ QuietStep

OtherEnd == HdlStep(place = "raised") /\ UNCHANGED <<vars, simside>>

\* Server.recv after the end of the connection: it keeps reading nothing.
RecvLoops ==
  /\ place \notin {"none", "raised"}
  /\ toSim = <<>> /\ hdl = "done"
  /\ UNCHANGED cvars

Exited == place = "raised" /\ hdl = "done" /\ UNCHANGED cvars

CNext == SimStep \/ OtherEnd \/ RecvLoops \/ Exited

CSpec == CInit /\ [][CNext]_cvars

\* Either end goes on by itself; only waiting too long is no one's duty.
CFairSpec ==
  /\ CSpec
  /\ WF_cvars(place # "none" /\ SimStep) /\ WF_cvars(pc # "elaborate" /\ SimStep)
  /\ WF_cvars(OtherEnd /\ (toHdl # <<>> \/ hdl = "running" \/ finish \/ place = "raised"))

-----------------------------------------------------------------------------
(* Properties *)

\* The two ends are at the same time: during a time step the HDL simulator stands at
\* the time of the kernel, or has settled and asks at the next for its delay.
TimesAgree ==
  pc \in {"loop", "evaluate", "resolve", "delta_end"} /\ hdl # "done" /\ ~finish =>
    hdlTime = IF hdl = "S_DELAY" THEN time + 1 ELSE time

\* When a time step has settled both ends have the same values on the ports.
ValuesAgree ==
  pc = "loop" /\ ~Pending /\ place = "none" /\ ~finish =>
    hdlIn = input /\ hdlOut \in {output, NoVal}

\* The HDL simulator is always in a state the callbacks expect: none of them raises,
\* and the other end is closed by CLOSE alone.
ProtocolKept ==
  /\ place # "raised"
  /\ finish => place = "end_close"

\* The comment in sim_timestep_start: sent on from the end of its delta cycle the HDL
\* simulator moves straight to its timestep process, where the delay that is set counts.
SetAtDelay == toHdl # <<>> /\ Handling /\ Head(toHdl).type = "SET" => hdl = "S_DELAY"

\* The HDL simulator does not outlive the run, however the run ends and whoever has
\* waited too long.
HdlEnds == pc # "elaborate" ~> hdl = "done"
=============================================================================
