---------------------------- MODULE CosimProofs -----------------------------
(***************************************************************************)
(* Proofs about the cosimulation of module Cosim, for every set of         *)
(* processes and values and any delays and limits.  The first two theorems *)
(* hold with an HDL design that changes its outputs any number of times    *)
(* and a connection that may time out, the last three under Prompt.        *)
(***************************************************************************)
EXTENDS Cosim, SimulatorProofs

-----------------------------------------------------------------------------
(* The kernel runs a cosimulation as it runs any design *)

\* The callbacks take a step of the kernel when they return, or leave it alone.
LEMMA CallbackIsKernelStep ==
  ASSUME Started \/ TimestepGoesOn \/ SettledGoesOn \/ RunEndGoesOn
  PROVE  [Next]_vars
<1>1. CASE Started
  BY <1>1 DEF Started, Ask, Raise, Next, KernelStep
<1>2. CASE TimestepGoesOn
  BY <1>2 DEF TimestepGoesOn, Ask, Next, KernelStep
<1>3. CASE SettledGoesOn
  <2>1. OutputTriggers \subseteq Events
    BY CosimAssumption DEF OutputTriggers
  <2>2. CASE RecvExport
    BY <2>1, <2>2 DEF RecvExport, Next, DesignStep
  <2> QED
    BY <1>3, <2>2 DEF SettledGoesOn, Ask, Raise, Next, DesignStep
<1>4. CASE RunEndGoesOn
  BY <1>4 DEF RunEndGoesOn, Ask
<1> QED BY <1>1, <1>2, <1>3, <1>4

LEMMA CosimIsKernelStep ==
  ASSUME [CNext]_cvars
  PROVE  [Next]_vars
<1>1. CASE RunStart \/ TimestepBegins \/ DeltaSettled
  BY <1>1 DEF RunStart, TimestepBegins, DeltaSettled
<1>2. CASE FirstTimestep \/ RunEnd
  BY <1>2 DEF FirstTimestep, RunEnd, Next, KernelStep
<1>3. CASE DeltaEndPending
  BY <1>3 DEF DeltaEndPending, Next, DesignStep
<1>4. CASE Started \/ TimestepGoesOn \/ SettledGoesOn \/ RunEndGoesOn
  BY <1>4, CallbackIsKernelStep
<1>5. ASSUME NEW p \in Procs, Slice(p) PROVE Next
  BY <1>5, CosimAssumption DEF Slice, Next, DesignStep
<1>6. CASE SignalUpdate
  BY <1>6 DEF SignalUpdate, Next, DesignStep
<1>7. CASE QuietStep
  BY <1>7 DEF QuietStep, Next, KernelStep, DesignStep
<1>8. CASE OtherEnd \/ RecvLoops \/ Exited \/ UNCHANGED cvars
  BY <1>8 DEF OtherEnd, RecvLoops, Exited, cvars
<1> QED
  BY <1>1, <1>2, <1>3, <1>4, <1>5, <1>6, <1>7, <1>8 DEF CNext, SimStep

\* Whatever is proved of the kernel holds during a cosimulation: the callbacks do
\* nothing to the kernel that a design could not do.
THEOREM KernelImplementedByCosim == CSpec => Spec
<1>1. CInit => Init
  BY DEF CInit
<1>2. [CNext]_cvars => [Next]_vars
  BY CosimIsKernelStep
<1> QED BY <1>1, <1>2, PTL DEF CSpec, Spec

-----------------------------------------------------------------------------
(* Types, and the one message on the connection *)

LEMMA OneMessage ==
  ASSUME NEW type, NEW param
  PROVE  LET m == Message(type, param)
         IN /\ Append(<<>>, m) = <<m>> /\ <<m>> # <<>>
            /\ Head(<<m>>) = m /\ Tail(<<m>>) = <<>>
            /\ m.type = type /\ m.param = param
BY DEF Message

Silent == toHdl = <<>> /\ toSim = <<>>
Sent(type, param) == toHdl = <<Message(type, param)>> /\ toSim = <<>>
Got(type, param)  == toHdl = <<>> /\ toSim = <<Message(type, param)>>

\* Either nothing is on its way, or a command whose parameter has the type of what it
\* sets, or its answer.  Only the answer to EXPORT is used as a value of a port.
LinkOK ==
  /\ place \in {"none", "raised"} => Silent
  /\ \/ Silent
     \/ \E type, param :
          /\ Sent(type, param)
          /\ type = "IMPORT" => param \in Vals
          /\ type = "SET" => param \in Int
          /\ place = "settled_export" <=> type = "EXPORT"
     \/ \E type, param :
          Got(type, param) /\ (place = "settled_export" => param \in Vals \cup {NoVal})

\* The types of what the two ends keep, apart from the kernel's variables
HdlTypes ==
  /\ hdlTime \in Nat
  /\ {importBuf, hdlIn, hdlOut} \subseteq Vals \cup {NoVal}
  /\ hdl \in States \cup {"running", "done"}
  /\ delay \in Int /\ finish \in BOOLEAN /\ changes \in 0 .. MaxChanges

SimTypes ==
  /\ place \in Places
  /\ cosimTime \in Nat
  /\ {input, inputNext} \subseteq Vals
  /\ output \in Vals \cup {NoVal}
  /\ created \subseteq Events

LEMMA ReceiveOne ==
  ASSUME LinkOK, NEW type, Receive(type)
  PROVE  \E param : /\ Sent(type, param) /\ toHdl' = <<>> /\ toSim = <<>>
                    /\ Head(toHdl).param = param
                    /\ type = "IMPORT" => param \in Vals
                    /\ type = "SET" => param \in Int
                    /\ place = "settled_export" <=> type = "EXPORT"
                    /\ place \notin {"none", "raised"}
<1>1. toHdl # <<>> /\ Head(toHdl).type = type /\ toHdl' = Tail(toHdl)
  BY DEF Receive
<1>2. PICK t, param : /\ Sent(t, param)
                      /\ t = "IMPORT" => param \in Vals
                      /\ t = "SET" => param \in Int
                      /\ place = "settled_export" <=> t = "EXPORT"
  BY <1>1 DEF LinkOK, Silent, Got
<1>3. t = type /\ toHdl' = <<>> /\ Head(toHdl).param = param
  BY <1>1, <1>2, OneMessage DEF Sent
<1>4. place \notin {"none", "raised"}
  BY <1>1 DEF LinkOK, Silent
<1> QED BY <1>2, <1>3, <1>4 DEF Sent

LEMMA ReplyOne ==
  ASSUME toSim = <<>>, toHdl' = <<>>, NEW type, NEW param, Reply(type, param)
  PROVE  Got(type, param)'
BY OneMessage DEF Reply, Got

LEMMA ReturnTypes ==
  ASSUME HdlTypes, Return, UNCHANGED <<finish, delay, importBuf>>
  PROVE  HdlTypes'
<1> USE HdlAssumption
<1>1. CASE hdl = "S_CONNECTED" /\ hdl' = "S_IMPORT" /\ UNCHANGED ports
  BY <1>1 DEF HdlTypes, ports, States
<1>2. CASE DriveInputs
  BY <1>2 DEF DriveInputs, HdlTypes, States
<1>3. CASE AfterDelay
  BY <1>3 DEF AfterDelay, HdlTypes, States
<1> QED BY <1>1, <1>2, <1>3 DEF Return

LEMMA HdlStepTypes ==
  ASSUME HdlTypes, SimTypes, LinkOK, OtherEnd
  PROVE  HdlTypes' /\ SimTypes' /\ LinkOK'
<1> USE HdlAssumption
<1>1. SimTypes' /\ place' = place
  BY DEF OtherEnd, SimTypes, simside
<1>2. CASE HandleGet
  <2>1. PICK param : Sent("GET", param) /\ toHdl' = <<>> /\ toSim = <<>>
                     /\ place # "settled_export" /\ place \notin {"none", "raised"}
    BY <1>2, ReceiveOne DEF HandleGet
  <2>2. Got("RESP", hdl)'
    BY <1>2, <2>1, ReplyOne DEF HandleGet, Got
  <2>3. HdlTypes'
    BY <1>2 DEF HandleGet, HdlTypes, ports
  <2> QED BY <1>1, <2>1, <2>2, <2>3 DEF LinkOK
<1>3. CASE HandleSet
  <2>1. PICK param : Sent("SET", param) /\ toHdl' = <<>> /\ toSim = <<>>
                     /\ Head(toHdl).param = param /\ param \in Int
                     /\ place # "settled_export" /\ place \notin {"none", "raised"}
    BY <1>3, ReceiveOne DEF HandleSet
  <2>2. Got("RESP", NoVal)'
    BY <1>3, <2>1, ReplyOne DEF HandleSet
  <2>3. HdlTypes'
    BY <1>3, <2>1 DEF HandleSet, HdlTypes, ports
  <2> QED BY <1>1, <2>1, <2>2, <2>3 DEF LinkOK
<1>4. CASE HandleImport
  <2>1. PICK param : Sent("IMPORT", param) /\ toHdl' = <<>> /\ toSim = <<>>
                     /\ Head(toHdl).param = param /\ param \in Vals
                     /\ place # "settled_export" /\ place \notin {"none", "raised"}
    BY <1>4, ReceiveOne DEF HandleImport
  <2>2. Got("RESP", NoVal)'
    BY <1>4, <2>1, ReplyOne DEF HandleImport
  <2>3. HdlTypes'
    BY <1>4, <2>1 DEF HandleImport, HdlTypes, ports
  <2> QED BY <1>1, <2>1, <2>2, <2>3 DEF LinkOK
<1>5. CASE HandleExport
  <2>1. PICK param : Sent("EXPORT", param) /\ toHdl' = <<>> /\ toSim = <<>>
                     /\ place \notin {"none", "raised"}
    BY <1>5, ReceiveOne DEF HandleExport
  <2>2. Got("EXPORT", hdlOut)'
    BY <1>5, <2>1, ReplyOne DEF HandleExport, Got, ports
  <2>3. HdlTypes'
    BY <1>5 DEF HandleExport, HdlTypes, ports
  <2> QED BY <1>1, <2>1, <2>2, <2>3 DEF LinkOK, HdlTypes
<1>6. CASE HandleContinue
  <2>1. PICK param : Sent("CONTINUE", param) /\ toHdl' = <<>> /\ toSim = <<>>
                     /\ place # "settled_export" /\ place \notin {"none", "raised"}
    BY <1>6, ReceiveOne DEF HandleContinue
  <2>2. Got("RESP", NoVal)'
    BY <1>6, <2>1, ReplyOne DEF HandleContinue
  <2>3. HdlTypes'
    BY <1>6, ReturnTypes DEF HandleContinue
  <2> QED BY <1>1, <2>1, <2>2, <2>3 DEF LinkOK
<1>7. CASE HandleClose
  <2>1. PICK param : Sent("CLOSE", param) /\ toHdl' = <<>> /\ toSim = <<>>
                     /\ place \notin {"none", "raised"}
    BY <1>7, ReceiveOne DEF HandleClose
  <2>2. Silent'
    BY <1>7, <2>1 DEF HandleClose, Silent
  <2>3. HdlTypes'
    BY <1>7 DEF HandleClose, HdlTypes, ports
  <2> QED BY <1>1, <2>1, <2>2, <2>3 DEF LinkOK
<1>8. CASE ReceiveNothing(place = "raised")
  BY <1>1, <1>8 DEF ReceiveNothing, HdlTypes, LinkOK, Silent, Sent, Got, link, ports
<1>9. CASE ReturnFinished
  <2>1. HdlTypes'
    BY <1>9, ReturnTypes DEF ReturnFinished
  <2> QED BY <1>1, <1>9, <2>1 DEF ReturnFinished, LinkOK, Silent, Sent, Got, link
<1>10. CASE OutputChange \/ Settle
  <2>1. HdlTypes'
    BY <1>10 DEF OutputChange, Settle, HdlTypes, States
  <2> QED BY <1>1, <1>10, <2>1
          DEF OutputChange, Settle, LinkOK, Silent, Sent, Got, link
<1> QED
  BY <1>2, <1>3, <1>4, <1>5, <1>6, <1>7, <1>8, <1>9, <1>10 DEF OtherEnd, HdlStep

\* What an answer brings: nothing else is on its way.
LEMMA AnswerOne ==
  ASSUME LinkOK, NEW at, Answer(at)
  PROVE  \E type, param : /\ Got(type, param) /\ AnswerParam = param
                          /\ toHdl = <<>> /\ toSim' = <<>>
                          /\ place = at
                          /\ at = "settled_export" => param \in Vals \cup {NoVal}
<1>1. PICK type, param : Got(type, param)
                         /\ (place = "settled_export" => param \in Vals \cup {NoVal})
  BY DEF Answer, LinkOK, Silent, Sent
<1> QED BY <1>1, OneMessage DEF Answer, Got, AnswerParam

LEMMA HeardTypes ==
  ASSUME HdlTypes, Heard PROVE HdlTypes'
BY DEF HdlTypes, Heard, ports

LEMMA BeginTypes ==
  ASSUME LinkOK, HdlTypes, NEW to \in Places \ {"none", "raised", "settled_export"},
         NEW type, NEW param, Begin(to, type, param),
         type = "IMPORT" => param \in Vals, type \notin {"SET", "EXPORT"}
  PROVE  LinkOK' /\ HdlTypes'
<1>1. Silent
  BY DEF Begin, LinkOK
<1>2. Sent(type, param)'
  BY <1>1, OneMessage DEF Begin, Silent, Send, Sent
<1> QED BY <1>2, HeardTypes DEF Begin, LinkOK

LEMMA AskTypes ==
  ASSUME LinkOK, HdlTypes, SimTypes,
         NEW at, NEW to \in Places \ {"none", "raised"}, NEW type, NEW param,
         Ask(at, to, type, param),
         type # "IMPORT", type = "SET" => param \in Int,
         to = "settled_export" <=> type = "EXPORT"
  PROVE  LinkOK' /\ HdlTypes' /\ SimTypes'
<1>1. Answer(at) /\ place' = to /\ toHdl' = Append(toHdl, Message(type, param))
  BY DEF Ask, Send
<1>2. toHdl = <<>> /\ toSim' = <<>>
  BY <1>1, AnswerOne
<1>3. Sent(type, param)'
  BY <1>1, <1>2, OneMessage DEF Sent
<1>4. SimTypes'
  BY <1>1 DEF Ask, SimTypes
<1> QED BY <1>1, <1>3, <1>4, HeardTypes DEF LinkOK, Answer

LEMMA LeaveTypes ==
  ASSUME LinkOK, HdlTypes, NEW at, Leave(at)
  PROVE  LinkOK' /\ HdlTypes' /\ place' \in Places
<1>1. Silent'
  BY AnswerOne DEF Leave, Silent
<1> QED BY <1>1, HeardTypes DEF Leave, Answer, LinkOK, Places

LEMMA RaiseTypes ==
  ASSUME LinkOK, HdlTypes, SimTypes, NEW at, Raise(at)
  PROVE  LinkOK' /\ HdlTypes' /\ SimTypes'
<1>1. Silent'
  BY AnswerOne DEF Raise, Silent
<1> QED BY <1>1, HeardTypes DEF Raise, Answer, LinkOK, Places, SimTypes

LEMMA AloneTypes ==
  ASSUME LinkOK, HdlTypes, Alone, place' = place
  PROVE  LinkOK' /\ HdlTypes'
BY DEF Alone, LinkOK, HdlTypes, hdlvars, link, ports, Silent, Sent, Got

LEMMA CallbackTypes ==
  ASSUME TypeOK, LinkOK, HdlTypes, SimTypes,
         Started \/ TimestepGoesOn \/ SettledGoesOn \/ RunEndGoesOn
  PROVE  LinkOK' /\ HdlTypes' /\ SimTypes'
<1>1. ASSUME NEW at, Raise(at) PROVE LinkOK' /\ HdlTypes' /\ SimTypes'
  BY <1>1, RaiseTypes
<1>2. ASSUME NEW at, NEW to \in Places \ {"none", "raised", "settled_export"},
             NEW type \in {"GET", "CONTINUE", "CLOSE"}, Ask(at, to, type, NoVal)
      PROVE  LinkOK' /\ HdlTypes' /\ SimTypes'
  BY <1>2, AskTypes
<1>3. ASSUME NEW at, Ask(at, "step_set", "SET", StepLess1)
      PROVE  LinkOK' /\ HdlTypes' /\ SimTypes'
  <2>1. StepLess1 \in Int
    BY DEF TypeOK, SimTypes, StepLess1
  <2> QED BY <1>3, <2>1, AskTypes DEF Places
<1>4. ASSUME NEW at, Leave(at), cosimTime' \in {cosimTime, time},
             UNCHANGED <<input, inputNext, output, created>>
      PROVE  LinkOK' /\ HdlTypes' /\ SimTypes'
  BY <1>4, LeaveTypes DEF SimTypes, TypeOK
<1>5. CASE Started
  BY <1>1, <1>2, <1>4, <1>5 DEF Started, Places
<1>6. CASE TimestepGoesOn
  BY <1>2, <1>3, <1>4, <1>6 DEF TimestepGoesOn, Places
<1>7. CASE Ask("settled_get", "settled_export", "EXPORT", NoVal)
  BY <1>7, AskTypes DEF Places
<1>8. CASE RecvExport
  <2>1. Answer("settled_export") /\ output' = AnswerParam
    BY <1>8 DEF RecvExport, Leave
  <2>2. AnswerParam \in Vals \cup {NoVal}
    BY <2>1, AnswerOne
  <2> QED BY <1>8, <2>1, <2>2, LeaveTypes DEF RecvExport, SimTypes
<1>9. CASE SettledGoesOn
  BY <1>1, <1>2, <1>4, <1>7, <1>8, <1>9 DEF SettledGoesOn, Places
<1>10. CASE RunEndGoesOn
  BY <1>2, <1>10 DEF RunEndGoesOn, Places
<1> QED BY <1>5, <1>6, <1>9, <1>10

LEMMA NextCosimTypes ==
  TypeOK /\ LinkOK /\ HdlTypes /\ SimTypes /\ [CNext]_cvars
    => TypeOK' /\ LinkOK' /\ HdlTypes' /\ SimTypes'
<1> SUFFICES ASSUME TypeOK, LinkOK, HdlTypes, SimTypes, [CNext]_cvars
             PROVE  TypeOK' /\ LinkOK' /\ HdlTypes' /\ SimTypes'
  OBVIOUS
<1>1. TypeOK'
  BY CosimIsKernelStep, NextTypeOK
<1>2. CASE RunStart \/ TimestepBegins \/ DeltaSettled \/ RunEnd
  <2>1. ASSUME NEW to \in Places \ {"none", "raised", "settled_export"},
               NEW type, NEW param, Begin(to, type, param),
               type = "IMPORT" => param \in Vals, type \notin {"SET", "EXPORT"},
               cosimTime' \in {0, cosimTime}, UNCHANGED <<input, inputNext, output, created>>
        PROVE  LinkOK' /\ HdlTypes' /\ SimTypes'
    BY <2>1, BeginTypes DEF Begin, SimTypes
  <2> QED BY <1>1, <1>2, <2>1
          DEF RunStart, TimestepBegins, DeltaSettled, RunEnd, Places, SimTypes
<1>3. CASE FirstTimestep \/ DeltaEndPending \/ SignalUpdate \/ QuietStep
  BY <1>1, <1>3, AloneTypes DEF FirstTimestep, DeltaEndPending, SignalUpdate, QuietStep,
     SimTypes, TypeOK, simside
<1>4. CASE Started \/ TimestepGoesOn \/ SettledGoesOn \/ RunEndGoesOn
  BY <1>1, <1>4, CallbackTypes
<1>5. ASSUME NEW p \in Procs, Slice(p) PROVE LinkOK' /\ HdlTypes' /\ SimTypes'
  BY <1>5, AloneTypes, CosimAssumption DEF Slice, SimTypes
<1>6. CASE OtherEnd
  BY <1>1, <1>6, HdlStepTypes
<1>7. CASE RecvLoops \/ Exited \/ UNCHANGED cvars
  BY <1>1, <1>7 DEF RecvLoops, Exited, cvars, LinkOK, HdlTypes, SimTypes,
     hdlvars, simside, link, ports, Silent, Sent, Got
<1> QED BY <1>1, <1>2, <1>3, <1>4, <1>5, <1>6, <1>7 DEF CNext, SimStep

LEMMA TypesSuffice ==
  ASSUME TypeOK, LinkOK, HdlTypes, SimTypes PROVE CTypeOK
<1>1. Len(toHdl) + Len(toSim) <= 1
  <2>1. Len(<<>>) = 0 /\ \A type, param : Len(<<Message(type, param)>>) = 1
    OBVIOUS
  <2>2. CASE Silent
    BY <2>1, <2>2 DEF Silent
  <2>3. ASSUME NEW type, NEW param, Sent(type, param) \/ Got(type, param)
        PROVE  Len(toHdl) + Len(toSim) <= 1
    <3>1. CASE Sent(type, param)
      BY <2>1, <3>1 DEF Sent
    <3>2. CASE Got(type, param)
      BY <2>1, <3>2 DEF Got
    <3> QED BY <2>3, <3>1, <3>2
  <2> QED BY <2>2, <2>3 DEF LinkOK
<1> QED BY <1>1 DEF HdlTypes, SimTypes, CTypeOK

LEMMA InitCosimTypes == CInit => TypeOK /\ LinkOK /\ HdlTypes /\ SimTypes
<1> SUFFICES ASSUME CInit PROVE TypeOK /\ LinkOK /\ HdlTypes /\ SimTypes
  OBVIOUS
<1>1. TypeOK
  BY InitTypeOK DEF CInit
<1>2. LinkOK
  BY DEF CInit, HdlInit, LinkOK, Silent
<1>3. HdlTypes
  <2>1. hdlTime \in Nat /\ delay \in Int /\ changes \in 0 .. MaxChanges
    BY HdlAssumption DEF CInit, HdlInit
  <2>2. finish \in BOOLEAN /\ hdl \in States
    BY DEF CInit, HdlInit, States
  <2>3. {importBuf, hdlIn, hdlOut} \subseteq Vals \cup {NoVal}
    BY DEF CInit, HdlInit
  <2> QED BY <2>1, <2>2, <2>3 DEF HdlTypes
<1>4. SimTypes
  BY CosimAssumption DEF CInit, SimTypes, Places
<1> QED BY <1>1, <1>2, <1>3, <1>4

\* The state of a cosimulation has its types, and at most one message is under way.
THEOREM CosimTypeCorrect == CSpec => []CTypeOK
<1>1. TypeOK /\ LinkOK /\ HdlTypes /\ SimTypes => CTypeOK
  BY TypesSuffice
<1> QED BY <1>1, InitCosimTypes, NextCosimTypes, PTL DEF CSpec
-----------------------------------------------------------------------------
(* The protocol: where the HDL simulator stands at each command *)

\* The kernel has seen the last output.
OutputSeen == hdlOut \in {output, NoVal}

\* Stopped in the delta cycles of time t, with no further change to come
AtExportOf(t) == hdl = "S_EXPORT" /\ changes = 0 /\ hdlTime = t /\ importBuf = hdlIn

\* Settled, one time unit after t
AtDelayAfter(t) == hdl = "S_DELAY" /\ hdlTime = t + 1 /\ importBuf = hdlIn

Resting(t) == AtExportOf(t) \/ AtDelayAfter(t)
Running(t) == hdl = "running" /\ hdlTime = t /\ importBuf = hdlIn

\* Sent on with the values of time t: it may yet change its outputs.
Driven(t) ==
  \/ Running(t) /\ OutputSeen
  \/ AtExportOf(t)
  \/ AtDelayAfter(t) /\ OutputSeen

\* Sent on with the values it has: it will ask for its delay.
LetGo == AtDelayAfter(cosimTime) \/ (Running(cosimTime) /\ changes = 0)

\* Ready to take the values of a delta cycle
InDelta == hdlTime = time /\ (hdl = "S_IMPORT" \/ (hdl = "S_EXPORT" /\ changes = 0))

StartStage ==
  /\ place = "start_get" =>
       hdl = "S_CONNECTED" /\ (Sent("GET", NoVal) \/ Got("RESP", "S_CONNECTED"))
  /\ place = "start_continue" =>
       \/ Sent("CONTINUE", NoVal) /\ hdl = "S_CONNECTED"
       \/ Got("RESP", NoVal) /\ hdl = "S_IMPORT"
  /\ place \in {"start_get", "start_continue"} =>
       pc = "elaborate" /\ time = 0 /\ hdlTime = 0 /\ OutputSeen /\ readyPool # {}

\* Between two callbacks
QuietStage ==
  place = "none" =>
    /\ Silent
    /\ OutputSeen
    /\ pc = "elaborate" => hdl = "S_CONNECTED" /\ time = 0 /\ hdlTime = 0
    /\ pc = "timestep" =>
         IF time = 0 THEN hdl = "S_IMPORT" /\ hdlTime = 0
         ELSE time > cosimTime /\ Resting(cosimTime)
    /\ pc \in {"loop", "evaluate", "resolve", "delta_end"} => time = cosimTime
    /\ pc \in {"evaluate", "resolve", "delta_end"} => InDelta
    /\ pc = "loop" /\ Pending => InDelta
    /\ pc = "loop" /\ ~Pending => Resting(time) /\ hdlIn = input
    /\ pc \notin {"finished", "aborted"}

StepStage ==
  /\ place \in {"step_get", "step_skip", "step_set", "step_continue"} =>
       pc = "timestep" /\ time > 0 /\ time > cosimTime /\ OutputSeen
  /\ place = "step_get" =>
       Resting(cosimTime) /\ (Sent("GET", NoVal) \/ Got("RESP", hdl))
  /\ place = "step_skip" =>
       \/ Sent("CONTINUE", NoVal) /\ AtExportOf(cosimTime)
       \/ Got("RESP", NoVal) /\ LetGo
  /\ place = "step_set" =>
       \/ /\ Sent("SET", time - cosimTime - 1)
          /\ LetGo
       \/ Got("RESP", NoVal) /\ AtDelayAfter(cosimTime) /\ delay = time - cosimTime - 1
  /\ place = "step_continue" =>
       \/ /\ Sent("CONTINUE", NoVal) /\ AtDelayAfter(cosimTime)
          /\ delay = time - cosimTime - 1
       \/ Got("RESP", NoVal) /\ hdl = "S_IMPORT" /\ hdlTime = time

SettledStage ==
  /\ place \in {"settled_import", "settled_continue", "settled_get", "settled_export"} =>
       pc = "delta_end" /\ DeltaCounted <= MaxDelta /\ ~Pending /\ time = cosimTime
  /\ place = "settled_import" =>
       /\ InDelta /\ OutputSeen
       /\ Sent("IMPORT", input) \/ (Got("RESP", NoVal) /\ importBuf = input)
  /\ place = "settled_continue" =>
       \/ Sent("CONTINUE", NoVal) /\ InDelta /\ OutputSeen /\ importBuf = input
       \/ /\ Got("RESP", NoVal) /\ hdlIn = input
          /\ Driven(time)
  /\ place = "settled_get" =>
       /\ hdlIn = input
       /\ \/ /\ Sent("GET", NoVal)
             /\ Driven(time)
          \/ Got("RESP", "S_EXPORT") /\ AtExportOf(time)
          \/ Got("RESP", "S_DELAY") /\ AtDelayAfter(time) /\ OutputSeen
  /\ place = "settled_export" =>
       hdlIn = input /\ AtExportOf(time) /\ (Sent("EXPORT", NoVal) \/ Got("EXPORT", hdlOut))

EndStage ==
  /\ place \in {"end_get", "end_continue", "end_close"} => pc = "finished"
  /\ place = "end_get" => Sent("GET", NoVal) \/ \E param : Got("RESP", param)
  /\ place = "end_continue" => Sent("CONTINUE", NoVal) \/ Got("RESP", NoVal)
  /\ place = "end_close" => finish \/ Sent("CLOSE", NoVal)
  /\ finish => place = "end_close"
  /\ place # "raised"

\* There is something to do at the start of every time step, and the next one is later.
StepsAhead ==
  /\ pc = "timestep" => readyPool # {}
  /\ pc = "elaborate" => readyPool = procPool
  /\ pc = "elaborate" => \A p \in Procs : delayPool[p] = NoDelay
  /\ \A p \in Scheduled : delayPool[p] > time

Protocol ==
  StartStage /\ QuietStage /\ StepStage /\ SettledStage /\ EndStage /\ StepsAhead

\* What the protocol relies on: outputs that change at most once after the inputs did,
\* two ends that answer in time, and no Delay of 0.
Prompt == MaxChanges <= 1 /\ SlowAnswers = FALSE /\ 0 \notin Delays

Types == TypeOK /\ LinkOK /\ HdlTypes /\ SimTypes

LEMMA Distinct ==
  /\ \A t1, p1, t2, p2 : <<Message(t1, p1)>> = <<Message(t2, p2)>> => t1 = t2 /\ p1 = p2
  /\ \A t, p : <<Message(t, p)>> # <<>>
<1>1. \A a, b : <<a>> = <<b>> => a = b
  OBVIOUS
<1>2. \A t1, p1, t2, p2 : Message(t1, p1) = Message(t2, p2) => t1 = t2 /\ p1 = p2
  BY OneMessage
<1> QED BY <1>1, <1>2

\* A command that arrives and its answer
Handles(type, param, reply) ==
  /\ Sent(type, param) /\ Handling
  /\ toHdl' = <<>> /\ toSim' = <<reply>>

\* What the HDL simulator may do while the connection holds
HdlMove ==
  \/ \E param : /\ Handles("GET", param, Message("RESP", hdl))
                /\ UNCHANGED <<finish, hdl, delay, importBuf, ports>>
  \/ \E param : /\ Handles("SET", param, Message("RESP", NoVal))
                /\ delay' = param
                /\ UNCHANGED <<finish, hdl, importBuf, ports>>
  \/ \E param : /\ Handles("IMPORT", param, Message("RESP", NoVal))
                /\ importBuf' = param
                /\ UNCHANGED <<finish, hdl, delay, ports>>
  \/ \E param : /\ Handles("EXPORT", param, Message("EXPORT", hdlOut))
                /\ UNCHANGED <<finish, hdl, delay, importBuf, ports>>
  \/ \E param : /\ Handles("CONTINUE", param, Message("RESP", NoVal))
                /\ Return
                /\ UNCHANGED <<finish, delay, importBuf>>
  \/ \E param : /\ Sent("CLOSE", param)
                /\ finish' = TRUE
                /\ UNCHANGED <<toSim, hdl, delay, importBuf, ports>>
  \/ OutputChange
  \/ Settle

LEMMA HdlMoves ==
  ASSUME Prompt, Types, OtherEnd, finish = FALSE, place # "raised"
  PROVE  HdlMove /\ UNCHANGED <<vars, simside>>
<1>1. UNCHANGED <<vars, simside>>
  BY DEF OtherEnd
<1> SUFFICES HdlMove
  BY <1>1
<1>2. ASSUME NEW type, NEW reply, NEW rparam, Receive(type), Reply(reply, rparam)
      PROVE  \E param : /\ Sent(type, param) /\ Handling /\ toHdl' = <<>>
                        /\ toSim' = <<Message(reply, rparam)>>
                        /\ Head(toHdl).param = param
  <2>1. PICK param : /\ Sent(type, param) /\ toHdl' = <<>> /\ toSim = <<>>
                     /\ Head(toHdl).param = param
    BY <1>2, ReceiveOne DEF Types
  <2>2. toSim' = <<Message(reply, rparam)>>
    BY <1>2, <2>1, OneMessage DEF Reply
  <2> QED BY <1>2, <2>1, <2>2 DEF Receive
<1>3. CASE HandleGet
  <2>1. Receive("GET") /\ Reply("RESP", hdl)
    BY <1>3 DEF HandleGet
  <2>2. PICK param : /\ Sent("GET", param) /\ Handling /\ toHdl' = <<>>
                     /\ toSim' = <<Message("RESP", hdl)>>
                     /\ Head(toHdl).param = param
    BY <1>2, <2>1
  <2> QED BY <1>3, <2>2 DEF HandleGet, HdlMove, Handles
<1>4. CASE HandleSet
  <2>1. Receive("SET") /\ Reply("RESP", NoVal)
    BY <1>4 DEF HandleSet
  <2>2. PICK param : /\ Sent("SET", param) /\ Handling /\ toHdl' = <<>>
                     /\ toSim' = <<Message("RESP", NoVal)>>
                     /\ Head(toHdl).param = param
    BY <1>2, <2>1
  <2> QED BY <1>4, <2>2 DEF HandleSet, HdlMove, Handles
<1>5. CASE HandleImport
  <2>1. Receive("IMPORT") /\ Reply("RESP", NoVal)
    BY <1>5 DEF HandleImport
  <2>2. PICK param : /\ Sent("IMPORT", param) /\ Handling /\ toHdl' = <<>>
                     /\ toSim' = <<Message("RESP", NoVal)>>
                     /\ Head(toHdl).param = param
    BY <1>2, <2>1
  <2> QED BY <1>5, <2>2 DEF HandleImport, HdlMove, Handles
<1>6. CASE HandleExport
  <2>1. Receive("EXPORT") /\ Reply("EXPORT", hdlOut)
    BY <1>6 DEF HandleExport
  <2>2. PICK param : /\ Sent("EXPORT", param) /\ Handling /\ toHdl' = <<>>
                     /\ toSim' = <<Message("EXPORT", hdlOut)>>
                     /\ Head(toHdl).param = param
    BY <1>2, <2>1
  <2> QED BY <1>6, <2>2 DEF HandleExport, HdlMove, Handles
<1>7. CASE HandleContinue
  <2>1. Receive("CONTINUE") /\ Reply("RESP", NoVal)
    BY <1>7 DEF HandleContinue
  <2>2. PICK param : /\ Sent("CONTINUE", param) /\ Handling /\ toHdl' = <<>>
                     /\ toSim' = <<Message("RESP", NoVal)>>
                     /\ Head(toHdl).param = param
    BY <1>2, <2>1
  <2> QED BY <1>7, <2>2 DEF HandleContinue, HdlMove, Handles
<1>8. CASE HandleClose
  <2>1. PICK param : Sent("CLOSE", param)
    BY <1>8, ReceiveOne DEF HandleClose, Types
  <2> QED BY <1>8, <2>1 DEF HandleClose, HdlMove
<1>9. ~ReceiveNothing(place = "raised") /\ ~ReturnFinished
  BY DEF Prompt, ReceiveNothing, ReturnFinished
<1>10. CASE OutputChange \/ Settle
  BY <1>10 DEF HdlMove
<1> QED
  BY <1>3, <1>4, <1>5, <1>6, <1>7, <1>8, <1>9, <1>10 DEF OtherEnd, HdlStep

LEMMA HdlKeepsProtocol ==
  ASSUME Prompt, Types, Protocol, OtherEnd
  PROVE  Protocol'
<1>1. UNCHANGED <<vars, simside>>
  BY DEF OtherEnd
<1>2. StepsAhead'
  BY <1>1 DEF StepsAhead, Protocol, Scheduled, vars, pools
<1>3. CASE finish = TRUE
  <2>1. place = "end_close" /\ pc = "finished"
    BY <1>3 DEF Protocol, EndStage
  <2>2. finish' = TRUE
    BY <1>3 DEF OtherEnd, HdlStep, HandleGet, HandleSet, HandleImport, HandleExport,
       HandleContinue, HandleClose, ReceiveNothing, ReturnFinished, OutputChange, Settle
  <2>3. place' = "end_close" /\ pc' = "finished"
    BY <1>1, <2>1 DEF simside, vars
  <2> QED
    BY <1>2, <2>2, <2>3
    DEF Protocol, StartStage, QuietStage, StepStage, SettledStage, EndStage
<1>4. CASE finish = FALSE
  <2>1. HdlMove
    BY <1>4, HdlMoves DEF Protocol, EndStage
  <2>2. /\ changes \in Int /\ changes <= 1 /\ changes >= 0 /\ delay \in Int
        /\ time \in Nat /\ cosimTime \in Nat /\ hdlTime \in Nat
        /\ pc \in {"elaborate", "timestep", "loop", "evaluate", "resolve",
                  "delta_end", "finished", "aborted"}
    BY HdlAssumption DEF Prompt, Types, HdlTypes, SimTypes, TypeOK
  <2>3. StartStage'
    BY <1>1, <2>1, Distinct DEF Protocol, StartStage, HdlMove, Handles, Return, DriveInputs,
       AfterDelay, OutputChange, Settle, Handling, link, ports, Sent, Got, OutputSeen,
       vars, pools, simside
  <2>4. QuietStage'
    <3>1. CASE place = "none"
      <4>1. Silent /\ hdl # "running"
        BY <3>1, <2>2 DEF Protocol, QuietStage, InDelta, Resting, AtExportOf, AtDelayAfter
      <4>2. \A type, param : ~Sent(type, param)
        BY <4>1, Distinct DEF Silent, Sent
      <4> QED BY <2>1, <4>1, <4>2 DEF HdlMove, Handles, OutputChange, Settle
    <3> QED BY <1>1, <3>1 DEF QuietStage, simside
  <2>5. StepStage'
    <3>1. CASE place \notin {"step_get", "step_skip", "step_set", "step_continue"}
      BY <1>1, <3>1 DEF StepStage, simside
    <3>2. place \in {"step_get", "step_skip", "step_set", "step_continue"} =>
            pc' = "timestep" /\ time' > 0 /\ time' > cosimTime' /\ OutputSeen'
      BY <1>1, <2>1, <2>2, Distinct DEF Protocol, StepStage, HdlMove, Handles, Return,
         DriveInputs, AfterDelay, OutputChange, Settle, ports, Sent, Got, OutputSeen,
         Resting, AtExportOf, AtDelayAfter, LetGo, Running, vars, simside
    <3>3. CASE place = "step_get"
      BY <1>1, <2>1, <2>2, <3>2, <3>3, Distinct DEF Protocol, StepStage, HdlMove, Handles,
         OutputChange, Settle, link, ports, Sent, Got,
         Resting, AtExportOf, AtDelayAfter, vars, simside
    <3>4. CASE place = "step_skip"
      BY <1>1, <2>1, <2>2, <3>2, <3>4, Distinct DEF Protocol, StepStage, HdlMove, Handles,
         Return, DriveInputs, OutputChange, Settle, link, ports, Sent, Got,
         AtExportOf, AtDelayAfter, Running, LetGo, vars, simside
    <3>5. CASE place = "step_set"
      BY <1>1, <2>1, <2>2, <3>2, <3>5, Distinct DEF Protocol, StepStage, HdlMove, Handles,
         OutputChange, Settle, Handling, link, ports, Sent, Got,
         AtDelayAfter, Running, LetGo, vars, simside
    <3>6. CASE place = "step_continue"
      BY <1>1, <1>4, <2>1, <2>2, <3>2, <3>6, Distinct DEF Protocol, StepStage, HdlMove, Handles,
         Return, AfterDelay, OutputChange, Settle, link, ports, Sent, Got,
         AtDelayAfter, vars, simside
    <3> QED BY <3>1, <3>3, <3>4, <3>5, <3>6
  <2>6. SettledStage'
    BY <1>1, <2>1, <2>2, Distinct DEF Protocol, SettledStage, HdlMove, Handles, Return,
       DriveInputs, AfterDelay, OutputChange, Settle, Handling, link, ports, Sent, Got,
       OutputSeen, Driven, AtExportOf, AtDelayAfter, Running, InDelta, Pending, DeltaCounted,
       vars, pools, simside
  <2>7. EndStage'
    <3>1. finish' => place = "end_close"
      <4>1. ASSUME NEW param, Sent("CLOSE", param) PROVE place = "end_close"
        <5>1. place \notin {"none", "start_get", "start_continue", "raised"}
          BY <4>1, Distinct DEF Protocol, StartStage, QuietStage, EndStage, Sent, Got, Silent
        <5>2. place \notin {"step_get", "step_skip", "step_set", "step_continue"}
          BY <4>1, Distinct DEF Protocol, StepStage, Sent, Got
        <5>3. place \notin {"settled_import", "settled_continue", "settled_get",
                            "settled_export"}
          BY <4>1, Distinct DEF Protocol, SettledStage, Sent, Got
        <5>4. place \notin {"end_get", "end_continue"}
          BY <4>1, Distinct DEF Protocol, EndStage, Sent, Got
        <5> QED BY <5>1, <5>2, <5>3, <5>4 DEF Types, SimTypes, Places
      <4>2. (\E param : Sent("CLOSE", param)) \/ UNCHANGED finish
        BY <2>1 DEF HdlMove, OutputChange, Settle
      <4> QED BY <1>4, <4>1, <4>2
    <3>2. place = "end_get" => Sent("GET", NoVal)' \/ \E param : Got("RESP", param)'
      BY <1>1, <2>1, Distinct DEF Protocol, EndStage, HdlMove, Handles, OutputChange, Settle,
         link, Sent, Got
    <3>3. place = "end_continue" => Sent("CONTINUE", NoVal)' \/ Got("RESP", NoVal)'
      BY <1>1, <2>1, Distinct DEF Protocol, EndStage, HdlMove, Handles, OutputChange, Settle,
         link, Sent, Got
    <3>4. place = "end_close" => finish' \/ Sent("CLOSE", NoVal)'
      BY <1>1, <1>4, <2>1, Distinct DEF Protocol, EndStage, HdlMove, Handles, OutputChange,
         Settle, link, Sent, Got
    <3> QED BY <1>1, <3>1, <3>2, <3>3, <3>4 DEF Protocol, EndStage, vars, simside
  <2> QED BY <1>2, <2>3, <2>4, <2>5, <2>6, <2>7 DEF Protocol
<1> QED BY <1>3, <1>4 DEF Types, HdlTypes

\* Every process of the delay pool is due later, and a time step starts with some ready.
LEMMA StepsAheadKept ==
  ASSUME Prompt, TypeOK, StepsAhead, [Next]_vars,
         pc = "elaborate" /\ pc' # "elaborate" => procPool # {}
  PROVE  StepsAhead'
<1>1. CASE Run
  BY <1>1 DEF Run, StepsAhead, Scheduled, pools
<1>2. CASE TimestepStart \/ DeltaStart \/ EvaluateDone \/ DeltaLimit \/ NothingScheduled
  BY <1>2 DEF TimestepStart, DeltaStart, EvaluateDone, DeltaLimit, NothingScheduled,
     StepsAhead, Scheduled, pools
<1>3. CASE \E e \in Events : Resolve(e)
  BY <1>3 DEF Resolve, StepsAhead, Scheduled
<1>4. CASE AdvanceTime
  <2>1. pc' \in {"timestep", "finished"}
    BY <1>4 DEF AdvanceTime
  <2>2. readyPool' # {}
    BY <1>4, AdvanceTimePops DEF DueTimes, Scheduled, TypeOK, NoDelay
  <2>3. \A p \in Scheduled' : delayPool'[p] > time'
    BY <1>4, AdvanceTimePops DEF Scheduled
  <2> QED BY <2>1, <2>2, <2>3 DEF StepsAhead
<1>5. CASE \E p \in Procs : ProcReg(p)
  BY <1>5 DEF ProcReg, StepsAhead, Scheduled
<1>6. ASSUME NEW p \in Procs, NEW T \in SUBSET Events, NEW U \in SUBSET Sigs,
             NEW W \in SUBSET Events, NEW d \in Delays \cup {NoDelay},
             RunProc(p, T, U, W, d)
      PROVE  StepsAhead'
  <2>1. pc' = "evaluate" /\ UNCHANGED time /\ time \in Nat
    BY <1>6 DEF RunProc, TypeOK
  <2>2. d # NoDelay => d \in Nat /\ d # 0
    BY DelaysAssumption DEF Prompt
  <2>3. delayPool' = [delayPool EXCEPT ![p] = DueAfter(p, d)]
    BY <1>6 DEF RunProc
  <2>4. ASSUME NEW q \in Procs, delayPool'[q] # NoDelay PROVE delayPool'[q] > time
    BY <2>1, <2>2, <2>3, <2>4 DEF StepsAhead, Scheduled, DueAfter, TypeOK
  <2> QED BY <2>1, <2>4 DEF StepsAhead, Scheduled
<1>7. CASE \E p \in Procs, T \in SUBSET Events, U \in SUBSET Sigs : Abort(p, T, U)
  BY <1>7 DEF Abort, DueAfter, StepsAhead, Scheduled, TypeOK, NoDelay
<1>8. CASE \E T \in SUBSET Events : Update(T) \/ DeltaEnd(T)
  BY <1>8 DEF Update, DeltaEnd, StepsAhead, Scheduled
<1>9. CASE Terminated \/ UNCHANGED vars
  BY <1>9 DEF Terminated, vars, pools, StepsAhead, Scheduled
<1> QED
  BY <1>1, <1>2, <1>3, <1>4, <1>5, <1>6, <1>7, <1>8, <1>9
  DEF Next, KernelStep, DesignStep

\* What a command of a callback, an answer and the next command, an answer and the end
\* of the callback do to the connection
LEMMA BeginSends ==
  ASSUME Types, NEW to, NEW type, NEW param, Begin(to, type, param)
  PROVE  /\ Silent /\ place = "none" /\ place' = to /\ Heard
         /\ Sent(type, param)'
BY OneMessage DEF Begin, Silent, Send, Sent, Types, LinkOK

LEMMA AskSends ==
  ASSUME Types, NEW at, NEW to, NEW type, NEW param, Ask(at, to, type, param)
  PROVE  \E t, p : /\ Got(t, p) /\ AnswerParam = p /\ place = at /\ place' = to /\ Heard
                   /\ Sent(type, param)'
                   /\ UNCHANGED <<vars, cosimTime, input, inputNext, output, created>>
<1>1. Answer(at)
  BY DEF Ask
<1>2. PICK t, p : /\ Got(t, p) /\ AnswerParam = p
                  /\ toHdl = <<>> /\ toSim' = <<>> /\ place = at
  BY <1>1, AnswerOne DEF Types
<1>3. Sent(type, param)'
  BY <1>2, OneMessage DEF Ask, Send, Sent
<1> QED BY <1>1, <1>2, <1>3 DEF Ask, Answer

LEMMA LeaveSilent ==
  ASSUME Types, NEW at, Leave(at)
  PROVE  \E t, p : /\ Got(t, p) /\ AnswerParam = p /\ place = at /\ place' = "none" /\ Heard
                   /\ Silent'
<1>1. Answer(at)
  BY DEF Leave
<1>2. PICK t, p : /\ Got(t, p) /\ AnswerParam = p
                  /\ toHdl = <<>> /\ toSim' = <<>> /\ place = at
  BY <1>1, AnswerOne DEF Types
<1> QED BY <1>1, <1>2 DEF Leave, Answer, Silent

Stages == StartStage /\ QuietStage /\ StepStage /\ SettledStage /\ EndStage

LEMMA BeginKeepsProtocol ==
  ASSUME Prompt, Types, Protocol, RunStart \/ TimestepBegins \/ DeltaSettled \/ RunEnd
  PROVE  Stages'
<1>1. CASE RunStart
  <2>1. /\ place = "none" /\ place' = "start_get" /\ Heard
        /\ Sent("GET", NoVal)'
    BY <1>1, BeginSends DEF RunStart
  <2>2. pc = "elaborate" /\ procPool # {} /\ UNCHANGED <<vars, output>>
    BY <1>1 DEF RunStart
  <2> QED
    BY <2>1, <2>2 DEF Protocol, StepsAhead, Stages, StartStage, QuietStage, StepStage,
       SettledStage, EndStage, Heard, OutputSeen, vars, pools, ports
<1>2. CASE TimestepBegins
  <2>1. /\ place = "none" /\ place' = "step_get" /\ Heard
        /\ Sent("GET", NoVal)'
    BY <1>2, BeginSends DEF TimestepBegins
  <2>2. pc = "timestep" /\ time > 0 /\ UNCHANGED <<vars, cosimTime, output>>
    BY <1>2 DEF TimestepBegins
  <2> QED
    BY <2>1, <2>2 DEF Protocol, Stages, StartStage, QuietStage, StepStage,
       SettledStage, EndStage, Heard, OutputSeen, Resting, AtExportOf, AtDelayAfter,
       Types, TypeOK, vars, ports
<1>3. CASE DeltaSettled
  <2>1. /\ place = "none" /\ place' = "settled_import" /\ Heard
        /\ Sent("IMPORT", input)'
    BY <1>3, BeginSends DEF DeltaSettled
  <2>2. /\ pc = "delta_end" /\ DeltaCounted <= MaxDelta /\ ~Pending
        /\ UNCHANGED <<vars, cosimTime, input, output>>
    BY <1>3 DEF DeltaSettled
  <2> QED
    BY <2>1, <2>2 DEF Protocol, Stages, StartStage, QuietStage, StepStage,
       SettledStage, EndStage, Heard, OutputSeen, InDelta, Pending, DeltaCounted, Sent,
       vars, pools, ports
<1>4. CASE RunEnd
  <2>1. /\ place = "none" /\ place' = "end_get" /\ Heard
        /\ Sent("GET", NoVal)'
    BY <1>4, BeginSends DEF RunEnd
  <2>2. pc' = "finished"
    BY <1>4 DEF RunEnd, DeltaLimit, NothingScheduled
  <2> QED
    BY <2>1, <2>2 DEF Protocol, Stages, StartStage, QuietStage, StepStage,
       SettledStage, EndStage, Heard
<1> QED BY <1>1, <1>2, <1>3, <1>4

LEMMA StartedKeepsProtocol ==
  ASSUME Prompt, Types, Protocol, Started
  PROVE  Stages'
<1>1. CASE AnswerParam = "S_CONNECTED" /\ Ask("start_get", "start_continue", "CONTINUE", NoVal)
  <2>1. /\ place = "start_get" /\ place' = "start_continue" /\ Heard
        /\ Sent("CONTINUE", NoVal)' /\ UNCHANGED <<vars, output>>
    BY <1>1, AskSends
  <2> QED
    BY <2>1 DEF Protocol, Stages, StartStage, QuietStage, StepStage,
       SettledStage, EndStage, Heard, OutputSeen, vars, pools, ports
<1>2. CASE AnswerParam # "S_CONNECTED" /\ Raise("start_get")
  <2>1. PICK t, p : Got(t, p) /\ AnswerParam = p /\ place = "start_get"
    BY <1>2, AnswerOne DEF Raise, Types
  <2>2. p = "S_CONNECTED"
    BY <2>1, Distinct DEF Protocol, StartStage, Sent, Got
  <2> QED BY <1>2, <2>1, <2>2
<1>3. CASE /\ Leave("start_continue") /\ Run
           /\ UNCHANGED <<cosimTime, input, inputNext, output, created>>
  <2>1. PICK t, p : /\ Got(t, p) /\ AnswerParam = p /\ place = "start_continue"
                    /\ place' = "none" /\ Heard /\ Silent'
    BY <1>3, LeaveSilent
  <2>2. hdl = "S_IMPORT" /\ hdlTime = 0 /\ OutputSeen /\ finish = FALSE
    BY <2>1, Distinct DEF Protocol, StartStage, EndStage, Sent, Got, Types, HdlTypes
  <2>3. pc' = "timestep" /\ time' = 0 /\ output' = output
    BY <1>3 DEF Run
  <2> QED
    BY <2>1, <2>2, <2>3 DEF Stages, StartStage, QuietStage, StepStage,
       SettledStage, EndStage, Heard, OutputSeen, ports
<1> QED BY <1>1, <1>2, <1>3 DEF Started

LEMMA TimestepKeepsProtocol ==
  ASSUME Prompt, Types, Protocol, TimestepGoesOn
  PROVE  Stages'
<1>1. time \in Int /\ cosimTime \in Int
  BY DEF Types, TypeOK, SimTypes
<1>2. CASE AtExport /\ Ask("step_get", "step_skip", "CONTINUE", NoVal)
  <2>1. PICK t, p : /\ Got(t, p) /\ AnswerParam = p /\ place = "step_get"
                    /\ place' = "step_skip" /\ Heard
                    /\ Sent("CONTINUE", NoVal)' /\ UNCHANGED <<vars, cosimTime, output>>
    BY <1>2, AskSends
  <2>2. p = hdl /\ p = "S_EXPORT"
    BY <1>2, <2>1, Distinct DEF AtExport, Protocol, StepStage, Sent, Got
  <2> QED
    BY <2>1, <2>2 DEF Protocol, Stages, StartStage, QuietStage, StepStage,
       SettledStage, EndStage, Heard, OutputSeen, Resting, AtExportOf, AtDelayAfter,
       vars, ports
<1>3. CASE ~AtExport /\ Ask("step_get", "step_set", "SET", StepLess1)
  <2>1. PICK t, p : /\ Got(t, p) /\ AnswerParam = p /\ place = "step_get"
                    /\ place' = "step_set" /\ Heard
                    /\ Sent("SET", StepLess1)' /\ UNCHANGED <<vars, cosimTime, output>>
    BY <1>3, AskSends DEF StepLess1, vars
  <2>2. p = hdl /\ p # "S_EXPORT"
    BY <1>3, <2>1, Distinct DEF AtExport, Protocol, StepStage, Sent, Got
  <2>3. AtDelayAfter(cosimTime)
    BY <2>1, <2>2 DEF Protocol, StepStage, Resting, AtExportOf
  <2> QED
    BY <2>1, <2>3 DEF Protocol, Stages, StartStage, QuietStage, StepStage, StepLess1,
       SettledStage, EndStage, Heard, OutputSeen, LetGo, AtDelayAfter, vars, ports, Sent
<1>4. CASE Ask("step_skip", "step_set", "SET", StepLess1)
  <2>1. PICK t, p : /\ Got(t, p) /\ place = "step_skip"
                    /\ place' = "step_set" /\ Heard
                    /\ Sent("SET", StepLess1)' /\ UNCHANGED <<vars, cosimTime, output>>
    BY <1>4, AskSends DEF StepLess1, vars
  <2>2. LetGo
    BY <2>1, Distinct DEF Protocol, StepStage, Sent, Got
  <2> QED
    BY <2>1, <2>2 DEF Protocol, Stages, StartStage, QuietStage, StepStage, StepLess1,
       SettledStage, EndStage, Heard, OutputSeen, LetGo, AtDelayAfter, Running, vars, ports,
       Sent
<1>5. CASE Ask("step_set", "step_continue", "CONTINUE", NoVal)
  <2>1. PICK t, p : /\ Got(t, p) /\ place = "step_set"
                    /\ place' = "step_continue" /\ Heard
                    /\ Sent("CONTINUE", NoVal)' /\ UNCHANGED <<vars, cosimTime, output>>
    BY <1>5, AskSends
  <2>2. AtDelayAfter(cosimTime) /\ delay = time - cosimTime - 1
    BY <2>1, Distinct DEF Protocol, StepStage, Sent, Got
  <2> QED
    BY <2>1, <2>2 DEF Protocol, Stages, StartStage, QuietStage, StepStage,
       SettledStage, EndStage, Heard, OutputSeen, AtDelayAfter, vars, ports
<1>6. CASE /\ Leave("step_continue") /\ TimestepStart /\ cosimTime' = time
           /\ UNCHANGED <<input, inputNext, output, created>>
  <2>1. PICK t, p : /\ Got(t, p) /\ place = "step_continue"
                    /\ place' = "none" /\ Heard /\ Silent'
    BY <1>6, LeaveSilent
  <2>2. hdl = "S_IMPORT" /\ hdlTime = time /\ OutputSeen
    BY <2>1, Distinct DEF Protocol, StepStage, Sent, Got
  <2>3. readyPool # {}
    BY <1>6 DEF TimestepStart, Protocol, StepsAhead
  <2> QED
    BY <1>6, <2>1, <2>2, <2>3 DEF Protocol, Stages, StartStage, QuietStage, StepStage,
       SettledStage, EndStage, Heard, OutputSeen, InDelta, Pending, TimestepStart, pools, ports
<1> QED BY <1>2, <1>3, <1>4, <1>5, <1>6 DEF TimestepGoesOn

LEMMA SettledKeepsProtocol ==
  ASSUME Prompt, Types, Protocol, SettledGoesOn
  PROVE  Stages'
<1>1. CASE Ask("settled_import", "settled_continue", "CONTINUE", NoVal)
  <2>1. PICK t, p : /\ Got(t, p) /\ place = "settled_import"
                    /\ place' = "settled_continue" /\ Heard
                    /\ Sent("CONTINUE", NoVal)' /\ UNCHANGED <<vars, cosimTime, input, output>>
    BY <1>1, AskSends
  <2>2. InDelta /\ OutputSeen /\ importBuf = input
    BY <2>1, Distinct DEF Protocol, SettledStage, Sent, Got
  <2> QED
    BY <2>1, <2>2 DEF Protocol, Stages, StartStage, QuietStage, StepStage, SettledStage,
       EndStage, Heard, OutputSeen, InDelta, Pending, DeltaCounted, vars, pools, ports
<1>2. CASE Ask("settled_continue", "settled_get", "GET", NoVal)
  <2>1. PICK t, p : /\ Got(t, p) /\ place = "settled_continue"
                    /\ place' = "settled_get" /\ Heard
                    /\ Sent("GET", NoVal)' /\ UNCHANGED <<vars, cosimTime, input, output>>
    BY <1>2, AskSends
  <2>2. hdlIn = input /\ Driven(time)
    BY <2>1, Distinct DEF Protocol, SettledStage, Sent, Got
  <2> QED
    BY <2>1, <2>2 DEF Protocol, Stages, StartStage, QuietStage, StepStage, SettledStage,
       EndStage, Heard, OutputSeen, Driven, Running, AtExportOf, AtDelayAfter, Pending,
       DeltaCounted, vars, pools, ports
<1>3. CASE AnswerParam = "S_EXPORT" /\ Ask("settled_get", "settled_export", "EXPORT", NoVal)
  <2>1. PICK t, p : /\ Got(t, p) /\ AnswerParam = p /\ place = "settled_get"
                    /\ place' = "settled_export" /\ Heard
                    /\ Sent("EXPORT", NoVal)' /\ UNCHANGED <<vars, cosimTime, input, output>>
    BY <1>3, AskSends
  <2>2. hdlIn = input /\ AtExportOf(time)
    BY <1>3, <2>1, Distinct DEF Protocol, SettledStage, Sent, Got
  <2> QED
    BY <2>1, <2>2 DEF Protocol, Stages, StartStage, QuietStage, StepStage, SettledStage,
       EndStage, Heard, AtExportOf, Pending, DeltaCounted, vars, pools, ports
<1>4. CASE AnswerParam \notin {"S_EXPORT", "S_DELAY"} /\ Raise("settled_get")
  <2>1. PICK t, p : Got(t, p) /\ AnswerParam = p /\ place = "settled_get"
    BY <1>4, AnswerOne DEF Raise, Types
  <2>2. p \in {"S_EXPORT", "S_DELAY"}
    BY <2>1, Distinct DEF Protocol, SettledStage, Sent, Got
  <2> QED BY <1>4, <2>1, <2>2
<1>5. CASE /\ AnswerParam = "S_DELAY" /\ Leave("settled_get") /\ DeltaEnd({})
           /\ UNCHANGED <<cosimTime, input, inputNext, output, created>>
  <2>1. PICK t, p : /\ Got(t, p) /\ AnswerParam = p /\ place = "settled_get"
                    /\ place' = "none" /\ Heard /\ Silent'
    BY <1>5, LeaveSilent
  <2>2. hdlIn = input /\ AtDelayAfter(time) /\ OutputSeen
    BY <1>5, <2>1, Distinct DEF Protocol, SettledStage, Sent, Got
  <2>3. pc' = "loop" /\ readyPool' = {} /\ trigPool' = {} /\ time' = time /\ time = cosimTime
    BY <1>5, <2>1 DEF DeltaEnd, Protocol, SettledStage, Pending
  <2> QED
    BY <1>5, <2>1, <2>2, <2>3 DEF Protocol, Stages, StartStage, QuietStage, StepStage,
       SettledStage, EndStage, Heard, OutputSeen, Resting, AtDelayAfter, Pending, ports
<1>6. CASE RecvExport
  <2>1. PICK t, p : /\ Got(t, p) /\ AnswerParam = p /\ place = "settled_export"
                    /\ place' = "none" /\ Heard /\ Silent'
    BY <1>6, LeaveSilent DEF RecvExport
  <2>2. hdlIn = input /\ AtExportOf(time) /\ p = hdlOut
    BY <2>1, Distinct DEF Protocol, SettledStage, Sent, Got
  <2>3. /\ pc' = "loop" /\ time' = time /\ time = cosimTime /\ cosimTime' = cosimTime
        /\ input' = input /\ output' = hdlOut
    BY <1>6, <2>1, <2>2 DEF RecvExport, DeltaEnd, Protocol, SettledStage
  <2> QED
    BY <2>1, <2>2, <2>3 DEF Protocol, Stages, StartStage, QuietStage, StepStage,
       SettledStage, EndStage, Heard, OutputSeen, Resting, AtExportOf, InDelta, ports
<1> QED BY <1>1, <1>2, <1>3, <1>4, <1>5, <1>6 DEF SettledGoesOn

LEMMA RunEndKeepsProtocol ==
  ASSUME Prompt, Types, Protocol, RunEndGoesOn
  PROVE  Stages'
<1>1. ASSUME NEW at \in {"end_get", "end_continue"}, NEW to, NEW type, Ask(at, to, type, NoVal)
      PROVE  /\ place = at /\ place' = to /\ pc' = "finished" /\ finish' = FALSE
             /\ Sent(type, NoVal)'
  <2>1. place = at /\ place' = to /\ Heard /\ Sent(type, NoVal)' /\ UNCHANGED vars
    BY <1>1, AskSends
  <2>2. pc = "finished" /\ finish = FALSE
    BY <2>1 DEF Protocol, EndStage, Types, HdlTypes
  <2> QED BY <2>1, <2>2 DEF Heard, vars
<1>2. CASE Ask("end_get", "end_close", "CLOSE", NoVal)
  <2>1. place' = "end_close" /\ pc' = "finished" /\ finish' = FALSE /\ Sent("CLOSE", NoVal)'
    BY <1>1, <1>2
  <2> QED BY <2>1 DEF Stages, StartStage, QuietStage, StepStage, SettledStage, EndStage
<1>3. CASE Ask("end_get", "end_continue", "CONTINUE", NoVal)
  <2>1. place' = "end_continue" /\ pc' = "finished" /\ finish' = FALSE /\ Sent("CONTINUE", NoVal)'
    BY <1>1, <1>3
  <2> QED BY <2>1 DEF Stages, StartStage, QuietStage, StepStage, SettledStage, EndStage
<1>4. CASE Ask("end_continue", "end_get", "GET", NoVal)
  <2>1. place' = "end_get" /\ pc' = "finished" /\ finish' = FALSE /\ Sent("GET", NoVal)'
    BY <1>1, <1>4
  <2> QED BY <2>1 DEF Stages, StartStage, QuietStage, StepStage, SettledStage, EndStage
<1> QED BY <1>2, <1>3, <1>4 DEF RunEndGoesOn

\* A step outside the callbacks leaves the connection and the HDL simulator alone.
LEMMA AloneKeepsProtocol ==
  ASSUME Prompt, Types, Protocol,
         \/ FirstTimestep \/ DeltaEndPending \/ SignalUpdate \/ QuietStep
         \/ \E p \in Procs : Slice(p)
  PROVE  Stages'
<1> DEFINE Outside(t, ct, o, in, step, rp, tp) ==
      /\ hdlOut \in {o, NoVal}
      /\ step = "elaborate" => hdl = "S_CONNECTED" /\ t = 0 /\ hdlTime = 0
      /\ step = "timestep" =>
           IF t = 0 THEN hdl = "S_IMPORT" /\ hdlTime = 0 ELSE t > ct /\ Resting(ct)
      /\ step \in {"loop", "evaluate", "resolve", "delta_end"} => t = ct
      /\ step \in {"evaluate", "resolve", "delta_end"} \/ (step = "loop" /\ (rp # {} \/ tp # {})) =>
           hdlTime = t /\ (hdl = "S_IMPORT" \/ (hdl = "S_EXPORT" /\ changes = 0))
      /\ step = "loop" /\ ~(rp # {} \/ tp # {}) => Resting(t) /\ hdlIn = in
      /\ step \notin {"finished", "aborted"}
<1>1. place = "none" /\ place' = "none" /\ UNCHANGED hdlvars
  BY DEF FirstTimestep, DeltaEndPending, SignalUpdate, QuietStep, Slice, Alone, simside
<1>2. Silent /\ Outside(time, cosimTime, output, input, pc, readyPool, trigPool)
  BY <1>1 DEF Protocol, QuietStage, OutputSeen, InDelta, Pending
<1>3. SUFFICES Outside(time', cosimTime', output', input', pc', readyPool', trigPool')
  <2>1. finish' = FALSE
    BY <1>1 DEF Protocol, EndStage, Types, HdlTypes, hdlvars
  <2> QED
    BY <1>1, <1>2, <1>3, <2>1 DEF Stages, StartStage, QuietStage, StepStage, SettledStage, EndStage,
       OutputSeen, InDelta, Pending, Silent, Resting, AtExportOf, AtDelayAfter, hdlvars,
       link, ports
<1>4. time \in Nat /\ cosimTime \in Nat
  BY DEF Types, TypeOK, SimTypes
<1>5. CASE FirstTimestep
  BY <1>2, <1>5 DEF FirstTimestep, TimestepStart, Protocol, StepsAhead, pools
<1>6. CASE DeltaEndPending
  BY <1>2, <1>6 DEF DeltaEndPending, DeltaEnd, Pending, simside
<1>7. ASSUME NEW p \in Procs, Slice(p)
      PROVE  Outside(time', cosimTime', output', input', pc', readyPool', trigPool')
  BY <1>2, <1>7 DEF Slice, RunProc
<1>8. CASE SignalUpdate
  BY <1>2, <1>8 DEF SignalUpdate, Update
<1>9. CASE QuietStep
  <2>1. UNCHANGED <<cosimTime, input, output>>
    BY <1>9 DEF QuietStep, simside
  <2>2. CASE \E p \in Procs : ProcReg(p)
    BY <1>2, <2>1, <2>2 DEF ProcReg
  <2>3. CASE DeltaStart \/ EvaluateDone
    BY <1>2, <2>1, <2>3 DEF DeltaStart, EvaluateDone, Pending, pools
  <2>4. CASE \E e \in Events : Resolve(e)
    BY <1>2, <2>1, <2>4 DEF Resolve
  <2>5. CASE AdvanceTime /\ pc' # "finished"
    <3>1. pc' = "timestep" /\ pc = "loop" /\ readyPool = {} /\ trigPool = {}
      BY <2>5 DEF AdvanceTime, Pending
    <3>2. time' > time /\ time' \in Nat
      BY <2>5, AdvanceTimePops, <1>4 DEF DueTimes, Scheduled, Protocol, StepsAhead, Types,
         TypeOK, NoDelay
    <3> QED BY <1>2, <1>4, <2>1, <3>1, <3>2
  <2> QED BY <1>9, <2>2, <2>3, <2>4, <2>5 DEF QuietStep
<1> QED BY <1>5, <1>6, <1>7, <1>8, <1>9

LEMMA NextProtocol ==
  Prompt /\ Types /\ Protocol /\ [CNext]_cvars => Protocol'
<1> SUFFICES ASSUME Prompt, Types, Protocol, [CNext]_cvars PROVE Protocol'
  OBVIOUS
<1>1. CASE OtherEnd
  BY <1>1, HdlKeepsProtocol
<1>2. CASE RecvLoops \/ Exited \/ UNCHANGED cvars
  BY <1>2 DEF RecvLoops, Exited, cvars, vars, pools, hdlvars, simside, link, ports,
     Protocol, StartStage, QuietStage, StepStage, SettledStage, EndStage, StepsAhead,
     OutputSeen, Resting, AtExportOf, AtDelayAfter, Running, Driven, LetGo, InDelta,
     Silent, Sent, Got, Pending, DeltaCounted, Scheduled
<1>3. CASE SimStep
  <2>1. Stages'
    BY <1>3, BeginKeepsProtocol, StartedKeepsProtocol, TimestepKeepsProtocol,
       SettledKeepsProtocol, RunEndKeepsProtocol, AloneKeepsProtocol DEF SimStep
  <2>2. pc = "elaborate" /\ pc' # "elaborate" => procPool # {}
    <3>1. SUFFICES ASSUME pc = "elaborate", pc' # "elaborate" PROVE procPool # {}
      OBVIOUS
    <3>2. Started
      BY <1>3, <3>1 DEF SimStep, RunStart, FirstTimestep, TimestepStart, TimestepBegins,
         DeltaEndPending, DeltaEnd, DeltaSettled, RunEnd, DeltaLimit, NothingScheduled,
         AdvanceTime, Slice, RunProc, SignalUpdate, Update, QuietStep, ProcReg, DeltaStart,
         EvaluateDone, Resolve, TimestepGoesOn, SettledGoesOn, RecvExport, RunEndGoesOn, Ask,
         Raise, vars
    <3>3. place = "start_continue"
      BY <3>1, <3>2 DEF Started, Ask, Raise, Leave, Answer, vars
    <3> QED BY <3>1, <3>3 DEF Protocol, StartStage, StepsAhead
  <2>3. StepsAhead'
    BY <2>2, CosimIsKernelStep, StepsAheadKept DEF Types, Protocol
  <2> QED BY <2>1, <2>3 DEF Protocol, Stages
<1> QED BY <1>1, <1>2, <1>3 DEF CNext

LEMMA InitProtocol == CInit => Types /\ Protocol
<1> SUFFICES ASSUME CInit PROVE Types /\ Protocol
  OBVIOUS
<1>1. TypeOK /\ LinkOK /\ HdlTypes /\ SimTypes
  BY InitCosimTypes
<1>2. StartStage /\ StepStage /\ SettledStage /\ EndStage
  BY DEF CInit, HdlInit, StartStage, StepStage, SettledStage, EndStage
<1>3. QuietStage
  BY DEF CInit, HdlInit, Init, QuietStage, Silent, OutputSeen
<1>4. StepsAhead
  BY DEF CInit, Init, StepsAhead, Scheduled
<1> QED BY <1>1, <1>2, <1>3, <1>4 DEF Types, Protocol

LEMMA ProtocolInvariant ==
  ASSUME Prompt PROVE CSpec => [](Types /\ Protocol)
<1>1. Types /\ Protocol /\ [CNext]_cvars => (Types /\ Protocol)'
  BY NextCosimTypes, NextProtocol DEF Types
<1> QED BY <1>1, InitProtocol, PTL DEF CSpec

\* No callback meets the HDL simulator in a state it does not expect, and nothing but
\* the CLOSE at the end of the run closes the other end.
THEOREM ProtocolCorrect == ASSUME Prompt PROVE CSpec => []ProtocolKept
<1>1. Types /\ Protocol => ProtocolKept
  BY DEF Protocol, EndStage, ProtocolKept
<1> QED BY <1>1, ProtocolInvariant, PTL

\* The two simulators are never in different time steps.
THEOREM TimesCorrect == ASSUME Prompt PROVE CSpec => []TimesAgree
<1>1. Types /\ Protocol => TimesAgree
  <2> SUFFICES ASSUME Types, Protocol, hdl # "done",
                      pc \in {"loop", "evaluate", "resolve", "delta_end"}
               PROVE  hdlTime = IF hdl = "S_DELAY" THEN time + 1 ELSE time
    BY DEF TimesAgree
  <2>1. place \in {"none", "settled_import", "settled_continue", "settled_get", "settled_export"}
    BY DEF Protocol, StartStage, StepStage, EndStage, Types, SimTypes, Places
  <2>2. CASE place = "none"
    BY <2>2 DEF Protocol, QuietStage, InDelta, Resting, AtExportOf, AtDelayAfter
  <2>3. CASE place # "none"
    BY <2>1, <2>3 DEF Protocol, SettledStage, InDelta, Driven, Running, AtExportOf, AtDelayAfter
  <2> QED BY <2>2, <2>3
<1> QED BY <1>1, ProtocolInvariant, PTL

\* A time step settles with the same values on both sides of every port.
THEOREM ValuesCorrect == ASSUME Prompt PROVE CSpec => []ValuesAgree
<1>1. Types /\ Protocol => ValuesAgree
  BY DEF Protocol, QuietStage, OutputSeen, ValuesAgree
<1> QED BY <1>1, ProtocolInvariant, PTL
=============================================================================
