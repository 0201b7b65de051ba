------------------------------ MODULE Xsimintf ------------------------------
(***************************************************************************)
(* The HDL simulator's end of a cosimulation: the message handler of       *)
(* intf/xsim/src/xsimintf.c and the SystemVerilog wrapper that calls it    *)
(* (the template at the head of sydpy/xsim.py), around a design of which   *)
(* only this is assumed: it reacts to its inputs in zero time.             *)
(***************************************************************************)
EXTENDS Integers, Sequences

CONSTANTS
  Vals,         \* the values on the ports
  NoVal,        \* the value of a port never driven, the parameter of a message without
  MaxChanges,   \* how often the outputs change, at most, after the inputs did
  SlowAnswers   \* whether the other end may take longer than the socket's timeout

ASSUME HdlAssumption == MaxChanges \in Nat /\ NoVal \notin Vals /\ SlowAnswers \in BOOLEAN

VARIABLES
  toHdl, toSim, \* the two directions of the connection
  finish,       \* finish: the handler has closed its socket
  hdl,          \* the value of state while cmd_handler runs; else "running" or "done"
  delay,        \* delay
  importBuf,    \* import_buf
  hdlTime,      \* the time of the HDL simulator
  hdlIn,        \* the wrapper's input ports
  hdlOut,       \* the wrapper's output ports; export_buf in S_EXPORT
  changes       \* how often the outputs may still change

link    == <<toHdl, toSim>>
ports   == <<hdlTime, hdlIn, hdlOut, changes>>
hdlvars == <<link, finish, hdl, delay, importBuf, ports>>

Handling == hdl \in {"S_CONNECTED", "S_IMPORT", "S_EXPORT", "S_DELAY"}

Message(type, param) == [type |-> type, param |-> param]

HdlInit ==
  /\ toHdl = <<>> /\ toSim = <<>>
  /\ finish = FALSE
  /\ hdl = "S_CONNECTED"
  /\ delay = 0
  /\ importBuf = NoVal
  /\ hdlTime = 0
  /\ hdlIn = NoVal /\ hdlOut = NoVal
  /\ changes = MaxChanges

-----------------------------------------------------------------------------
(* What follows a call of the handler *)

\* A wrapper that ignores the values it gets
InputsKept ==
  /\ hdl' = "running"
  /\ UNCHANGED ports

\* sscanf into the input ports, which the design may answer
DriveInputs ==
  /\ hdlIn' = importBuf
  /\ changes' = IF importBuf = hdlIn THEN changes ELSE MaxChanges
  /\ hdl' = "running"
  /\ UNCHANGED <<hdlTime, hdlOut>>

\* xsimintf_delay has returned: #delay if it is not negative, else $finish.
AfterDelay ==
  /\ hdl' = IF finish \/ delay < 0 THEN "done" ELSE "S_IMPORT"
  /\ hdlTime' = IF finish \/ delay < 0 THEN hdlTime ELSE hdlTime + delay
  /\ UNCHANGED <<hdlIn, hdlOut, changes>>

\* The handler returns to the wrapper: from xsimintf_init to the first import of the
\* initial block; from an import or an export to the values scanned.
Return ==
  \/ hdl = "S_CONNECTED" /\ hdl' = "S_IMPORT" /\ UNCHANGED ports
  \/ hdl \in {"S_IMPORT", "S_EXPORT"} /\ DriveInputs
  \/ hdl = "S_DELAY" /\ AfterDelay

-----------------------------------------------------------------------------
(* cmd_handler *)

\* A message that is left in the buffer after it was decoded
ReceiveKept(type) ==
  /\ Handling /\ ~finish
  /\ toHdl # <<>> /\ Head(toHdl).type = type
  /\ UNCHANGED toHdl

Receive(type) ==
  /\ Handling /\ ~finish
  /\ toHdl # <<>> /\ Head(toHdl).type = type
  /\ toHdl' = Tail(toHdl)

Reply(type, param) == toSim' = Append(toSim, Message(type, param))

HandleGet ==
  /\ Receive("GET")
  /\ Reply("RESP", hdl)
  /\ UNCHANGED <<finish, hdl, delay, importBuf, ports>>

HandleSet ==
  /\ Receive("SET")
  /\ delay' = Head(toHdl).param
  /\ Reply("RESP", NoVal)
  /\ UNCHANGED <<finish, hdl, importBuf, ports>>

HandleImport ==
  /\ Receive("IMPORT")
  /\ importBuf' = Head(toHdl).param
  /\ Reply("RESP", NoVal)
  /\ UNCHANGED <<finish, hdl, delay, ports>>

HandleExport ==
  /\ Receive("EXPORT")
  /\ Reply("EXPORT", hdlOut)
  /\ UNCHANGED <<finish, hdl, delay, importBuf, ports>>

\* The answer is sent before the handler returns; what the wrapper does then is not
\* seen by the other end until the next call of the handler.
HandleContinue ==
  /\ Receive("CONTINUE")
  /\ Reply("RESP", NoVal)
  /\ Return
  /\ UNCHANGED <<finish, delay, importBuf>>

\* A CLOSE that ends nothing
CloseIgnored ==
  /\ Receive("CLOSE")
  /\ UNCHANGED <<toSim, finish, hdl, delay, importBuf, ports>>

\* CLOSE has no answer.
HandleClose ==
  /\ Receive("CLOSE")
  /\ finish' = TRUE
  /\ UNCHANGED <<toSim, hdl, delay, importBuf, ports>>

\* recv returns nothing: the connection has ended, or ten seconds have passed.
ReceiveNothing(ended) ==
  /\ Handling /\ ~finish
  /\ toHdl = <<>>
  /\ ended \/ SlowAnswers
  /\ finish' = TRUE
  /\ UNCHANGED <<link, hdl, delay, importBuf, ports>>

\* Once finish is set every call of the handler returns at once.
ReturnFinished ==
  /\ Handling /\ finish
  /\ Return
  /\ UNCHANGED <<link, finish, delay, importBuf>>

-----------------------------------------------------------------------------
(* The wrapper and the design in it *)

\* The design changes its outputs: always @(outputs) calls xsimintf_export.
OutputChange ==
  /\ hdl = "running"
  /\ changes > 0
  /\ \E v \in Vals \ {hdlOut} : hdlOut' = v
  /\ changes' = changes - 1
  /\ hdl' = "S_EXPORT"
  /\ UNCHANGED <<link, finish, delay, importBuf, hdlTime, hdlIn>>

\* It has settled: always #1 moves on and calls xsimintf_delay.
Settle ==
  /\ hdl = "running"
  /\ hdlTime' = hdlTime + 1
  /\ changes' = 0
  /\ hdl' = "S_DELAY"
  /\ UNCHANGED <<link, finish, delay, importBuf, hdlIn, hdlOut>>

HdlStep(ended) ==
  \/ HandleGet \/ HandleSet \/ HandleImport \/ HandleExport
  \/ HandleContinue \/ HandleClose
  \/ ReceiveNothing(ended) \/ ReturnFinished
  \/ OutputChange \/ Settle
=============================================================================
