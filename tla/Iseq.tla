-------------------------------- MODULE Iseq --------------------------------
(***************************************************************************)
(* The sequential interface iseq (sydpy/intfs/iseq.py) over the kernel of  *)
(* module Simulator: _fifo_proc takes the items pushed into the queue of   *)
(* the subinterface data, _ff_proc is the register that samples data into  *)
(* _dout at a rising clock edge when ready and valid are set.  The design  *)
(* around it toggles clk, pushes items and may drive ready.                *)
(***************************************************************************)
EXTENDS Simulator, Sequences

CONSTANTS
  FF, FIFO,       \* the processes _p_ff_proc and _p_fifo_proc
  Clk, Gen, Rdy,  \* processes of the design: clock, source of items, sink
  HalfPeriod,     \* the Delay of the clock process
  MaxItems        \* bound on the items pushed

Item == 1 .. MaxItems      \* numbered in the order of their push
Bit  == {0, 1}

ASSUME IseqAssumption ==
  /\ {FF, FIFO, Clk, Gen} \subseteq Procs /\ Procs \subseteq {FF, FIFO, Clk, Gen, Rdy}
  /\ FIFO \notin {FF, Clk, Gen, Rdy}
  /\ Events = {"data.enqueued", "data.updated", "clk.posedge", "_dout.updated"}
  /\ Chain = [e \in Events |-> {}]
  /\ Sigs = {"data", "valid", "ready", "last", "clk", "_dout"}
  /\ HalfPeriod \in Delays \ {0} /\ MaxItems \in Nat \ {0}

VARIABLES
  val,       \* val[s]: the value of subinterface s
  next,      \* its next value
  mem,       \* the queue of data
  created,   \* the events in use
  stage,     \* where _fifo_proc stands
  pushed,    \* the number of items pushed so far
  taken,     \* the number of items _fifo_proc has popped
  out        \* the items _dout has shown, one entry for each change

ivars   == <<val, next, mem, created, stage, pushed, taken, out>>
allvars == <<vars, ivars>>

ITypeOK ==
  /\ val \in [Sigs -> 0 .. MaxItems] /\ next \in [Sigs -> 0 .. MaxItems]
  /\ \A s \in {"valid", "ready", "last", "clk"} : val[s] \in Bit /\ next[s] \in Bit
  /\ mem \in Seq(Item)
  /\ created \subseteq Events
  /\ stage \in {"start", "pop_wait", "upd_wait", "out_wait"}
  /\ pushed \in 0 .. MaxItems /\ taken \in 0 .. pushed
  /\ out \in Seq(0 .. MaxItems)

\* valid and ready are set by default.
IInit ==
  /\ Init
  /\ val = [s \in Sigs |-> IF s \in {"valid", "ready"} THEN 1 ELSE 0]
  /\ next = val
  /\ mem = <<>>
  /\ created = {"clk.posedge"}
  /\ stage = "start"
  /\ pushed = 0
  /\ taken = 0
  /\ out = <<>>

-----------------------------------------------------------------------------
(* _fifo_proc *)

\* bpop of an empty queue
FifoBlocks ==
  /\ stage \in {"start", "out_wait"}
  /\ mem = <<>>
  /\ RunProc(FIFO, {}, {}, {"data.enqueued"}, NoDelay)
  /\ stage' = "pop_wait"
  /\ created' = created \cup {"data.enqueued"}
  /\ UNCHANGED <<val, next, mem, pushed, taken, out>>

\* bpop takes the head of the queue and waits for the update.
FifoTakes ==
  /\ stage \in {"start", "pop_wait", "out_wait"}
  /\ mem # <<>>
  /\ RunProc(FIFO, {}, {"data"}, {"data.updated"}, NoDelay)
  /\ next' = [next EXCEPT !["data"] = Head(mem)]
  /\ mem' = Tail(mem)
  /\ taken' = taken + 1
  /\ stage' = "upd_wait"
  /\ created' = created \cup {"data.updated"}
  /\ UNCHANGED <<val, pushed, out>>

\* A _fifo_proc that goes on at the next clock edge, ready or not
OfferedForACycle == {"clk.posedge"}

OfferedUntil == {"_dout.updated"}

\* The item is offered: a list never equals False, so last is written 0; valid is
\* written 1; the process waits until the register has been written.
FifoOffers ==
  /\ stage = "upd_wait"
  /\ RunProc(FIFO, {}, {"last", "valid"}, OfferedUntil, NoDelay)
  /\ next' = [next EXCEPT !["last"] = 0, !["valid"] = 1]
  /\ stage' = "out_wait"
  /\ created' = created \cup OfferedUntil
  /\ UNCHANGED <<val, mem, pushed, taken, out>>

-----------------------------------------------------------------------------
(* _ff_proc, sensitive to the rising edge of clk *)

\* The first slice of a process with a sensitivity list only waits.
Starts(p) == p \in procPool /\ events[p] = {} /\ p \notin delayed

Enabled == val["ready"] = 1 /\ val["valid"] = 1

FFStart ==
  /\ Starts(FF)
  /\ RunProc(FF, {}, {}, {"clk.posedge"}, NoDelay)
  /\ UNCHANGED ivars

FFSample ==
  /\ ~Starts(FF)
  /\ RunProc(FF, {}, IF Enabled THEN {"_dout"} ELSE {}, {"clk.posedge"}, NoDelay)
  /\ next' = IF Enabled THEN [next EXCEPT !["_dout"] = val["data"]] ELSE next
  /\ UNCHANGED <<val, mem, created, stage, pushed, taken, out>>

-----------------------------------------------------------------------------
(* The design *)

ClkStart ==
  /\ Starts(Clk)
  /\ RunProc(Clk, {}, {}, {}, HalfPeriod)
  /\ UNCHANGED ivars

ClkToggle ==
  /\ ~Starts(Clk)
  /\ RunProc(Clk, {}, {"clk"}, {}, HalfPeriod)
  /\ next' = [next EXCEPT !["clk"] = 1 - val["clk"]]
  /\ UNCHANGED <<val, mem, created, stage, pushed, taken, out>>

\* n calls of iseq.push, then a Delay, or the end of the process
GenPush ==
  \E n \in 0 .. MaxItems - pushed, d \in Delays \cup {NoDelay} :
    /\ pushed + n < MaxItems => d # NoDelay
    /\ RunProc(Gen, IF n > 0 THEN {"data.enqueued"} \cap created ELSE {}, {}, {}, d)
    /\ mem' = mem \o [i \in 1 .. n |-> pushed + i]
    /\ pushed' = pushed + n
    /\ UNCHANGED <<val, next, created, stage, taken, out>>

\* A sink that drives ready at every clock edge
RdyDrive ==
  \E r \in Bit :
    /\ RunProc(Rdy, {}, {"ready"}, {"clk.posedge"}, NoDelay)
    /\ next' = [next EXCEPT !["ready"] = r]
    /\ UNCHANGED <<val, mem, created, stage, pushed, taken, out>>

-----------------------------------------------------------------------------

\* The events an update of the subinterfaces triggers
Triggers ==
  created \cap
    { e \in Events :
        \/ e = "data.updated" /\ "data" \in updatePool
        \/ e = "_dout.updated" /\ "_dout" \in updatePool
        \/ e = "clk.posedge" /\ "clk" \in updatePool /\ val["clk"] = 0 /\ next["clk"] = 1 }

IseqUpdate ==
  /\ Update(Triggers)
  /\ val' = [s \in Sigs |-> IF s \in updatePool THEN next[s] ELSE val[s]]
  /\ out' = IF val'["_dout"] # val["_dout"] THEN Append(out, val'["_dout"]) ELSE out
  /\ UNCHANGED <<next, mem, created, stage, pushed, taken>>

IseqStep == FifoBlocks \/ FifoTakes \/ FifoOffers \/ FFStart \/ FFSample

\* Elaboration makes the processes of the interface and of the design.
Elaborated == pc = "elaborate" => procPool = Procs

INext ==
  \/ \E p \in Procs : ProcReg(p) /\ UNCHANGED ivars
  \/ Elaborated /\ KernelStep /\ UNCHANGED ivars
  \/ IseqStep
  \/ ClkStart \/ ClkToggle \/ GenPush \/ (Rdy \in Procs /\ RdyDrive)
  \/ IseqUpdate
  \/ DeltaEnd({}) /\ UNCHANGED ivars
  \/ Terminated /\ UNCHANGED ivars

ISpec == IInit /\ [][INext]_allvars

-----------------------------------------------------------------------------
(* Properties *)

\* The interface is a queue from push to _dout: its value moves on to the next item
\* pushed, and none is skipped, whether ready holds it up or not.
InTransit == [i \in 1 .. pushed - Len(out) |-> Len(out) + i]

Transfer == INSTANCE Fifo WITH Items <- Item, queue <- InTransit, got <- out

TransferSpec == Transfer!Spec

\* No clock edge is wasted: when a time step has settled and items are left in the
\* queue, one that the register has not taken yet is on offer for the next edge.
\* (Not so for the first item: _dout.updated is not in use before it is offered, so
\* an edge that takes it before that goes unnoticed and takes it once more.)
NoBubble ==
  pc = "loop" /\ ~Pending /\ mem # <<>> /\ taken > 1 =>
    taken = Len(out) + 1 /\ val["data"] = taken /\ val["valid"] = 1
=============================================================================
