---------------------------- MODULE Transactions ----------------------------
(***************************************************************************)
(* Transactions through a clocked design and a scoreboard, in the previous *)
(* architecture (sydpy/intfs/seq.py, tlm.py, sydpy/verif, _process.py):    *)
(* BasicSeq pushes transactions into a channel; the active architecture    *)
(* gets them item by item over a seq interface (_tlm_to_seq_arch) and      *)
(* gives them back as transactions (_seq_to_tlm_arch); the passive one     *)
(* watches the channel (AlwaysAcquire); Scoreboard compares the two.  The  *)
(* design of the active architecture is a pipeline that may refuse items.  *)
(* The loop of _simulator.py is that of module Simulator, and the queue of *)
(* a tlm is that of Signal, whose bpop and bpush are called blk_* there.   *)
(***************************************************************************)
EXTENDS Simulator, Sequences

CONSTANTS
  Lens,         \* Lens[i]: the number of items of the i-th transaction
  SendDelays,   \* the delays the generator of BasicSeq yields
  Latency,      \* the stages of the design's pipeline
  Stalls,       \* whether the design may drive ready low
  HalfPeriod

Bit     == {0, 1}
Queues  == {"in", "dut", "ref"}
NoItem  == [valid |-> 0, item |-> <<>>, last |-> 0]

\* The events of the queue q: Enqueued[q] and Updated[q]
Enqueued == [in |-> "in.enqueued", dut |-> "dut.enqueued", ref |-> "ref.enqueued"]
Updated  == [in |-> "in.updated", dut |-> "dut.updated", ref |-> "ref.updated"]

Items(t) == [j \in 1 .. Lens[t] |-> <<t, j>>]

TransactionsAssumption ==
  /\ Procs = {"main", "clk", "acquire", "send", "design", "recv", "passive", "compare"}
  /\ Sigs = Queues \cup {"clk", "bus", "ready", "pipe"}
  /\ Events = {"in.enqueued", "in.updated", "dut.enqueued", "dut.updated", "ref.enqueued",
               "ref.updated", "clk.posedge", "last_data_event"}
  /\ Chain = [e \in Events |-> {}]
  /\ Lens \in Seq(Nat \ {0}) /\ SendDelays \subseteq Nat /\ Latency \in Nat
  /\ Stalls \in BOOLEAN /\ HalfPeriod \in Nat \ {0}
  /\ Delays = (SendDelays \ {0}) \cup {HalfPeriod}

VARIABLES
  val, next,   \* the values of the signals
  mem,         \* the queues of the transaction interfaces
  at,          \* at[p]: where the process p stands
  sent,        \* transactions taken from the generator
  fifo,        \* data_fifo and last_fifo of _tlm_to_seq_arch
  remain,      \* remain of _seq_to_tlm_arch
  held,        \* what a process is about to push or compare
  received,    \* the transactions that came out of the design, in order
  results      \* scoreboard_results

bvars   == <<val, next, mem, at, sent, fifo, remain, held, received, results>>
allvars == <<vars, bvars>>

BTypeOK ==
  /\ val["clk"] \in Bit /\ val["ready"] \in Bit
  /\ Len(mem["dut"]) <= 1 /\ Len(mem["ref"]) <= 1 /\ Len(mem["in"]) <= 1
  /\ sent \in 0 .. Len(Lens)
  /\ \A i \in DOMAIN fifo : fifo[i].last = 1 <=> i = Len(fifo)
  /\ results \in Seq(BOOLEAN)

TInit ==
  /\ Init
  /\ val = [s \in Sigs |-> CASE s = "bus" -> NoItem
                             [] s = "pipe" -> [k \in 1 .. Latency |-> NoItem]
                             [] s = "ready" -> 1
                             [] s = "clk" -> 0
                             [] OTHER -> <<>>]
  /\ next = val
  /\ mem = [q \in Queues |-> <<>>]
  /\ at = [p \in Procs |-> "start"]
  /\ sent = 0
  /\ fifo = <<>> /\ remain = <<>>
  /\ held = [p \in Procs |-> <<>>]
  /\ received = <<>> /\ results = <<>>

-----------------------------------------------------------------------------
(* The queue of a transaction interface *)

\* bpush: when the queue is empty x goes in and the event enqueued is triggered; else
\* the process waits for an update of the queue and looks again.
Pushed(q, m, x) == [m EXCEPT ![q] = Append(@, x)]
Full(q)         == mem[q] # <<>>

\* bpop, in its two slices: the head is taken and the update requested, ...
PopBlocks(p, q) ==
  /\ mem[q] = <<>>
  /\ RunProc(p, {}, {}, {Enqueued[q]}, NoDelay)
  /\ UNCHANGED <<val, next, mem, at, sent, fifo, remain, held, received, results>>

PopTakes(p, q, to) ==
  /\ mem[q] # <<>>
  /\ RunProc(p, {}, {q}, {Updated[q]}, NoDelay)
  /\ mem' = [mem EXCEPT ![q] = Tail(@)]
  /\ next' = [next EXCEPT ![q] = Head(mem[q])]
  /\ at' = [at EXCEPT ![p] = to]
  /\ UNCHANGED <<val, sent, fifo, remain, held, received, results>>

-----------------------------------------------------------------------------
(* BasicSeq *)

\* The generator's next transaction, after its delay
MainNext ==
  /\ at["main"] = "start" /\ sent < Len(Lens)
  /\ \E d \in SendDelays \ {0} :
       RunProc("main", {}, {}, {}, d)
  /\ at' = [at EXCEPT !["main"] = "push"]
  /\ UNCHANGED <<val, next, mem, sent, fifo, remain, held, received, results>>

\* flow_ctrl: the transaction is not sent until the channel is empty.
MainBlocks ==
  /\ at["main"] = "push" \/ (at["main"] = "start" /\ 0 \in SendDelays)
  /\ sent < Len(Lens) /\ Full("in")
  /\ RunProc("main", {}, {}, {"in.updated"}, NoDelay)
  /\ at' = [at EXCEPT !["main"] = "push"]
  /\ UNCHANGED <<val, next, mem, sent, fifo, remain, held, received, results>>

\* The transaction is sent; the same slice goes on to the delay of the next one,
\* to the next push (which finds the queue full), or to the end.
MainPush ==
  /\ at["main"] = "push" \/ (at["main"] = "start" /\ 0 \in SendDelays)
  /\ sent < Len(Lens) /\ ~Full("in")
  /\ sent' = sent + 1
  /\ mem' = Pushed("in", mem, Items(sent + 1))
  /\ \/ /\ sent + 1 < Len(Lens)
        /\ \E d \in SendDelays :
             IF d # 0 THEN RunProc("main", {"in.enqueued"}, {}, {}, d)
             ELSE RunProc("main", {"in.enqueued"}, {}, {"in.updated"}, NoDelay)
     \/ /\ sent + 1 = Len(Lens)
        /\ RunProc("main", {"in.enqueued"}, {}, {}, NoDelay)
  /\ at' = [at EXCEPT !["main"] = "push"]
  /\ UNCHANGED <<val, next, fifo, remain, held, received, results>>

-----------------------------------------------------------------------------
(* _tlm_to_seq_arch *)

\* acquire: the loop comes back to bpop at the start and after last_data_event.
AcquirePop ==
  /\ at["acquire"] \in {"start", "sent"}
  /\ PopBlocks("acquire", "in") \/ PopTakes("acquire", "in", "popped")

Burst(x) == [i \in 1 .. Len(x) |-> [valid |-> 1, item |-> x[i], last |-> IF i = Len(x) THEN 1 ELSE 0]]

\* Its items go to the two lists; unless an item is on offer the first one is.
AcquireFill ==
  /\ at["acquire"] = "popped"
  /\ RunProc("acquire", {}, IF val["bus"].valid = 0 THEN {"bus"} ELSE {}, {"last_data_event"}, NoDelay)
  /\ fifo' = fifo \o Burst(val["in"])
  /\ next' = [next EXCEPT !["bus"] = IF val["bus"].valid = 0 THEN fifo'[1] ELSE @]
  /\ at' = [at EXCEPT !["acquire"] = "sent"]
  /\ UNCHANGED <<val, mem, sent, remain, held, received, results>>

\* A process that is sensitive to the clock: its first slice only waits.
Sensitive(p) ==
  /\ at[p] = "start"
  /\ RunProc(p, {}, {}, {"clk.posedge"}, NoDelay)
  /\ at' = [at EXCEPT ![p] = "clocked"]
  /\ UNCHANGED <<val, next, mem, sent, fifo, remain, held, received, results>>

Clocked(p, T, U) ==
  /\ at[p] = "clocked"
  /\ RunProc(p, T, U, {"clk.posedge"}, NoDelay)

Taken == fifo # <<>> /\ val["ready"] = 1

LastTaken == Taken /\ Head(fifo).last = 1

\* send: when the design has taken the head, the next item is offered, or none.
Send ==
  LET rest == IF Taken THEN Tail(fifo) ELSE fifo
  IN  /\ Clocked("send", IF LastTaken THEN {"last_data_event"} ELSE {},
                 IF fifo = <<>> \/ Taken THEN {"bus"} ELSE {})
      /\ fifo' = rest
      /\ next' = [next EXCEPT !["bus"] =
                    IF rest = <<>> THEN [val["bus"] EXCEPT !.valid = 0, !.last = 0]
                    ELSE IF Taken THEN Head(rest) ELSE @]
      /\ UNCHANGED <<val, mem, at, sent, remain, held, received, results>>

-----------------------------------------------------------------------------
(* The clock, and the design: a pipeline that takes an item when it is ready *)

ClkToggle ==
  /\ RunProc("clk", {}, IF at["clk"] = "start" THEN {} ELSE {"clk"}, {}, HalfPeriod)
  /\ next' = [next EXCEPT !["clk"] = IF at["clk"] = "start" THEN @ ELSE 1 - val["clk"]]
  /\ at' = [at EXCEPT !["clk"] = "run"]
  /\ UNCHANGED <<val, mem, sent, fifo, remain, held, received, results>>

Input  == IF val["ready"] = 1 THEN val["bus"] ELSE NoItem
Output == IF Latency = 0 THEN Input ELSE val["pipe"][Latency]

Design ==
  /\ Clocked("design", {}, {"pipe", "ready"})
  /\ \E r \in IF Stalls THEN Bit ELSE {1} :
       next' = [next EXCEPT !["pipe"] = [k \in 1 .. Latency |-> IF k = 1 THEN Input ELSE val["pipe"][k - 1]],
                            !["ready"] = r]
  /\ UNCHANGED <<val, mem, at, sent, fifo, remain, held, received, results>>

-----------------------------------------------------------------------------
(* _seq_to_tlm_arch *)

\* A transaction that keeps the items of the one before
RemainKept(x) == x

\* remain after the last item
Cleared(x) == <<>>

\* An item is added to remain; with the last one remain is written (its push waits
\* until the queue is empty, and so misses edges).
Recv ==
  /\ at["recv"] = "clocked"
  /\ LET x == IF Output.valid = 1 THEN Append(remain, Output.item) ELSE remain
         done == Output.valid = 1 /\ Output.last = 1
     IN  /\ remain' = IF done THEN Cleared(x) ELSE x
         /\ received' = IF done THEN Append(received, x) ELSE received
         /\ IF ~done
            THEN RunProc("recv", {}, {}, {"clk.posedge"}, NoDelay) /\ UNCHANGED <<mem, at, held>>
            ELSE IF Full("dut")
            THEN /\ RunProc("recv", {}, {}, {"dut.updated"}, NoDelay)
                 /\ at' = [at EXCEPT !["recv"] = "push"]
                 /\ held' = [held EXCEPT !["recv"] = x]
                 /\ UNCHANGED mem
            ELSE /\ RunProc("recv", {"dut.enqueued"}, {}, {"clk.posedge"}, NoDelay)
                 /\ mem' = Pushed("dut", mem, x)
                 /\ UNCHANGED <<at, held>>
  /\ UNCHANGED <<val, next, sent, fifo, results>>

\* The rest of a push that has waited: q's process goes on to wait for the event e.
PushAgain(p, q, e, to) ==
  /\ at[p] = "push"
  /\ IF Full(q)
     THEN RunProc(p, {}, {}, {Updated[q]}, NoDelay) /\ UNCHANGED <<mem, at>>
     ELSE /\ RunProc(p, {Enqueued[q]}, {}, {e}, NoDelay)
          /\ mem' = Pushed(q, mem, held[p])
          /\ at' = [at EXCEPT ![p] = to]
  /\ UNCHANGED <<val, next, sent, fifo, remain, held, received, results>>

-----------------------------------------------------------------------------
(* AlwaysAcquire of a passive architecture *)

PassiveWait ==
  /\ at["passive"] = "start"
  /\ RunProc("passive", {}, {}, {"in.updated"}, NoDelay)
  /\ at' = [at EXCEPT !["passive"] = "watch"]
  /\ UNCHANGED <<val, next, mem, sent, fifo, remain, held, received, results>>

\* A reference that does not wait for the scoreboard
PassiveDrops ==
  /\ at["passive"] = "watch"
  /\ RunProc("passive", IF Full("ref") THEN {} ELSE {"ref.enqueued"}, {}, {"in.updated"}, NoDelay)
  /\ mem' = IF Full("ref") THEN mem ELSE Pushed("ref", mem, val["in"])
  /\ UNCHANGED <<val, next, at, held, sent, fifo, remain, received, results>>

\* It sees what the active architecture has popped, and writes its own output.
Passive ==
  /\ at["passive"] = "watch"
  /\ IF Full("ref")
     THEN /\ RunProc("passive", {}, {}, {"ref.updated"}, NoDelay)
          /\ at' = [at EXCEPT !["passive"] = "push"]
          /\ held' = [held EXCEPT !["passive"] = val["in"]]
          /\ UNCHANGED mem
     ELSE /\ RunProc("passive", {"ref.enqueued"}, {}, {"in.updated"}, NoDelay)
          /\ mem' = Pushed("ref", mem, val["in"])
          /\ UNCHANGED <<at, held>>
  /\ UNCHANGED <<val, next, sent, fifo, remain, received, results>>

-----------------------------------------------------------------------------
(* Scoreboard *)

\* compare: the reference first, then the output of the design
CompareRef ==
  /\ at["compare"] = "start"
  /\ PopBlocks("compare", "ref") \/ PopTakes("compare", "ref", "ref")

\* The reference has come: the slice goes on to the other queue.
CompareDut ==
  /\ at["compare"] = "ref"
  /\ PopBlocks("compare", "dut") \/ PopTakes("compare", "dut", "dut")

\* Both have come: they are compared, and the loop goes back to the reference.
Compare ==
  /\ at["compare"] = "dut"
  /\ results' = Append(results, val["ref"] = val["dut"])
  /\ IF mem["ref"] = <<>>
     THEN /\ RunProc("compare", {}, {}, {"ref.enqueued"}, NoDelay)
          /\ at' = [at EXCEPT !["compare"] = "start"]
          /\ UNCHANGED <<mem, next>>
     ELSE /\ RunProc("compare", {}, {"ref"}, {"ref.updated"}, NoDelay)
          /\ mem' = [mem EXCEPT !["ref"] = Tail(@)]
          /\ next' = [next EXCEPT !["ref"] = Head(mem["ref"])]
          /\ at' = [at EXCEPT !["compare"] = "ref"]
  /\ UNCHANGED <<val, sent, fifo, remain, held, received>>

-----------------------------------------------------------------------------

Triggers ==
  { Updated[q] : q \in updatePool \cap Queues }
  \cup IF "clk" \in updatePool /\ val["clk"] = 0 /\ next["clk"] = 1 THEN {"clk.posedge"} ELSE {}

SignalsUpdate ==
  /\ Update(Triggers)
  /\ val' = [s \in Sigs |-> IF s \in updatePool THEN next[s] ELSE val[s]]
  /\ UNCHANGED <<next, mem, at, sent, fifo, remain, held, received, results>>

Elaborated == pc = "elaborate" => procPool = Procs

TNext ==
  \/ \E p \in Procs : ProcReg(p) /\ UNCHANGED bvars
  \/ Elaborated /\ KernelStep /\ UNCHANGED bvars
  \/ MainNext \/ MainBlocks \/ MainPush
  \/ AcquirePop \/ AcquireFill
  \/ \E p \in {"send", "design", "recv"} : Sensitive(p)
  \/ Send \/ ClkToggle \/ Design \/ Recv
  \/ PushAgain("recv", "dut", "clk.posedge", "clocked")
  \/ PassiveWait \/ Passive \/ PushAgain("passive", "ref", "in.updated", "watch")
  \/ CompareRef \/ CompareDut \/ Compare
  \/ SignalsUpdate
  \/ DeltaEnd({}) /\ UNCHANGED bvars
  \/ Terminated /\ UNCHANGED bvars

TSpec == TInit /\ [][TNext]_allvars

-----------------------------------------------------------------------------
(* Properties *)

\* The transactions that come out of the design are those that were sent, whole and
\* in order, whatever the design refuses in between.
BurstsWhole == \A i \in DOMAIN received : received[i] = Items(i)

\* A design that gives back what it gets passes: the scoreboard compares the k-th
\* transaction of one side with the k-th of the other, and when the simulation ends,
\* none that has come out of the design is left without its comparison (unless it
\* ended in the middle of a time step, at the delta limit).
ScoreboardExact ==
  /\ \A k \in DOMAIN results : results[k]
  /\ pc = "finished" /\ deltaCount <= MaxDelta => Len(results) = Len(received)
=============================================================================
