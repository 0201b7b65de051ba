# Formal models of sydpy

sydpy is a discrete-event simulator for digital hardware written in Python. A
design is a tree of components; its processes are greenlets that wait for events
and delays, its interfaces carry values between them, and a kernel in the style of
SystemC runs the processes in *delta cycles* of an evaluate and an update phase. This
directory holds TLA+ models of the kernel, of the interfaces and data types built on it, of
how designs are connected and of the extensions and the verification library around them,
the TLC configurations that check them on small instances, and proofs, checked by TLAPS, of
what holds for every design.

Line numbers below and in `PROJECT.json` refer to the repository's files.

## The system

### Parts

| Part | State it keeps | Operations | Correct when |
|---|---|---|---|
| **Kernel** `simulator.py` | `time`, `delta_count`, `_ready_pool`, `trig_pool`, `update_pool`, `delay_pool`, `_proc_pool`, callback lists `events` | `proc_reg`, `run`, the loop `_run` with `_evaluate`, `_update`, `_advance_time`; `wait`, `update`, `trigger`, `delay_add`, `delay_pop` called by processes | no wakeup is lost or invented, a Delay ends exactly at its time, a write takes effect at the end of its own delta cycle, nothing runs past the duration, every run ends |
| **Process** `process.py` | the events of its last wait, its greenlet | `run` (function, then a wait on the sensitivity list, or forever) | is run once for each time it is owed a slice |
| **Event** `_event.py` | `pool` of processes and of further events, `subevents` | `subscribe`, `unsubscribe`, `trigger`, `resolve` | wakes whoever is subscribed when it is resolved, also through chains |
| **Delay** `_delay.py` | its length | `subscribe`, `unsubscribe` | an alarm |
| **Signal** `_signal.py` | `mem` (the queue), `_val`, `_next`, the set `e` of its events | `push`, `bpush`, `pop`, `bpop`, `write`, `write_after`, `_update` | a FIFO between producers and a consumer; two-phase update of a value |
| **isig, Itlm** `intfs/` | `_sig`, `_sourced`, `_dtype`, conversion process | the operations of Signal, with lazy creation; `_from_isig` connects | the slaves see what the master's signal does |
| **iseq** `intfs/iseq.py` | the sub-interfaces `data`, `valid`, `ready`, `last`, two processes | `_fifo_proc`, `_ff_proc` | items leave in order, one per accepted clock edge |
| **Channel** `channel.py` | `master`, `slaves` | `sink`, `drive` | every slave is connected to the master in whichever order they come |
| **Component tree** `component.py`, `configurator.py`, `unit.py`, `module.py` | parents, children, configuration dictionary | `inst`, `search`, configuration lookup | a more recent match of the configuration wins |
| **Cosimulation** `xsim.py`, `server.py`, `cosim.py`, `intf/xsim/src/*.c` | on the Python side the simulated time sent; on the C side `state`, `delay`, `finish` and the message buffers | `$GET`, `$SET`, `$IMPORT`, `$EXPORT`, `$CONTINUE`, `$CLOSE` | both sides stand where the other thinks they do, and their times agree |
| **Data types** `types/` | value and valid bits | slices, `_replace`, packing `_icon`, `convgen` | no bit is lost, moved or made up; what is unknown stays unknown |
| **Random values** `rnd/`, the `_rnd` of the types | the position of a random source | `set_seed`, drawing of nested values | a seed determines the items, whatever else is drawn |
| **Extensions** `extens/` | callbacks in the kernel's `SimEvent` lists, the traces, the lines written | `VCDTracer`, `SimtimeProgress`, profiler, coverage | the file gives each signal the values it had |
| **Verification library** `verif/` | the transaction generated, the results | `BasicSeq`, `BasicRndSeq`, `Scoreboard`, `UnitTest` | every transaction is compared, with the right one |

The repository also holds the architecture that preceded this one (`_simulator.py`,
`_process.py`, `_module.py`, `_component.py`, `_channel.py`, `intfs/_intf.py`, `sig.py`, `seq.py`,
`tlm.py`, ...), and `extens/` and `verif/` are written for it. It does not run at this commit:
its imports name modules that have moved, its processes call `blk_pop` and the like, which the
interfaces no longer have, and `EventSet` takes other arguments. Its parts are modelled as they are written,
with the calls of the code it was written for: `blk_push` and `blk_pop` are `bpush` and `bpop`.
It states its behaviour in more documents and tests than the new code does, which is
why it is worth modelling.

### How the parts interact

* **Greenlet switches.** The scheduler is a greenlet. `_evaluate` switches to a process
  and `Simulator.wait` switches back. Nothing else is concurrent, so the code between
  two waits is atomic. What is not determined is the *order* of the slices in one
  evaluate phase: `_ready_pool` is a `set`. Wherever state is tested before a wait and used
  after it, every other process may have run in between.
* **Events.** `Event.trigger` only adds the event to `trig_pool`. After all
  slices of the evaluate phase every triggered event is resolved: the processes in
  its pool, and in those of the events chained to it, become ready for the next
  delta cycle. They stay in the pool and are unsubscribed when they are run.
* **Signals.** `Simulator.update(sig)` puts a signal in `update_pool`; `_update` calls
  `sig._update`, which commits `_next` and triggers events. Those are resolved in the
  following delta cycle.
* **Lazy events.** An event is made when it is first used; a trigger is skipped when
  nobody has used the event (`if 'enqueued' in self.e.comp`).
* **Callbacks.** `SimEvent` lists are called at `run_start`, `run_end`,
  `delta_start`, `delta_settled`, `timestep_start`. Cosimulation hooks in here; in
  `delta_settled` it writes signals and calls `_update` outside the evaluate phase.
* **Messages.** The cosimulation exchange is one TCP connection, one request and one
  answer at a time.

### What is hard

Order of slices; state read before a wait and relied upon after it; several waiters
woken by one event; a process that waits for an event *or* a delay; triggers left over
from the update phase; writes from callbacks; the end of the run in the middle of
pending work; lazily made events and signals; elaboration order of channels;
cosimulation states on two sides; values that are mutable and shared; a handshake that must
neither lose nor repeat an item; conversion between types of different widths; names
that are resolved while the components they name are being made. `PROJECT.json` lists the hazards
at their lines, each with the property that watches it or with the reason why none does.

## Modules

| Module | Models | Kind |
|---|---|---|
| `Simulator` | kernel, processes, events, delays | state machine with parameters for what a slice does |
| `Timers` | what a Delay promises | abstract specification |
| `SignalQueue` | `push`, `bpush`, `bpop`, `_update` behind isig and Itlm | `EXTENDS Simulator`, conjoins the queue's effects to the kernel's actions |
| `Fifo` | what a queue promises its consumer | abstract specification |
| `Xsimintf` | `xsimintf.c` and the SystemVerilog wrapper generated by `xsim.py` | state machine of the HDL simulator's end |
| `Cosim` | `XsimIntf`, `Server`, `Cosim` | `EXTENDS Simulator, Xsimintf`: the kernel's callbacks, with the connection between the two ends |
| `SignalValue` | `write`, `write_after`, `read`, `_update` and its events, slices | `EXTENDS Simulator` |
| `Iseq` | the processes of iseq, with clock, source and sink | `EXTENDS Simulator`; implements `Fifo` |
| `Wiring` | `Channel`, `_connect`, chained events, and the processes a connection makes | state machine of elaboration and of what is carried afterwards |
| `BitOps` | the data type bit | operators |
| `Bits` | a bit value under any sequence of calls | state machine over `BitOps` |
| `Convgen` | `conv`, `_convgen` and the `_icon` of all types | operators over `BitOps` |
| `Packing` | the process that converts between two interfaces | state machine over `Convgen` |
| `Composites` | the items of arrays, vectors and structs; enums | state machine over `Convgen` |
| `Rnd` | `rnd`, the `_rnd` of the types, `BasicRndSeq` | state machine |
| `Tracing` | `SimEvent`, `VCDTracer`, `SimtimeProgress` | state machine around an abstract loop |
| `Transactions` | seq and tlm, `BasicSeq`, active and passive architecture, `Scoreboard` | `EXTENDS Simulator` |
| `Elaboration` | modules, architectures, channels by name, conversion architectures | state machine of the previous architecture's elaboration |
| `SimulatorProofs` | | theorems about `Simulator` |
| `SignalQueueProofs` | | theorems about `SignalQueue`, from those of the kernel |
| `CosimProofs` | | theorems about `Cosim`, from those of the kernel |
| `SignalValueProofs` | | theorems about `SignalValue`, from those of the kernel |
| `IseqProofs` | | theorems about `Iseq`, from those of the kernel |
| `DesignProofs` | | theorems about `Elaboration` and `Wiring` |
| `TransactionsProofs` | | theorems about `Transactions`, from those of the kernel |
| `TracingProofs` | | theorems about `Tracing` |
| `MCSimulator`, `MCSignalQueue`, `MCCosim`, `MCIseq` | | one component each, for TLC |
| `MCQueues`, `MCInterfaces`, `MCDesigns`, `MCLibrary` | | several instances side by side, for TLC |

The last four modules hold several components: the variable `part` is chosen initially
and says which of them runs. A component with theorems is extended, so that the properties checked are the
very ones the theorems are about; while another one runs it stays in an initial state. The rest are
instances on variables of their own, or shared among them. `MCDesigns` extends `Elaboration` and `Wiring`;
`MCQueues` extends `SignalQueue` (through `MCSignalQueue`) and has a second instance of it (`Shared`);
`MCInterfaces` extends `SignalValue` and has a second instance of it (`Slices`); `MCLibrary` extends `Transactions`
and `Tracing` and has instances of `Bits`, `Packing`, `Composites` and `Rnd`. A variable that the
chosen instance does not have is `<<>>`, and the property of an instance is that of its component under `part = ...`.
The parts do not interact, so a run over them is the sum of its parts. Where a type invariant would only repeat
declarations it is conjoined to another property, or left to its proof.

### Simulator

`pc` says where the loop `Simulator._run` (`simulator.py` 137-189) stands:

| `pc` | code |
|---|---|
| `elaborate` | before `run` switches to the scheduler; `Process.__init__` registers processes |
| `timestep` | head of the outer loop, 152-154 |
| `loop` | the test of the pools, 156 |
| `evaluate` | `while self._ready_pool` in `_evaluate`, 239-249 |
| `resolve` | `while self.trig_pool`, 251-254, then `_update`, 256-262 |
| `delta_end` | count, limit and `delta_settled`, 164-178 |
| `finished` | `_finalize` and the end of the loop |
| `aborted` | a slice raised; greenlet passes the exception to the parent, the caller of `run` |

The pools have the names of the code. `Process.events`, the tuple given to the last
`wait`, is split into the Events in it (`events[p]`) and whether a Delay is among
them (`p \in delayed`). `evPool[e]` is the set of processes in `Event.pool`; the
events in such a pool are the constant `Chain`, made while the design is
connected and not changed by the loop. `Notified(e)`, the events one recursive
`resolve` walks, is the least set closed under `Chain`.

`RunProc(p, T, U, W, d)` is one turn of `_evaluate`: take `p` out of the ready pool,
`_unsubscribe` it, run its slice, `_subscribe` it. The slice belongs to the
design. In `DesignStep` it may do anything a slice can do: trigger any events `T`,
request the update of any signals `U`, then wait for any events `W` and possibly a
Delay `d`, or raise (`Abort`). `Update(T)` and `DeltaEnd(T)` likewise leave open which
events the signals and the `delta_settled` callbacks trigger. A module that
models a part of a design replaces these parameters by its own code: `SignalQueue`
does so.

Two details are kept as they are in the code. `NewTime` follows `if not t_new`
(line 273), which takes a due time of 0 for none. And `AdvanceTime` sets the time and
fills the ready pool before it is known whether the time is past the end.

### SignalQueue

Producers push `MaxItems` items `<<producer, number>>` each; a bpush producer tests the
queue again when woken, a member of `Pushers` calls `push` (what `Itlm.write` does) any
number of times in a slice. Consumers loop on `bpop`, with a Delay in between or
not. `step[c]` is the place in `bpop`: waiting on an interface that has no signal yet
(`src_wait`, `isig.py` 102), waiting for an item (`pop_wait`, `_signal.py` 69), waiting
for the update (`upd_wait`, 73). `created` are the events that exist: a trigger of another
is skipped. A popped item goes to `next` and reaches `val` in the update phase;
`received[c]` is what the calls have returned. Slave interfaces use the master's
signal, so processes on them are further consumers.

`BpopRaises` is `list.pop(0)` on an empty list: it is enabled when another consumer has
been faster.

`Signal` names the events of its set in two ways, `self.e.enqueued` and `self.e['updated']`, and
asks `'updated' in self.e.comp` whether one exists. Item access is
`EventSet.__getitem__`, which makes a missing event. Attribute access is not in the repository any more
(`Component.__getattr__` is commented out, `component.py` 90-94): whether it works is up to the decorator
`compinit` of the external package `ddi`. The model takes both ways to give the same event,
as `_signal.py` and the tests do.

### Cosim and Xsimintf

The kernel's callbacks exchange messages with an HDL simulator (xsim) that has loaded the
generated wrapper. `toHdl` and `toSim` are the two directions of the connection. While a
callback waits for an answer the kernel stands where it called it, and `place` names the
command: `settled_import` is the `$IMPORT` of `sim_delta_settled`, `step_get` the `$GET`
of `sim_timestep_start`. One action per answer sends the next command (`Ask`), returns
from the callback (`Leave`, joined with the kernel's own step) or raises (`Raise`).

At the other end `hdl` is the value of `state` while `cmd_handler` runs, `"running"` while the
design reacts, and `"done"` after `$finish`. A handler action is one turn of the
handler's loop. `CONTINUE` is answered before the handler returns, so the two ends run
concurrently until the next call of the handler: the wrapper may still be changing its
outputs when the next command arrives. `finish` is set by `$CLOSE`, by a `recv` that
returns nothing because ten seconds have passed (`SlowAnswers`), and by the
end of the connection; from then on every call of the handler returns at once. On the Python
side `Server.recv` loops when it reads nothing (`RecvLoops`): after its last `$CLOSE`,
which has no answer, the run never returns to the caller.

What the model takes for granted:

* The HDL design is external. It reacts to its inputs in zero time, and its outputs change at
  most `MaxChanges` times after the inputs did. One input and one output port
  stand for all, since each command carries all values of a direction.
* The initial block's import comes before the design's first change of an output.
* `XsimIntf.__init__` registers `sydsys().sim_run_start` and its like (`xsim.py` 90-93), which
  no class of the repository but `XsimIntf` itself defines. The model takes its handlers as the
  callbacks, which they are written to be.
* No Delay is 0. `Delay(0)` after time 0 would start a time step at the same time
  and send the delay -1, which the wrapper takes for the end.

### SignalValue

A signal has two value objects, `_val` and `_next`. `held` gives the value in each such cell and `alias`
the cells that hold the same object: an assignment between signals of one type hands on the
object itself, `_update` copies, and a slice is written by changing the object of `_next` in
place (`WriteSlice`; `intf.py` 241, `bit.py` 358). A process does one write in a slice, reads
everything and waits; several writes are those of several processes. `write_after` with a
delay is a wait and a write (`later`). `Triggers` is what `_update` does to the events, with those left out that nobody has made.

A slice may also push, to any of the signals in `Pushed` (`Enqueue`). What is then in the queue is
`SignalQueue`'s; for the value of a signal it matters that `push` triggers `enqueued` at once, in the
evaluate phase (`_signal.py` 101). All triggers are resolved after the slices (`simulator.py` 251-254), so that
the process woken by a push is ready when the update follows, and runs *before* the events of that update are resolved:

| delta cycle | evaluate | resolve | update |
|---|---|---|---|
| n | `s` is written, something is pushed | `enqueued` | `s` changes, `changed` is triggered |
| n+1 | whoever waited for the push runs, reads the new `s`, may write it again | `changed` | |
| n+2 | whoever waits for the change runs | | |

`Unresolved` are the signals changed by the last update whose events are still in `trig_pool`. Three history variables
follow them: `seen[p]` is what the signals read when `p` last ran, `readEarly[p]` those that were unresolved then, and `writtenEarly[p]` those
that have been written since then, or in that evaluate phase, while unresolved. A pop sets `_next` and asks for an update, as a write
does; the object it takes from the queue is taken to be one of its own. Slices that raise are left to the
kernel, writes in callbacks to `Cosim`.

### Iseq

`stage` says where `_fifo_proc` waits: in `bpop` (`pop_wait`, `upd_wait`) or for the register
(`out_wait`). `FifoTakes` pops an item, `FifoOffers` puts it on `data` and sets `valid`,
`FFSample` is `_ff_proc` at a rising edge. The comparison behind `last` is always false
(`iseq.py` 33), and `valid` is never taken back (34), which the actions say. Clock, source and sink
are processes of a design: the source pushes any number of items at any times, the sink drives
`ready` as it likes. `out` records the values of `_dout`, one entry per change; items are numbered, so
an item taken twice is no change. That the register takes the last item again at
every edge is what the code does; a design with a sink that counts would have to use `last` or `valid`.

### Wiring

`Plan` is the set of calls of `sink` and `drive` a design makes; they come in every order, and with them
the first uses of events. `source[i]` is `isig._sig`: nothing, a signal of its own, or the
interface it was connected to. `Connect` is `Intf._connect` with the methods it dispatches to, those that
raise among them (deviation 21); it gives the new sources and `bridges`, the processes the connection makes (`convgen`,
`tlm_to_sig`, and the `fifo` of each iseq). `Missing` is the recursion of `EventSet.__getitem__` and
`_missing_event`: the events made, and the ones they are chained to. `early` are events used
before the interface was connected, which nothing chains later. Once every call is made
the design writes items and the bridges carry them; delta cycles are left to the modules over
`Simulator`. `Input` and `Output` are what a connection reads and writes of an iseq: its `data`, and its `_dout`. A design has
finitely many interfaces; nothing keeps it from connecting them in a circle (`Ranks`, below).

### BitOps, Bits, Convgen, Packing, Composites

A bit value is `[w, val, vld]` as in the code, with a plain integer and `None` as the
other operands. `Bits` applies one call after the other to a value. `Convgen` translates `conv` and the
generator `convgen`; `Gen` gives all it yields and what it returns. The two follow the language version named in
`setup.py` (Python 3.3 and 3.4): there a `return` inside a generator is its `StopIteration`, and one raised inside
it ends it. `Packing` is the process `_pfunc_dtype_convgen`: take a value, push what is yielded
item by item, and what the generator returned at the end. `Raising` are the operators of bit that always
raise, because they call a `read` that no type has; `Less` is the comparison by known bits.

`Composites` is a value of a type with items under any sequence of operations. An array is changed in place,
item by item, so that `Replaced` and `Extended` give what is stored when an item is refused half
way, and `ReplaceRaises` and `ExtendRaises` whether one is. A new vector or struct from other items cannot be made
(deviation 13); a slice of a struct is a struct made anew, `OfDict` stores what it is given. `Same` is `array.__eq__`
with the equality of objects for items that have none of their own. An enum is a number, which may be
out of range.

### Rnd

`random.Random` is external: a stream determined by its seed. `rnd.__init__` takes a seed from the system
whether it was given one or not (`rnd.py` 32); so `Create` starts with any seed, and `SetSeed` is the
way to a known one. `RndOf` draws a nested value and gives the position after it. `Next` is an item of
`BasicRndSeq`: value, then delay.

### Tracing

The loop is reduced to its `SimEvent`s and to which values the signals have at each. `hooks[e]` is the list
of the callbacks of `e`, those of the user before the extensions' (`Listed`); `ended[e]` are the ones that have
returned a false value. A list is called in order (`Called`, with the effect of each in `Effect`) and those that returned a false
value are deleted by index from the end (`Deleted`). `PrintChanged` writes the traces whose values differ from
what they last wrote (`Changed`). With `traceDeltas` the values of a
delta cycle are written at the start of the next one and those of the last at `timestep_end`. The codes of the signals count in
`Letters`, 26 of them in the code. At `run_end` the header is written and the lines
of signals that it does not declare are left out (`Undeclared`). `truth` is a history variable: what the signals were at each
timestamp that the file has. `Without` says in one step what a loop with a test does: the items of a list that are not in a set.

### Transactions

The processes of a verified design over the kernel's loop: `main` (`BasicSeq`), `acquire` and `send`
(`_tlm_to_seq_arch`), a pipeline that may refuse items, `recv` (`_seq_to_tlm_arch`), `passive`
(`AlwaysAcquire` of a passive architecture), `compare` (`Scoreboard`). `at[p]` says where a process stands, `mem` are the queues
of the three transaction interfaces. The queue is that of `SignalQueue` with `bpop` in two steps and
`bpush` as a test that is repeated. A transaction is a sequence of items `<<transaction, number>>`, of which `send`
marks the last; `recv` collects what is valid until it is marked so. The clock's period is that of `HalfPeriod`, whatever
the delays of the generator.

### Elaboration

`stack` holds the architectures under way, the innermost last: one thread instantiates modules, connects their
ports in order (`ConnectPort`), runs the body (`StartArch`), and goes on to the next architecture
(`Return`). The tables of the channels, `masterOf` and `slavesOf`, have names of their own because both
classes `Channel` meet in `MCDesigns`. `Find` is `Component.find`: from the parent of the module up and down the
segments of a name, with all but the last cut one letter short (`_component.py` 153; `Chop`). `TagOf` gives outputs of a passive
architecture a channel of their own; `Register` is `register_proxy` with the late connection of
slaves; `ConnToIntf` sources a slave of the same type and gives the others a conversion architecture.
An interface in an annotation belongs to the class and thus to every instance (`shared`). Sibling names are
taken to be different.

## Checks

Every run finishes within two and a half minutes.

| Run | Instance | Checks |
|---|---|---|
| `kernel` | 2 processes, 2 events (a master's and a slave's chained to it), 1 signal, delays 1 and 2, duration 2, delta limit 2, under `FairSpec`; 88 000 states | `TypeOK`, `SubscriptionsExact`, `TimersExact`, `WritesSettle`, `NoSlicePastEnd`, `WakeupNotLost`, `TimersSpec`, `Terminates` |
| `kernel_delay_zero` | delays 0 and 2 | `AdvancesToEarliest` fails (finding 1) |
| `kernel_idle` | as `kernel`, safety only | `IdleProcLeaves` fails (finding 2) |
| `queues` | `single`: 2 bpush producers, a push producer, 1 consumer; `shared`: 2 bpush producers, 2 consumers; 2 items each, delays 1 and 2, duration 3; 436 000 states | `QueuesServed`, `NoStall`, `Drained`, `BpopWaits`, `BpushCapacity`, `ChannelSpec` |
| `queue_shared_pop` | 2 bpush producers, 2 consumers, 2 items each | `BpopWaits` fails (finding 3) |
| `cosim` | 2 processes, 2 values, delays 1 and 2, duration 3, at most 1 change of the outputs, no timeouts; 161 000 states | `CTypeOK`, `TimesAgree`, `ValuesAgree`, `ProtocolKept` |
| `cosim_live` | 1 process, at most 2 changes, timeouts at any place, duration 2, under `CFairSpec`; 95 000 states | `HdlEnds` |
| `cosim_glitch` | at most 2 changes, no timeouts | `SetAtDelay` fails (finding 4) |
| `interfaces` | `values`: 2 interchangeable processes, 1 signal of one bit that is also pushed to, duration 1, delta limit 3; `slices`: 2 signals of 2 bits, one written slice by slice, duration 1; 511 000 states | `ChangeExact`, `EdgeSeen`, `ReadsStable`, `SlicesStable` |
| `register` | 5 processes around one iseq, 3 items, duration 7; 18 500 states | `NoBubble`, `TransferSpec` |
| `designs` | `signals`: nine calls over four channels, 2 items; `transactions`: six calls over three channels; `elaborated`: designs of up to 10 components by name, of generators, blocks and units with a passive architecture; 301 000 states | `SlavesConnected`, `EventsReach`, `SlavesReceive`, `ConnectsToItsName`, `PassiveOutputsApart`, `PassiveOnlyWatches`, `EverySlaveServed` |
| `library` | `checked`: three transactions of 2, 1 and 2 items, a stalling stage, duration 18; `traced`: 2 signals, one of them declared, 2 callbacks, 3 time steps, 2 delta cycles; `operated`, `texts`: bit values of up to 3 and 5 bits; `composites`: arrays, vectors, a struct and an enum; `words`, `fields`: conversions; `random`: 2 generators; 680 000 states | `BurstsWhole`, `ScoreboardExact`, `BitsExact`, `ValidityHonest`, `BitsKept`, `HooksExact`, `FileExact`, `SameSeedSameItems` |

**Kernel properties.** `SubscriptionsExact`: a process is in the pools of exactly the events
of its last wait, so `Event.unsubscribe`, a `set.remove`, never raises and nobody is woken
by an event it gave up. `TimersExact`: the delay pool says the same as the
processes' waits; in particular a timer left over from "event or delay" is gone
when its process next waits. `WakeupNotLost`: once a process is ready, or an event it
waits for is triggered, only running it settles the debt, over all interleavings of
slices, resolves, the update phase and time steps. `WritesSettle`: the update pool is
empty when a delta cycle ends. `NoSlicePastEnd`: the kernel is finished whenever
the time exceeds the duration. `TimersSpec`: under the mapping of the delay
pool to alarms the kernel implements `Timers`, that is time never passes an alarm.
`Terminates`: a started run comes to an end.

**Queue properties.** `ChannelSpec`: with one consumer the queue, including the item on
its way through `_next`, implements `Fifo`: nothing lost, doubled or reordered, and
what `bpop` returns after its wait is the item it popped. `NoStall`: when a time step
has settled no process waits for something that has already happened. `Drained`: a run
that ended because nothing was left to do has delivered every item. `BpopWaits`: no
`bpop` raises (one consumer). `BpushCapacity`: of several producers woken by one update only one puts its item
in, so the item of a bpush producer never stands behind another one; what a push producer
adds stands behind it. `QueuesServed`: the types, and the same two of the queue that two consumers
share, until a `bpop` raises.

**Cosimulation properties.** `TimesAgree`: during a time step of the kernel the HDL simulator is
at the same time, or has settled and is one unit ahead asking for its delay.
`ValuesAgree`: when a time step has settled the two ends have the same values on the ports.
`ProtocolKept`: no callback finds the HDL simulator in a state for which it raises, and only the
`$CLOSE` at the end of the run makes it give up. `HdlEnds`: however the run ends, and whichever
answers came too late, the HDL simulator comes to its `$finish`.

**Interface properties.** `ReadsStable`: what a signal reads as changes in the update phase only, so that the
order of the slices in an evaluate phase cannot be seen, whichever way it is written;
the exception is stated in the property and comes from the shared objects (deviation 1).
`SlicesStable` is the same property in the instance with slices.
`ChangeExact`: a process that waits for a change of a signal is owed a slice whenever
the value differs from the one it read, so no change falls between read and subscription, whoever writes and pushes. It is owed
one only then, none is reported twice, unless a slice ran between the update and the resolution of its events: its
own, which read the new value early, or one that wrote the signal again (deviation 20). `EdgeSeen`: what an edge wakes finds the
signal as the edge left it, unless the signal was written in between. Both exceptions occur in the instance, and both
properties are false without them.
`TransferSpec`: from `push` to `_dout` the sequential interface implements `Fifo`, however the sink
drives `ready`. `NoBubble`: while items are left one that the register has not taken is on offer for every
clock edge, from the second item on.

**Design properties.** `SlavesConnected`: as soon as a channel has its master each of its
slaves is connected, in whichever order the calls come. `EventsReach`: the event of a slave is reached from
the signal at the root through every chain, whether it was made before or after the events in
between. `SlavesReceive`: when nothing is left to carry every slave has had what its master was given,
through conversions, a sequential interface and slaves of slaves. `ConnectsToItsName`: a port
is connected to the channel of the name it was given, which exists once, wherever in the tree it is
named from. `PassiveOutputsApart`: a design is refused only when it drives a channel
twice itself, never because of a passive architecture. `PassiveOnlyWatches`: a passive
architecture never pops what the active one reads. `EverySlaveServed`: a slave is connected to the master exactly once, by source or by conversion.

**Library properties.** `BurstsWhole`: transactions leave the design as they entered it. `ScoreboardExact`: the scoreboard never compares
the output of one transaction with the reference of another, and each transaction
that came out has been compared when the run ends, unless it ends by the delta limit. `BitsExact`: slices read and write the bits they name through both ways of writing,
values stay within their width, a concatenation splits, the order agrees with the numbers, and text is read back;
the items of arrays, vectors and structs have the types of their places, a replacement changes the
items it names and, if it is refused, those before the refused one; arrays that are equal are equal bit by bit, and
an enum's member equals its name and its number and no other.
`ValidityHonest`: a result's valid bit never depends on what an unknown bit holds. `BitsKept`:
after a conversion the slave has the bits the master sent, each once and in order, in values of
its type, and `conv` agrees with `convgen` where both apply. `HooksExact`: a callback leaves its list exactly
when it returned a false value, and nobody else does; and the reported progress is
never more than a step behind while a time step runs. `FileExact`: replaying the trace file gives each declared signal its value
at the end of every time step (of every delta cycle, if these are traced); codes are unique.
`SameSeedSameItems`: re-seeded generators repeat their items whatever another one draws in between, and
each item is a value of its type.

### Bounds

Two processes are enough for every pairwise order of slices in an evaluate phase; three give
no further kind of state (the kernel run with three processes, 331 000 states, passes
too, in a minute and a half, and is left out for time). Duration 2 with delays 1 and
2 has time steps in which both, one or no process is due, due times beyond the end,
and a process with two successive delays. The delta limit of 2 is reached and is
not reached. Of the three producers of `single` two
are blocked in `bpush`, to be woken by one update, while the third puts two items in the queue and the consumer is
between `pop` and update. The delta limit of the queue
runs is 20, above what any time step needs, so that no behaviour is cut short.

`cosim` allows one change of the outputs after each change of the inputs, because with two
the properties do not hold: finding 4 is the first step out of the protocol. Duration
3 with delays 1 and 2 gives time steps of one and of several units, which are the delays 0 and 1
sent to the other end. The delta limit of 4 is reached. Two values are enough to tell an
old value from a new one. The theorems lift all of these except the one change.

Of `interfaces`, one signal and two processes are all that `ChangeExact` and `EdgeSeen` speak of: the one that waits, and one that
does everything else, in any order of slices. Three delta cycles are the table above; the fourth and the second time step let
a write, a push or a delayed write fall into each. A falling edge is a rising one with the levels exchanged, and the wait for one
is left out of the instance. The theorems have none of these bounds. Aliasing needs two signals
and, to tell a slice from the whole, two bits. Three items are one on offer, one popped and one in the queue;
seven time units are four rising edges, one more than there are items. 

In `designs` the nine calls of `signals` connect slaves of the same type, of another one, a sequential interface, a slave of it, and a
slave of a slave; the six of `transactions` a transaction interface to one of another type, a signal to it, and a slave to that signal. Components beyond 10 are more of the same kind: two generators that may claim one
channel, a unit with both architectures, and a block from which names go up.

In `library` three bits make every slice with something on both sides; four more digits of text need five. Two items
and a list too short or too long by one are all the cases of a replacement; an enum of three members leaves
one number of two bits without a name. The types converted
have widths that divide each other and widths that do not, lists, arrays, vectors and
nested records, and two values in a row, so that something may be left over from the first. The random stream
has as many numbers as two items take.

In `checked` a transaction of one item lies between
two of two, delays 0, 1 and 3 push before, while and after the design is free, and 18 units let all
three come out when it does not stall; with stalls some runs end in the middle, which is when
`ScoreboardExact` is hardest. In `traced` three time steps let a callback leave before, between and
after others, one of them may be passed over, and the limit of two delta cycles is reached and is not reached; with two
letters two signals take the codes over their first carry. The theorems lift all of these.

### Fairness

`FairSpec` is weak fairness of `Loop`, any step of the scheduler once `run` has
switched to it. The interpreter runs one greenlet at a time and only the scheduler and
processes it switches to; so the loop goes on as long as each slice reaches its next
wait, which is assumed of the design. No fairness is assumed between processes.
`Terminates` needs every Delay to be at least 1; it holds for any design then.

`CFairSpec` is weak fairness of each end: the Python side takes an answer that has come and goes on
with its loop, the HDL side handles a message that has come and runs the wrapper. That
an answer takes longer than the timeout is a possibility and never a duty.

## Proofs

`SimulatorProofs` proves for every set of processes, events, chains, signals, delays
and limits:

| Theorem | States |
|---|---|
| `TypeCorrect` | `Spec => []TypeOK` |
| `SubscriptionsCorrect` | `Spec => []SubscriptionsExact` |
| `TimersCorrect` | `Spec => []TimersExact` |
| `WritesCorrect` | `Spec => []WritesSettle` |
| `EndCorrect` | `Spec => []NoSlicePastEnd` |
| `WakeupsKept` | `Spec => WakeupNotLost` |
| `EndsSettledCorrect` | `Spec => []EndsSettled`: a run that ends before its limits leaves nothing ready, triggered, written or due |
| `TimersImplemented` | `Spec => TimersSpec` if `0 \notin Delays` |

The assumptions are those `Simulator` names: delays, duration and limit are natural
numbers and `Chain` maps events to sets of events. Given the types, each invariant is
inductive by itself. `SubscriptionsExact` is kept by `RunProc` because `_unsubscribe` and
`_subscribe` go over the same tuple; no other step touches a pool. `TimersExact` has two
halves that need each other: an entry belongs to a process that waits for a
Delay, so that `_unsubscribe` knows to drop it, and a process whose entry is gone is
ready. `WakeupNotLost` rests on two facts: a process stays in the pools that an event reaches
until it runs itself (`WokenStays`), and the update phase starts with
no trigger pending. The refinement of `Timers` needs, besides `TimersExact`, that all due times are
positive (`DuesPositive`, where the absence of `Delay(0)` enters: line 273 is wrong
otherwise) and that `Run` finds the time at 0 (`StartsAtZero`).

`SignalQueueProofs` proves for every number of producers, consumers and items:

| Theorem | States |
|---|---|
| `KernelImplemented` | `QSpec => Spec` |
| `QTypeCorrect` | `QSpec => []QTypeOK` |
| `CapacityKept` | `QSpec => []BpushCapacity` |
| `NobodyStalls` | `QSpec => []NoStall` |
| `BpopNeverRaises` | `QSpec => []BpopWaits` if there is one consumer |
| `AllDrained` | `QSpec => []Drained` if there is one consumer |
| `ChannelImplemented` | `QSpec => ChannelSpec` if there is one consumer |

Every step of the queue is a step of the kernel (`QueueIsKernelStep`), so the kernel's
theorems hold of it and its own proofs start from them. `NoStall` is not inductive. It follows
from two invariants. `WaitsMatch`: what a process waits for follows from where it
stands, and that event exists, so that a trigger of it is not skipped. `Served`: a process whose
wait has become pointless is owed a slice or will be by the update to come. The step from a
push to the wakeup of every waiting consumer is the kernel's: `NextWakeups` says that
what is owed stays owed. For a single consumer `Handshake(c)` relates the update pool, the
trigger pool and the consumer's place in `bpop`: an update, or a pending `updated`, is always
the consequence of its own pop, so that it wakes with its own value, and a
pending `enqueued` with an empty queue never finds it waiting there. With `InFlight(c)`,
the item taken and not yet returned in front of the rest, each step of the queue is a
send, a receive or a stutter of `Fifo`. `Drained` puts several of these together: at an end before the limits nobody
is owed anything or waits for a Delay (`EndsSettled`, `TimersExact`), so by `Served` the consumer waits at an empty queue and
no producer is blocked; a producer that has more to push is blocked or delayed (`ProducersGoOn`), and what has been pushed
is in flight or received (`Accounted`).

`CosimProofs` proves for every set of processes and values and any delays and limits:

| Theorem | States |
|---|---|
| `KernelImplementedByCosim` | `CSpec => Spec` |
| `CosimTypeCorrect` | `CSpec => []CTypeOK` |
| `ProtocolCorrect` | `CSpec => []ProtocolKept` under `Prompt` |
| `TimesCorrect` | `CSpec => []TimesAgree` under `Prompt` |
| `ValuesCorrect` | `CSpec => []ValuesAgree` under `Prompt` |

`Prompt` is: at most one change of the outputs after a change of the inputs, no timeout, no
`Delay(0)`. The first two theorems need none of it. The last three follow from one invariant,
`Protocol`, which none of them implies: for each command on its way, and each answer, the
states the HDL simulator may be in, its time, and which values the ports hold. For
instance an answer to the `CONTINUE` of `sim_timestep_start` leaves it running, or already asking
for its delay, with no output left to change (`LetGo`); there the bound on the changes enters.
`StepsAhead` adds what it needs of the kernel: that each time step is later than the one
before and starts with a process ready, so that an `IMPORT` comes before the next
`sim_timestep_start`.

`SignalValueProofs` proves for every set of signals, processes, events and slices:

| Theorem | States |
|---|---|
| `SignalsOnKernel` | `SSpec => Spec` |
| `STypeCorrect` | `SSpec => []STypeOK` |
| `ReadsAreStable` | `SSpec => ReadsStable` |
| `ChangesExact` | `SSpec => []ChangeExact` if `Sliced = {}` |
| `EdgesSeen` | `SSpec => []EdgeSeen` if `Sliced = {}` |
| `NothingComesEarly` | `SSpec => []NothingEarly` if `Pushed = {}` |

`STypeOK` says of `alias` that it is an equivalence; that every kind of
write keeps it so is the first half of the module. `ReadsAreStable` follows: a write
touches `_next` cells, and a current value only through the alias that its exception names.

The two exactness results hold whatever is pushed. `ChangeExact` alone is not inductive, because of triggers and subscriptions
still on their way. `ChangeOwed` and `EdgeOwed` say the same in every phase; beside them the invariant has `EdgesPending`, a triggered
edge is that of the current value, and `EarlyWrites`: what is about to be updated while a change of it is unresolved is in everybody's
`writtenEarly`, and still so for those whom that change has woken once it is resolved. That is the step on which the exception turns. An
update may bring a value back to the one a ready process has read, and this process is then owed a slice without a difference. Before the
update it was ready for this very signal, which only happens to signals in `writtenEarly`.
The condition `Sliced = {}` is real: a slice changes a current value in place, and of such a change nobody is told (deviation 1).

In a design that pushes nothing `Alternates` is invariant: a delta cycle either runs processes or
resolves triggers, so that the events of an update never find somebody ready. It gives `NothingComesEarly`, with which the exceptions
of both properties are empty.

`IseqProofs` proves for any number of items, delays and limits, with or without a sink that drives `ready`:

| Theorem | States |
|---|---|
| `IseqOnKernel` | `ISpec => Spec` |
| `ITypeCorrect` | `ISpec => [](ITypeOK /\ QueueExact)`: the queue holds the items pushed and not popped, in order |
| `NoEdgeWasted` | `ISpec => []NoBubble` |
| `TransferImplemented` | `ISpec => TransferSpec` |

The invariant is `Protocol`. `FifoWaits`: the event that `_fifo_proc` waits for follows from its stage. `Offer`: where the
last item taken is, and that the register shows it or the one before. `Wakes`: an update of
the register that shows the item before is over when `_fifo_proc` begins to wait. `FifoServed`: it is owed a
slice when it can go on. From the second item on `_dout.updated` is in use; before, the register's update may go
unnoticed, which is why `NoBubble` begins there.

`DesignProofs` proves for all classes, architectures, ports, and names, and for any channels, interfaces, kinds, and data types:

| Theorem | States |
|---|---|
| `ETypeCorrect` | `ESpec => []ETypeOK`: components hang in one tree, only channels have a master |
| `SlavesServed` | `ESpec => []EverySlaveServed` |
| `SlavesAreConnected` | `WSpec => []SlavesConnected` if no interface is driven twice (`OneDrive`) |
| `EventsAreReached` | `WSpec => []EventsReach` if the interfaces have ranks (`Ranks(R)`) |

In `Elaboration`, `Served` strengthens the property by what makes it inductive: an interface in no list has no source, and one in a list
belongs to the channel it was registered with, hence to one list only. `Find` goes up and down the tree
by two recursive functions; that they end at a component of the tree is proved for any name and depth.

In `Wiring`, a slave is `Joined` to its master when `Connect` would change nothing more (`JoinedTwice`), which
does not depend on what the master is connected to and stays so when other slaves are (`StaysJoined`); that is where
`OneDrive` enters: a second call of `drive` would take the interface away (deviation 19). A call that raises ends the elaboration, and
nothing is said of what follows.

`EventsReach` follows chains of sources from an interface up to its root, by recursions that only end if the chain does.
The code does not see to that: two channels may make two interfaces the source of each other, and then there is no root. So the
theorem speaks of the designs for which there is a rank `R` that goes down along each connection the design asks for, which is to say
that no interface is its own source. Two calls that drive one interface are allowed here. The invariant `EventsInv(R)` has: the sources follow the ranks
(`Ranked`), a slave or master in a list was asked for (`Driven`, `Sunk`), and each event that was not early is
chained to that of its source, which exists (`ChainedUp`). Rank by rank (`UpTheSources`) the recursions `Root`, `Path` and `Missing`
then have values, and the event is reached from the root in as many steps as its interface has ranks
(`ComesDown`), at most as many as `Reached` takes.

`TransactionsProofs` proves for any transactions, delays of the generator, stages that may stall, clock, duration and
delta limit:

| Theorem | States |
|---|---|
| `KernelImplementedByTransactions` | `TSpec => Spec` |
| `TransactionsTypeCorrect` | `TSpec => []BTypeOK` under `ReferenceKeepsUp` |
| `BurstsStayWhole` | `TSpec => []BurstsWhole` under `ReferenceKeepsUp` |
| `ScoreboardIsExact` | `TSpec => []ScoreboardExact` under `ReferenceKeepsUp` |

`ReferenceKeepsUp` is `Latency < Lens[t] + Lens[t + 1]` for each transaction `t` but the last: a transaction has left the design
before the second one after it enters. Without it the passive architecture misses transactions (deviation 6), so that the bound is
the code's and not the proof's. The eight processes share six signals, and almost all pairs of
their slices could interfere if they met in a delta cycle; that they do not is the first part of the invariant.

* `KernelKept` is the kernel's invariant, and `WaitsMatch` what each process waits for, place by place.
* `Timing`: the delta cycle in which things happen. The clock changes in the first cycle of a time step, its edge
is resolved in the second and seen in the third, what follows from it comes in the fourth and later ones; the generator's
push reaches the bus when the edge is over. So `send`, the design and `recv` meet only at an edge, and the
scoreboard and the passive architecture only after it.
* `Places`: what each queue and variable holds, told by three counts (`Popped`, `Refs`, `Outs`): `Data` the contents, `Served` that nobody waits for
what has happened, `Awaited` that each update finds its reader, `Seen` that the passive architecture has written the
transaction popped last, or is about to, and `Offering` that the items left are those from some number on.
* `Streaming`: there are places in the stream of items, one per stage, such that each stage holds
the item between its place and the next one's, or nothing. At an edge the places move on, each stage's to the one
before; `Lag` bounds how far the first is ahead of the last, where `ReferenceKeepsUp` enters.
* `Calm`: when the clock is about to change the scoreboard has done what it can, and the passive architecture is
blocked only if a reference lies in the queue.

`BTypeOK` is proved and not among the checked properties, where it would only repeat the shapes of the variables.

`TracingProofs` proves for any signals, values, callbacks, number of letters, and limits:

| Theorem | States |
|---|---|
| `VTypeCorrect` | `VSpec => []VTypeOK` |
| `HooksCorrect` | `VSpec => []HooksExact` |
| `FileCorrect` | `VSpec => []FileExact` |

The first half of the module is about lists. `Deleted`, the loop of the code that deletes by index from the end, takes out just
what `Without` leaves out (`DeletedIsWithout`); what a list of callbacks does is what the extensions in it do, since the
user's write nothing (`CalledUsers`), and so each event has its effect whoever has left its list (`StartWrites`,
`DeltaWrites`, `EndWrites`, `RunEndWrites`). The invariant `VInv` has `HooksKept` and `Near` for `HooksExact`. For `FileExact` it
has: codes are given in their order (`CodesOrdered`, from which they differ); the last line of a
signal's code has the value the trace remembers, so that what is not written again need not be (`LinesTraced`); timestamps never go back
and the last one is that of the loop (`StampsOrdered`); and what was recorded for a timestamp is what the
lines replay to (`TruthReplayed`). A step adds a timestamp and then lines for the signals that have changed: what was
recorded before is not affected, since its timestamp is earlier (`ReplayGrows`), and what is recorded now is in the last lines
(`ReplayNow`). Leaving out lines of other codes changes nothing (`ReplayKept`).

Induction over the length of a list or up a chain is by `SmallestNumber` and `Reaches`, which `DesignProofs` and `TracingProofs` state
for themselves. The library's induction theorems take an operator as a parameter, which
no installed prover can instantiate; `SmallestNumber` gets a smallest element of a set of
numbers from the well-foundedness of `<`, `Reaches` turns it into induction over a set,
and `Recursion` shows that a recursion over `0 .. n` with values in a set defines a function.

Only model-checked:

* Liveness, `Terminates` and `HdlEnds`, which the prover cannot reach.
* `QueuesServed`, of which the part about one queue is `QTypeCorrect`, `NobodyStalls` and `CapacityKept`; the other is about the second
instance of the module.
* `SlavesReceive`: what has been carried over follows from all that bridges and chains have done since, and needs for each slave of a
slave, and each kind of pair, an invariant of its own; for two slaves that share items it is false (deviation 3).
* `ConnectsToItsName`, `PassiveOutputsApart`, `PassiveOnlyWatches`, which hold for designs without the
names, types, and annotations of deviations 7 to 9, as the instance has them, and not for every value of the constants.
* The properties of `library` but those of `Transactions` and `Tracing`. `BitOps`, `Bits`, `Convgen`, `Packing`, `Composites` and `Rnd` use bitwise or recursive
operators, which the provers do not take.

The theorems about one consumer are the converse: `BpopWaits`, `Drained` and `ChannelSpec` are false for two (finding 3), while `NoStall`
and `BpushCapacity` hold for any number of producers and consumers.

## Findings

1. **Delay(0) at time 0** (`kernel_delay_zero`). `_advance_time` tests `if not t_new`;
   with processes due at 0 and at 2 it moves to 2 and runs both there, against its docstring
   ("Advanced time to the earliest scheduled process in delay pool", `simulator.py` 265).
2. **Idle processes stay** (`kernel_idle`). `wait()` hands over an empty tuple, so
   the branch of `_evaluate` for "process supplied no waiting events" (247) is never
   taken: such a process is not removed from the pool, nor is its exit function called.
3. **bpop on a shared queue** (`queue_shared_pop`). `bpop` does not test the queue again after its wait;
   with two consumers the second pops from an empty list (`_signal.py` 71),
   against "If the queue is empty, wait for the value to become available".
4. **A second change of the outputs** (`cosim_glitch`). When an HDL output changes twice in zero
   time and the first value wakes nobody on the Python side, the `CONTINUE` of `sim_timestep_start`
   ends in another export instead of the timestep process; `SET` and the next `CONTINUE` reach the
   HDL simulator there, and the two times drift apart. The comment at `xsim.py` 249 says
   "hence XSIM will move straight to timestep process".

## Deviations met while modelling

These are places where the code does not do what its documents or names suggest. The modules have them
as the code has them; an exception in a property, or the choice of an instance, keeps them
apart from what the properties say of the rest.

1. A slice is written into the object of `_next` in place (`intf.py` 241, `bit.py` 358); after `a <<= b` that
   object is also the current value of `b` (`_signal.py` 43), which thus changes in an evaluate phase. Exception in
   `ReadsStable`.
2. `valid` of an iseq is set with the first item and never taken back (`iseq.py` 34), where the tutorial
   (`tutorial.rst` 308) has it follow the data.
3. Two slaves that both need a conversion pop from one master and share its items (`isig.py` 47), against "read with
   several others" (`tutorial.rst` 124). The instances have one converting slave on each channel.
4. An event in use before its interface is connected is never chained (`isig.py` 37). Exception in `EventsReach`.
5. The one-bit fields of a vector or record drop the rest of a word (`_type_base.py` 129), and of a list
   that begins with words of the slave's width and goes on with others the first ones are delivered twice
   (134). The instances `words` and `fields` have neither.
6. A passive architecture that waits for the scoreboard misses transactions (`_process.py` 84; `tutorial.rst`
   454), when a transaction is still in the design as the second one after it enters: five short ones through a pipeline of five
stages are enough. `ReferenceKeepsUp` excludes it, in the instance `checked` and in the theorems.
7. A port annotated with an interface object is one object for all instances of its class (`_module.py` 234;
   `tutorial.rst` 116). The instance `elaborated` annotates with strings.
8. `find` cuts a segment before a slash one letter short (`_component.py` 153), so that a path through a
   component is not found; the instances name channels in the scope itself or above.
9. A conversion architecture becomes `current_arch` and active (`_module.py` 196; `tutorial.rst` 447). A passive
   input of another array type therefore pops the active one's channel (`_process.py` 34); in the instances
   the passive inputs have the type that is generated.
10. `cls_eq` is `object.__eq__` for all types but arrays and never false (`_type_base.py` 46).
11. `rnd` takes its seed when none is given, and a random one when one is (`rnd.py` 32).
12. The `_rnd` of an enum draws with an inclusive upper bound (`enum.py` 56). The type in `random` has no enum.
13. The `_replace` of a vector and of a struct never succeeds, but for a vector of one item: the one passes its
items as so many arguments (`vector.py` 64-73), the other asks for a `w` (`struct.py` 70-87), and neither sets
`high` for a single index.
14. A struct made from a dictionary stores what it is given, unconverted, and takes it for complete (`struct.py` 177).
Exceptions in `ItemsTyped` and `CutExact`. Nor does it notice that the bits of an item are assigned later: `_vld` is
recorded when the value is made.
15. Vectors and structs have no `__eq__`, so that two arrays of them are never equal (`array.py` 125). Exception in
`EqualExact`.
16. An enum compared with a bit wider than one is compared with its bits one by one (`enum.py` 79), and a number without a name
is accepted until its text is asked for (62). Stated in `EnumExact`.
17. `|`, unary minus and others of bit call a `read` that no type has (`bit.py` 496-515). They are `Raising`.
18. Two values with different unknown bits may be neither less, nor greater, nor equal. Exception in `OrderExact`.
19. An interface that is driven twice is taken away from its first master. `OneDrive` excludes it, in the instances
and in the theorem.
20. A process that a push wakes runs after an update and before the events of that update are resolved (`_signal.py` 101,
`simulator.py` 240-254). It reads the new value, and if it then waits for the change it is told of it once more; if it writes the signal
back, a process that waits for an edge is woken at the wrong level. Exceptions in `ChangeExact` and `EdgeSeen`.
21. A transaction interface cannot be connected to another one of its type: `_from_itlm` asks for `Event`, which `itlm.py` does not
import (19), and the call raises. A sequential interface connected to a transaction interface is accepted and gets nothing (`iseq.py`
69-70). Both are in `Connect`; no instance has them.

## Not modelled

* Of the kernel: the search for a process's inputs when it is given no sensitivity list; two Delays in
  one wait, which share an entry of the pool.
* Of signals and interfaces: `pop`, which nothing calls; sub-events, which nothing makes; subscription to
  a slice, which raises; `iseq.write`, which sets data without the queue.
* The component tree and the configurator: each lookup reads a list and keeps nothing, so that there is no
  state to explore, and the decorator that would use them reads an attribute no class has any more.
* Of the cosimulation: the text of the wrapper, `resolve`, how the connection is made, commands the
  Python side never sends, and buffer lengths.
* Of the data types: HDL text, and the text of arrays, vectors and structs.
* Of the extensions: the text of the header, the mirror traces; the profiler and the coverage keep no state
  a model could tell apart.
* Of the verification library: the loop of `UnitTest` over configurations, and its report.
* Of the previous architecture: its configurator, slices and expressions of interfaces, `strm`, and the
  generation of HDL.
* Examples, helpers, and the vendored decorator module.

## Plan

Done: the kernel with `Timers`, the queue with `Fifo`, the cosimulation, values and slices (`SignalValue`), the sequential
interface (`Iseq`), connection (`Wiring`), elaboration by name (`Elaboration`), transactions (`Transactions`), and traces
(`Tracing`), each with proofs; data types (`Bits`, `Packing`, `Composites`) and random values (`Rnd`), model-checked.

Left:

1. `Wiring`: `SlavesReceive` for ranked plans in which a channel has at most one slave that converts.
2. `Elaboration`: `ConnectsToItsName` for names of one segment, which are those for which `find` does what it says.
3. `BitOps` in arithmetic instead of bitwise operators, to prove `ValidityHonest` for any width.
