------------------------------- MODULE Wiring -------------------------------
(***************************************************************************)
(* Channels and connections (sydpy/channel.py, Intf._connect and the       *)
(* _from_/_to_ methods of isig, itlm and iseq): how the elaboration of a   *)
(* design wires interfaces to each other, how events are made on first use *)
(* and chained from a slave to its master, and what the processes that a   *)
(* connection makes carry over once the simulation runs.  Delta cycles are *)
(* left to Simulator and SignalQueue: a process moves one item in a step.  *)
(***************************************************************************)
EXTENDS Integers, Sequences, FiniteSets

CONSTANTS
  Channels,
  Intfs,
  Kind,      \* Kind[i]: the _intf_type of interface i
  Dtype,     \* Dtype[i]: its data type
  Data,      \* Data[i]: the subinterface data of a sequential interface
  Dout,      \* Dout[i]: its subinterface _dout
  Plan,      \* the calls <<"sink" or "drive", channel, interface>> of the design
  Writes,    \* the calls <<"push" or "write", interface>> of its processes
  Names,     \* the names of events
  MaxItems   \* bound on the number of items the design writes

None == "none"     \* not sourced
Own  == "own"      \* sourced with a Signal of its own

Items == 1 .. MaxItems
Seqs  == { i \in Intfs : Kind[i] = "iseq" }

ASSUME WiringAssumption ==
  /\ Kind \in [Intfs -> {"isig", "itlm", "iseq"}]
  /\ \A q \in Seqs : /\ {Data[q], Dout[q]} \subseteq Intfs
                     /\ Kind[Data[q]] = "isig" /\ Kind[Dout[q]] = "isig"
                     /\ Dtype[Data[q]] = Dtype[q] /\ Dtype[Dout[q]] = Dtype[q]
  /\ Plan \subseteq {"sink", "drive"} \X Channels \X Intfs
  /\ Writes \subseteq {"push", "write"} \X Intfs
  /\ {None, Own} \cap Intfs = {}
  /\ IsFiniteSet(Intfs)

VARIABLES
  pc,        \* "elaborate", "run", or "raised" when a call raised
  todo,      \* the calls of Plan still to be made
  slaves,    \* Channel.slaves
  master,    \* Channel.master
  source,    \* isig._sig: None, Own, or the master interface
  bridges,   \* the processes that carry items: <<from, to, how>>
  used,      \* the events in use: <<interface, name>>
  chained,   \* <<e, f>>: event f is subscribed to event e
  early,     \* the events in use before their interface was connected
  queue,     \* the queue of the Signal an interface owns
  sent,      \* the items written to an interface, in order
  got        \* the items a bridge has brought to an interface

graph  == <<slaves, master, source, bridges>>
evvars == <<used, chained, early>>
items  == <<queue, sent, got>>
wvars  == <<pc, todo, graph, evvars, items>>

WTypeOK ==
  /\ pc \in {"elaborate", "run", "raised"}
  /\ todo \subseteq Plan
  /\ \A c \in Channels : slaves[c] \in Seq(Intfs)
  /\ master \in [Channels -> Intfs \cup {None}]
  /\ source \in [Intfs -> Intfs \cup {None, Own}]
  /\ bridges \subseteq Intfs \X Intfs \X {"convgen", "tlm_to_sig", "fifo"}
  /\ used \subseteq Intfs \X Names /\ early \subseteq used
  /\ chained \subseteq used \X used
  /\ \A i \in Intfs : queue[i] \in Seq(Items) /\ sent[i] \in Seq(Items) /\ got[i] \in Seq(Items)

\* A sequential interface comes with the process _p_fifo_proc.
WInit ==
  /\ pc = "elaborate"
  /\ todo = Plan
  /\ slaves = [c \in Channels |-> <<>>]
  /\ master = [c \in Channels |-> None]
  /\ source = [i \in Intfs |-> None]
  /\ bridges = { <<Data[q], Dout[q], "fifo">> : q \in Seqs }
  /\ used = {} /\ chained = {} /\ early = {}
  /\ queue = [i \in Intfs |-> <<>>] /\ sent = queue /\ got = queue

-----------------------------------------------------------------------------
(* Connecting two interfaces *)

\* The outcome of _connect: the new sources, the new processes, and whether it raised.
Wires == [source |-> source, bridges |-> bridges, raised |-> FALSE]

\* _from_isig: a slave of the master's data type uses the master as its signal; any
\* other one gets a process that converts.
SourceOrConvert(w, s, m) ==
  IF Dtype[s] = Dtype[m] THEN [w EXCEPT !.source[s] = m]
  ELSE [w EXCEPT !.bridges = @ \cup {<<m, s, "convgen">>}]

\* The interface of s that is sourced
Input(s) == IF Kind[s] = "iseq" THEN Data[s] ELSE s

\* The interface of m that slaves are sourced from
Output(m) == IF Kind[m] = "iseq" THEN Dout[m] ELSE m

\* Intf._connect: _from_<kind of m> of the slave s, or else _to_<kind of s> of the
\* master m.  A sequential slave accepts a transaction master and does nothing.  A
\* transaction slave raises if its master is a transaction interface of its own type:
\* _from_itlm then asks for the class Event, which itlm.py does not import.
Connect(w, s, m) ==
  IF w.raised THEN w ELSE
  CASE Kind[s] = "isig" /\ Kind[m] = "iseq" -> SourceOrConvert(w, s, Dout[m])
    [] Kind[s] = "isig" /\ Kind[m] = "itlm" ->
         [w EXCEPT !.bridges = @ \cup {<<m, s, "tlm_to_sig">>}]
    [] Kind[m] = "isig" -> SourceOrConvert(w, Input(s), m)
    [] Kind[s] = "itlm" /\ Kind[m] = "itlm" /\ Dtype[s] # Dtype[m] ->
         [w EXCEPT !.bridges = @ \cup {<<m, s, "convgen">>}]
    [] Kind[s] = "iseq" /\ Kind[m] = "itlm" -> w
    [] OTHER -> [w EXCEPT !.raised = TRUE]

\* The interfaces whose source changes while events of theirs are in use.
NewlyEarly(w) == { e \in used : w.source[e[1]] # source[e[1]] }

Wire(w) ==
  /\ source' = w.source
  /\ bridges' = w.bridges
  /\ early' = early \cup NewlyEarly(w)
  /\ pc' = IF w.raised THEN "raised" ELSE pc

\* A sink that leaves the slaves driven before it unconnected
SinkConnectsNone(c, i) == Wires

\* Channel.sink connects the slaves that are there already, in order, up to the
\* first that raises.
SinkConnects(c, i) ==
  LET wired[k \in 0 .. Len(slaves[c])] ==
        IF k = 0 THEN Wires ELSE Connect(wired[k - 1], slaves[c][k], i)
  IN  wired[Len(slaves[c])]

Sink(c, i) ==
  /\ pc = "elaborate"
  /\ <<"sink", c, i>> \in todo
  /\ todo' = todo \ {<<"sink", c, i>>}
  /\ IF master[c] # None
       THEN pc' = "raised" /\ UNCHANGED <<graph, early>>
       ELSE master' = [master EXCEPT ![c] = i] /\ Wire(SinkConnects(c, i)) /\ UNCHANGED slaves
  /\ UNCHANGED <<used, chained, items>>

\* Channel.drive connects at once if the master is there.
Drive(c, i) ==
  /\ pc = "elaborate"
  /\ <<"drive", c, i>> \in todo
  /\ todo' = todo \ {<<"drive", c, i>>}
  /\ slaves' = [slaves EXCEPT ![c] = Append(@, i)]
  /\ Wire(IF master[c] = None THEN Wires ELSE Connect(Wires, i, master[c]))
  /\ UNCHANGED <<master, used, chained, items>>

-----------------------------------------------------------------------------
(* Events and signals *)

\* A new event of a slave that is not chained to the master's
ChainsToNone(i) == None

\* The interface whose events a new event of i is chained to
ChainsTo(i) == IF source[i] \in Intfs THEN source[i] ELSE None

\* EventSet.__getitem__ and isig._missing_event: an event is made on first use and
\* chained to the event of the master, which is made in turn if it is missing.
Missing(i, n) ==
  LET up[j \in Intfs] ==
        IF <<j, n>> \in used THEN {}
        ELSE {j} \cup IF ChainsTo(j) = None THEN {} ELSE up[ChainsTo(j)]
  IN  up[i]

UseEvent(i, n) ==
  /\ pc # "raised"
  /\ <<i, n>> \notin used
  /\ used' = used \cup (Missing(i, n) \X {n})
  /\ chained' = chained \cup
       { <<<<ChainsTo(j), n>>, <<j, n>>>> : j \in { k \in Missing(i, n) : ChainsTo(k) # None } }
  /\ UNCHANGED <<pc, todo, graph, early, items>>

\* The interface that owns, or at its first write comes to own, the signal i uses.
Root(i) ==
  LET up[j \in Intfs] == IF source[j] \in Intfs THEN up[source[j]] ELSE j
  IN  up[i]

\* _prep_write along the sources makes the Signal of the root on the first write.
Sourced(i) == [source EXCEPT ![Root(i)] = Own]

Start ==
  /\ pc = "elaborate"
  /\ todo = {}
  /\ pc' = "run"
  /\ UNCHANGED <<todo, graph, evvars, items>>

\* A process of the design writes the next item; what is pushed is queued, and so is
\* what is written to a transaction interface.
WriteItem(how, i) ==
  /\ pc = "run"
  /\ Len(sent[i]) < MaxItems
  /\ LET v == Len(sent[i]) + 1
         q == how = "push" \/ Kind[i] = "itlm"
     IN  /\ sent' = [sent EXCEPT ![i] = Append(@, v)]
         /\ queue' = IF q THEN [queue EXCEPT ![Root(i)] = Append(@, v)] ELSE queue
  /\ source' = Sourced(i)
  /\ UNCHANGED <<pc, todo, slaves, master, bridges, evvars, got>>

\* A pop that clears the queue
RestCleared(q) == <<>>

Rest(q) == Tail(q)

\* A bridge b pops an item from its master; _pfunc_dtype_convgen pushes it to the
\* slave, _pfunc_tlm_to_sig and _fifo_proc write it.
Carry(b) ==
  LET from == Root(b[1])
      to   == Root(b[2])
      v    == Head(queue[from])
      left == [queue EXCEPT ![from] = Rest(@)]
  IN  /\ pc = "run"
      /\ queue[from] # <<>>
      /\ queue' = IF b[3] = "convgen" THEN [left EXCEPT ![to] = Append(@, v)] ELSE left
      /\ got' = [got EXCEPT ![b[2]] = Append(@, v)]
      /\ source' = Sourced(b[2])
      /\ UNCHANGED <<pc, todo, slaves, master, bridges, evvars, sent>>

Ended == (pc = "raised" \/ pc = "run") /\ UNCHANGED wvars

WNext ==
  \/ \E c \in Channels, i \in Intfs : Sink(c, i) \/ Drive(c, i)
  \/ \E i \in Intfs \ Seqs, n \in Names : UseEvent(i, n)
  \/ Start
  \/ \E w \in Writes : WriteItem(w[1], w[2])
  \/ \E b \in bridges : Carry(b)
  \/ Ended

WSpec == WInit /\ [][WNext]_wvars

-----------------------------------------------------------------------------
(* Properties *)

\* A design in which no interface is sourced on behalf of two calls of drive: a second
\* one would take it away from its first master.
OneDrive ==
  \A c, d \in Channels, i, j \in Intfs :
    <<"drive", c, i>> \in Plan /\ <<"drive", d, j>> \in Plan /\ Input(i) = Input(j)
      => c = d /\ i = j

\* R ranks the interfaces of a design in which none is sourced from itself, over whatever
\* channels: what is sourced comes after what it is sourced from.
Ranks(R) ==
  \A c \in Channels, i, m \in Intfs :
    {<<"drive", c, i>>, <<"sink", c, m>>} \subseteq Plan /\ Dtype[Input(i)] = Dtype[Output(m)]
      => R[Output(m)] < R[Input(i)]

\* What the connection of slave s to master m comes to, in either order of calls
Connected(s, m) == \A w \in {Connect(Wires, s, m)} :
  ~w.raised /\ w.source = source /\ w.bridges = bridges

\* The order of the calls sink and drive does not matter: as soon as a channel has a
\* master, each of its slaves is connected to it, those driven before as well as
\* those driven after, and connecting it once more would change nothing.  (A call that
\* raises ends the elaboration.)
SlavesConnected ==
  pc = "elaborate" =>
    \A c \in Channels : master[c] # None =>
      \A k \in 1 .. Len(slaves[c]) : Connected(slaves[c][k], master[c])

\* The events that a trigger of event e resolves
Reached(e) ==
  LET step(S) == S \cup { f \in used : \E g \in S : <<g, f>> \in chained }
      n[k \in Nat] == IF k = 0 THEN {e} ELSE step(n[k - 1])
  IN  n[Cardinality(Intfs)]

\* The interfaces between i and its root
Path(i) ==
  LET up[j \in Intfs] == {j} \cup IF source[j] \in Intfs THEN up[source[j]] ELSE {}
  IN  up[i]

\* An event used on a slave, directly or over several slaves in a row, is notified by
\* the signal at the root, unless an interface between them had that event in use
\* before it was connected.
EventsReach ==
  \A e \in used :
    (\A j \in Path(e[1]) : <<j, e[2]>> \notin early) =>
      e \in Reached(<<Root(e[1]), e[2]>>)

\* The processes that connections have made have nothing left to carry.
Idle == pc = "run" /\ \A b \in bridges : queue[Root(b[1])] = <<>>

\* What an interface was given: the items written to it, or, where a bridge feeds the
\* signal it uses, the items the bridge has brought.
Written(m) ==
  LET r == Root(Output(m))
      feeds == { b \in bridges : Root(b[2]) = r }
  IN  IF feeds = {} THEN sent[m] ELSE got[(CHOOSE b \in feeds : TRUE)[2]]

\* What has come to slave s of master m
Received(s, m) ==
  IF Kind[s] = "iseq" THEN got[Dout[s]]
  ELSE IF Root(s) \in {Root(m), Root(Output(m))} THEN Written(m)
  ELSE got[s]

\* The tutorial on channels: what is written with one interface is read with several
\* others, and channels do the conversions.  So once all is carried over, each slave
\* has received what its master was given, all of it, once and in order.
EachSlaveReceives ==
  Idle => \A c \in Channels : \A k \in 1 .. Len(slaves[c]) :
    Received(slaves[c][k], master[c]) = Written(master[c])
=============================================================================
