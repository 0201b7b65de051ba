---------------------------- MODULE SignalValue -----------------------------
(***************************************************************************)
(* The value of signals (sydpy/_signal.py) written and read through isig   *)
(* interfaces (intfs/isig.py) and their slices (intfs/intf.py) by          *)
(* processes that the kernel of module Simulator schedules.                *)
(*                                                                         *)
(* A signal holds two value objects, _val and _next.  Values are mutable   *)
(* and a conversion between equal types hands on the object it is given,   *)
(* so that two of these cells can hold one object: alias keeps track.      *)
(***************************************************************************)
EXTENDS Simulator

CONSTANTS
  Bits,      \* the positions of a value
  Waits,     \* the sets of events a process of the design may wait for
  Pushed,    \* the signals the design also pushes to
  Sliced     \* the signals the design also writes slice by slice

Kinds == {"updated", "changed", "event_def", "posedge", "negedge", "enqueued"}
Values(B) == [B -> {0, 1}]
Nothing == <<>>           \* no write_after is under way

\* Connected interfaces share one Signal, whose events are not subscribed to others.
ASSUME SignalAssumption ==
  /\ Events \subseteq Sigs \X Kinds
  /\ Chain = [e \in Events |-> {}]
  /\ Waits \subseteq SUBSET Events
  /\ Sliced \subseteq Sigs
  /\ Pushed \subseteq Sigs

VARIABLES
  sourced,   \* the interfaces whose first write has made their Signal
  held,      \* the value in each cell: held[<<s, "val">>] is that of s._val
  alias,     \* alias[c]: the cells that hold the same object as cell c
  created,   \* the events the event sets hold, made at their first use
  later,     \* later[p]: the write a write_after of process p has still to do
  \* History: what p read, and what has happened to the signals since
  seen,          \* seen[p]: the values of the signals at the last slice of p
  readEarly,     \* readEarly[p]: those whose change was not yet resolved at that slice
  writtenEarly   \* writtenEarly[p]: those written from that slice's evaluate phase on
                 \* while a change of theirs was not yet resolved

valuevars == <<sourced, held, alias>>
history   == <<seen, readEarly, writtenEarly>>
svars     == <<valuevars, created, later, history>>
allvars   == <<vars, svars>>

\* The two value objects of each of the signals S
Cells(S) == S \X {"val", "next"}
Val(s)     == held[<<s, "val">>]
NextVal(s) == held[<<s, "next">>]

STypeOK ==
  /\ sourced \subseteq Sigs
  /\ held \in [Cells(Sigs) -> Values(Bits)]
  /\ alias \in [Cells(Sigs) -> SUBSET Cells(Sigs)]
  /\ \A c \in Cells(Sigs) : c \in alias[c] /\ \A d \in alias[c] : alias[d] = alias[c]
  /\ created \subseteq Events
  /\ later \in [Procs -> {Nothing} \cup (Sigs \X Values(Bits))]
  /\ seen \in [Procs -> [Sigs -> Values(Bits)]]
  /\ readEarly \in [Procs -> SUBSET Sigs] /\ writtenEarly \in [Procs -> SUBSET Sigs]

SInit ==
  /\ Init
  /\ sourced = {}
  /\ held = [c \in Cells(Sigs) |-> [b \in Bits |-> 0]]
  /\ alias = [c \in Cells(Sigs) |-> {c}]
  /\ created = {}
  /\ later = [p \in Procs |-> Nothing]
  /\ seen = [p \in Procs |-> [s \in Sigs |-> [b \in Bits |-> 0]]]
  /\ readEarly = [p \in Procs |-> {}] /\ writtenEarly = readEarly

-----------------------------------------------------------------------------
(* What a slice does to a signal *)

\* Cells C now hold new objects of their own
Fresh(C) == [c \in Cells(Sigs) |-> IF c \in C THEN {c} ELSE alias[c] \ C]

\* A write that does not wait for the update phase
AssignAtOnce(s, v) ==
  /\ held' = [held EXCEPT ![<<s, "next">>] = v, ![<<s, "val">>] = v]
  /\ alias' = Fresh({<<s, "next">>})

\* Signal.write with a new object, as an expression or a conversion makes it
Assign(s, v) ==
  /\ held' = [held EXCEPT ![<<s, "next">>] = v]
  /\ alias' = Fresh({<<s, "next">>})

\* s <<= t: once t has a Signal, read returns t._val itself, conv between equal types
\* returns its argument, and Signal.write keeps it: s._next now is t._val.
Copy(s, t) ==
  LET joined == alias[<<t, "val">>] \cup {<<s, "next">>} IN
  IF t \in sourced
  THEN /\ held' = [held EXCEPT ![<<s, "next">>] = Val(t)]
       /\ alias' = [c \in Cells(Sigs) |->
                      IF c \in joined THEN joined ELSE alias[c] \ {<<s, "next">>}]
  ELSE Assign(s, Val(t))

\* SlicedIntf.write: the object of read_next is changed in place and written back.
WriteSlice(s, b, x) ==
  /\ held' = [c \in Cells(Sigs) |->
                IF c \in alias[<<s, "next">>] THEN [NextVal(s) EXCEPT ![b] = x] ELSE held[c]]
  /\ UNCHANGED alias

-----------------------------------------------------------------------------
(* Slices: one write each, which is no restriction: within an evaluate phase the *)
(* writes of one slice and those of several follow each other all the same.  A   *)
(* slice may push to any number of queues; what is in a queue is the matter of   *)
(* module SignalQueue, and a pop is to the value of a signal a write.            *)

\* Signal.push triggers the event enqueued at once, in the evaluate phase, if somebody
\* has used it: whoever waits for it runs in the next delta cycle.
Enqueue(P) == { e \in created : e[1] \in P /\ e[2] = "enqueued" }

Changes == {"changed", "event_def", "posedge", "negedge"}

\* The signals that the last update has changed and whose events are not resolved yet:
\* a process that a push has woken runs before those the change will wake.
Unresolved == { s \in Sigs : \E k \in Changes : <<s, k>> \in trigPool }

\* The process has read every signal, the signals U are written.
History(p, U) ==
  /\ seen' = [seen EXCEPT ![p] = [s \in Sigs |-> Val(s)]]
  /\ readEarly' = [readEarly EXCEPT ![p] = Unresolved]
  /\ writtenEarly' = [q \in Procs |-> (IF q = p THEN {} ELSE writtenEarly[q])
                                      \cup ((updatePool \cup U) \cap Unresolved)]

\* A slice that pushes to the signals P and writes the signals U, which makes Signals of
\* them, and waits for the events W, which makes them, and perhaps for a Delay
Slice(p, P, U, W, d) ==
  /\ RunProc(p, Enqueue(P), U, W, d)
  /\ sourced' = sourced \cup P \cup U
  /\ created' = created \cup W
  /\ History(p, U)

Write(p) ==
  /\ later[p] = Nothing
  /\ \E s \in Sigs, P \in SUBSET Pushed, W \in Waits, d \in Delays \cup {NoDelay} :
       /\ Slice(p, P, {s}, W, d)
       /\ \/ \E v \in Values(Bits) : Assign(s, v)
          \/ \E t \in Sigs : Copy(s, t)
          \/ s \in Sliced /\ \E b \in Bits, x \in {0, 1} : WriteSlice(s, b, x)
  /\ UNCHANGED later

ReadOnly(p) ==
  /\ later[p] = Nothing
  /\ \E P \in SUBSET Pushed, W \in Waits, d \in Delays \cup {NoDelay} : Slice(p, P, {}, W, d)
  /\ UNCHANGED <<held, alias, later>>

\* write_after(val, delay) with a delay: wait, then write.
WriteAfter(p) ==
  /\ later[p] = Nothing
  /\ \E s \in Sigs, v \in Values(Bits), P \in SUBSET Pushed, d \in Delays \ {0} :
       Slice(p, P, {}, {}, d) /\ later' = [later EXCEPT ![p] = <<s, v>>]
  /\ UNCHANGED <<held, alias>>

DelayedWrite(p) ==
  /\ later[p] # Nothing
  /\ \E P \in SUBSET Pushed, W \in Waits, d \in Delays \cup {NoDelay} :
       Slice(p, P, {later[p][1]}, W, d)
  /\ Assign(later[p][1], later[p][2])
  /\ later' = [later EXCEPT ![p] = Nothing]

-----------------------------------------------------------------------------
(* The update phase *)

Truth(v) == \E b \in Bits : v[b] = 1      \* bool() of a value

\* An edge for every change
FiresOnAnyChange(k, v, n) == k = "updated" \/ (k \in Kinds \ {"enqueued"} /\ v # n)

\* Whether an update from v to n triggers the signal's event of kind k.
\* (Event.subevents is empty: nothing in sydpy puts an event into it.)
Fires(k, v, n) ==
  \/ k = "updated"
  \/ k \in {"changed", "event_def"} /\ v # n
  \/ k = "posedge" /\ ~Truth(v) /\ Truth(n)
  \/ k = "negedge" /\ Truth(v) /\ ~Truth(n)

\* The value is replaced before the two are compared
TriggersLate(s) == { e \in created : e[1] = s /\ Fires(e[2], NextVal(s), NextVal(s)) }

\* Events nobody has used do not exist.
Triggers(s) == { e \in created : e[1] = s /\ Fires(e[2], Val(s), NextVal(s)) }

\* Signal._update for every signal of the update pool: _val becomes a copy of
\* _next when the two differ.
SignalsUpdate ==
  LET changed == { s \in updatePool : Val(s) # NextVal(s) } IN
  /\ Update(UNION { Triggers(s) : s \in updatePool })
  /\ held' = [c \in Cells(Sigs) |->
                IF c[2] = "val" /\ c[1] \in changed THEN NextVal(c[1]) ELSE held[c]]
  /\ alias' = Fresh(changed \X {"val"})
  /\ UNCHANGED <<sourced, created, later, history>>

\* A design without callbacks of the kernel that write (those of module Cosim do, when
\* nothing is ready or triggered any more)
SNext ==
  \/ \E p \in Procs : ProcReg(p) /\ UNCHANGED svars
  \/ KernelStep /\ UNCHANGED svars
  \/ \E p \in Procs : Write(p) \/ ReadOnly(p) \/ WriteAfter(p) \/ DelayedWrite(p)
  \/ SignalsUpdate
  \/ DeltaEnd({}) /\ UNCHANGED svars
  \/ Terminated /\ UNCHANGED svars

SSpec == SInit /\ [][SNext]_allvars

-----------------------------------------------------------------------------
(* Properties *)

\* "Signal is smallest unit that provides evaluate-update mechanism for data" (the
\* docstring of Signal): what a signal reads as changes in the update phase only, so
\* the order in which the slices of an evaluate phase run is not seen.  A signal that
\* is written slice by slice is an exception: an assignment between signals of one
\* type makes its next value the current value of the other, and the next write to a
\* slice shows there at once.
ReadStable(s) == Val(s)' = Val(s) \/ \E t \in Sliced : <<t, "next">> \in alias[<<s, "val">>]
StableStep    == pc # "resolve" => \A s \in Sigs : ReadStable(s)
ReadsStable   == [][StableStep]_allvars

\* A process that waits for a change of one signal and nothing else is owed a slice
\* whenever the value differs from the one it has last read: no change is missed
\* between its read and its subscription, whoever writes and pushes.  Conversely it is
\* owed one only then, unless a push woke somebody between the update and the
\* resolution of its events: the process itself, which read the new value before it
\* was told, or one that wrote the signal again, perhaps back to what it was.
ChangeExact ==
  pc \notin {"elaborate", "finished"} =>
    \A p \in procPool, s \in Sigs, k \in {"changed", "event_def"} :
      events[p] = {<<s, k>>} /\ p \notin delayed =>
        /\ Val(s) # seen[p][s] => Owed(p)
        /\ Owed(p) => Val(s) # seen[p][s] \/ s \in readEarly[p] \cup writtenEarly[p]

\* A process that an edge has woken finds the signal as the edge left it, although
\* its slice comes two delta cycles after the update, unless the signal was written
\* again before the edge was resolved.
EdgeSeen ==
  pc = "evaluate" =>
    \A p \in readyPool, s \in Sigs :
      p \notin delayed /\ s \notin writtenEarly[p] =>
        /\ events[p] = {<<s, "posedge">>} => Truth(Val(s))
        /\ events[p] = {<<s, "negedge">>} => ~Truth(Val(s))

\* In a design that pushes to no queue both are unconditional: no slice runs between an
\* update and the resolution of its events.
NothingEarly == \A p \in Procs : readEarly[p] = {} /\ writtenEarly[p] = {}
=============================================================================
