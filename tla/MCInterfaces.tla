---------------------------- MODULE MCInterfaces ----------------------------
(***************************************************************************)
(* The interfaces over the kernel, in finite instances for TLC: signals    *)
(* that are written whole, and beside them signals that are also written   *)
(* slice by slice.  `part', chosen initially, says which of them runs; the *)
(* variables of the first stay as they are while the other one does.       *)
(* TLC evaluates a constant definition without parameters once, with the   *)
(* constants of this module, and an instance of a module that is extended  *)
(* here would get that value: in Simulator and SignalValue what depends on *)
(* a constant takes a parameter (PastEnd, Values, Cells).                  *)
(***************************************************************************)
EXTENDS SignalValue, Sequences, TLC

(* Two processes write one signal, at once or after a delay, push to it, and *)
(* wait for a change, an edge or a push.                                     *)

Unchained(E) == [e \in E |-> {}]

ValueEvents == {"a"} \X {"changed", "posedge", "enqueued"}
ValueChain  == Unchained(ValueEvents)
ValueWaits  == { {e} : e \in ValueEvents } \cup {{}}

VARIABLES
  part,
  kpc, ktime, kdelta, kready, ktrig, kupdate, kdelay, kproc, kevents, kdelayed, kpool,
  made, by, hold, copies, after, read, before, again

sliced == <<kpc, ktime, kdelta, kready, ktrig, kupdate, kdelay, kproc, kevents, kdelayed, kpool,
            made, by, hold, copies, after, read, before, again>>
mcvars == <<allvars, part, sliced>>

(* Two processes write two signals, assign one to the other, and write one   *)
(* of them slice by slice.                                                   *)

SliceEvents == {"a", "b"} \X {"changed", "posedge", "negedge"}

Slices == INSTANCE SignalValue WITH
  pc <- kpc, time <- ktime, deltaCount <- kdelta, readyPool <- kready, trigPool <- ktrig,
  updatePool <- kupdate, delayPool <- kdelay, procPool <- kproc, events <- kevents,
  delayed <- kdelayed, evPool <- kpool,
  sourced <- by, held <- hold, alias <- copies, created <- made, later <- after, seen <- read,
  readEarly <- before, writtenEarly <- again, Pushed <- {},
  Sigs <- {"a", "b"}, Events <- SliceEvents, Chain <- Unchained(SliceEvents),
  Waits <- {{}}, Sliced <- {"a"}, Bits <- {0, 1}, Delays <- {1}, Duration <- 1, MaxDelta <- 3

ASSUME Slices!SignalAssumption

\* The processes of a design differ by nothing but what they do.
Symmetry == Permutations(Procs)

-----------------------------------------------------------------------------
MCInit == SInit /\ Slices!SInit /\ part \in {"values", "slices"}

MCNext ==
  /\ UNCHANGED part
  /\ \/ part = "values" /\ SNext /\ UNCHANGED sliced
     \/ part = "slices" /\ Slices!SNext /\ UNCHANGED allvars

MCSpec == MCInit /\ [][MCNext]_mcvars

-----------------------------------------------------------------------------
(* The properties of the instances beside it, with the type invariants of    *)
(* their components; those of SignalValue are its own.                       *)

\* What a signal reads as changes in the update phase only, unless it shares its
\* object with one that is written slice by slice.
SlicesStable == [][part = "slices" => Slices!STypeOK /\ Slices!StableStep]_mcvars
=============================================================================
