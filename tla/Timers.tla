------------------------------- MODULE Timers -------------------------------
(***************************************************************************)
(* What a Delay promises to the process that waits for it.  Every process  *)
(* has one alarm.  Time stands still while a process handles a ringing     *)
(* alarm; it then jumps to the earliest alarm, and exactly the processes   *)
(* whose alarm is set to that time are rung.                               *)
(***************************************************************************)
EXTENDS Integers

CONSTANTS Procs, Delays

NoDelay == -1

VARIABLES
  now,      \* the time
  alarm,    \* alarm[p]: when p asked to be woken, NoDelay if it did not
  ringing   \* the processes whose alarm has gone off and which have not run yet

tvars == <<now, alarm, ringing>>

Init ==
  /\ now = 0
  /\ alarm = [p \in Procs |-> NoDelay]
  /\ ringing = {}

\* Process p runs: it handles its alarm, or forgets one that has not gone off, and
\* may ask for the next.
Handle(p, d) ==
  /\ ringing' = ringing \ {p}
  /\ alarm' = [alarm EXCEPT ![p] = IF d = NoDelay THEN NoDelay ELSE now + d]
  /\ UNCHANGED now

Tick ==
  /\ ringing = {}
  /\ \E p \in Procs :
       /\ alarm[p] # NoDelay
       /\ \A q \in Procs : alarm[q] # NoDelay => alarm[p] <= alarm[q]
       /\ now' = alarm[p]
  /\ ringing' = { q \in Procs : alarm[q] = now' }
  /\ alarm' = [q \in Procs |-> IF q \in ringing' THEN NoDelay ELSE alarm[q]]

Next ==
  \/ \E p \in Procs, d \in Delays \cup {NoDelay} : Handle(p, d)
  \/ Tick

Spec == Init /\ [][Next]_tvars
=============================================================================
