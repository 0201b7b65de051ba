---------------------------- MODULE Elaboration ----------------------------
(***************************************************************************)
(* How a design is put together in the previous architecture: modules      *)
(* instantiate modules (sydpy/_module.py, _component.py), the ports of an  *)
(* architecture are connected to channels found or made by name            *)
(* (sydpy/_channel.py, intfs/_intf.py), interfaces of different types are  *)
(* joined by conversion architectures, and all architectures of a module   *)
(* but the first are passive.  One thread elaborates the whole design, in  *)
(* the order of the calls: `stack' holds the architectures under way.      *)
(* Interfaces given to one another, slices and expressions are left out.   *)
(***************************************************************************)
EXTENDS Integers, Sequences, FiniteSets, FiniteSetsExt

CONSTANTS
  Classes,     \* the module classes; the first component is the only Top
  Top,
  Kids,        \* Kids[c]: the classes the architectures of c instantiate
  Archs,       \* Archs[c]: the architectures of c, the active one first
  Ports,       \* Ports[c]: its ports, [side, shared], in order; a shared port is
               \* annotated with an interface object, not with a string
  Type,        \* Type[a][k]: the interface type of port k in the architecture a
  Acquires,    \* Acquires[a]: the port the architecture a has an always_acquire on, or 0
  ModNames,    \* the names modules are given
  Chop,        \* Chop[n]: the name n without its last letter
  Confs,       \* Confs[c][k]: the channel names port k of c is given: [abs, up, segs]
  MaxComps     \* bound on the components of a design

Sides  == {"master", "slave"}
NoIntf == <<0, Top, "", 0>>

\* The names a port may be given, absolute or from `up' modules above
PortName == [abs : BOOLEAN, up : Nat, segs : Seq(STRING) \ {<<>>}]

ASSUME ElaborationAssumption ==
  /\ Top \in Classes /\ Classes \subseteq STRING /\ ModNames \subseteq STRING
  /\ Archs \in [Classes -> Seq(STRING) \ {<<>>}]
  /\ Kids \in [Classes -> SUBSET (Classes \ {Top})]
  /\ Ports \in [Classes -> Seq([side : Sides, shared : BOOLEAN])] /\ Ports[Top] = <<>>
  /\ \A c \in Classes : \A k \in DOMAIN Ports[c] : Confs[c][k] \subseteq PortName
  /\ MaxComps \in Nat \ {0}

VARIABLES
  comps,    \* the components in the order of their creation: [parent, name, kind, cls]
  stack,    \* the architectures under elaboration: [mod, arch, port, body, conf]
  current,  \* current[m]: current_arch of the module m, and its entry `active'
  owner,    \* owner[i]: the module of the interface i
  chan,     \* chan[i][side]: _master_channel and _slave_channel of i
  src,      \* src[i]: the interface that i is sourced from
  conv,     \* conv[i]: the interfaces that i has a conversion architecture from
  masterOf, slavesOf,   \* master and slaves of the channels
  pops,     \* the ports whose channel is popped on behalf of their architecture
  asked,    \* the connections asked for: [intf, side, place, active]
  raised

vars == <<comps, stack, current, owner, chan, src, conv, masterOf, slavesOf, pops, asked, raised>>

Ids   == 1 .. MaxComps
Proxies == UNION { { <<m, c, Archs[c][a], k>> : m \in 0 .. MaxComps, a \in DOMAIN Archs[c],
                                                k \in DOMAIN Ports[c] } : c \in Classes }

Running == stack[Len(stack)]
Class   == comps[Running.mod].cls
Arch    == Archs[Class][Running.arch]

\* The interface object of a port: one for all instances when it is an annotation
Intf(m, a, k) ==
  LET c == comps[m].cls IN <<IF Ports[c][k].shared THEN 0 ELSE m, c, a, k>>

TypeOf(i) == Type[i[3]][i[4]]

ModuleName(n) == [segs |-> <<n>>, tag |-> ""]

ETypeOK ==
  /\ Len(comps) <= MaxComps
  /\ \A x \in DOMAIN comps : comps[x].parent \in 0 .. x - 1
  /\ \A s \in DOMAIN stack : s > 1 => comps[stack[s].mod].parent = stack[s - 1].mod
  /\ \A c \in Ids : masterOf[c] # NoIntf => comps[c].kind = "channel"
  /\ \A c \in Ids : \A s \in DOMAIN slavesOf[c] : chan[slavesOf[c][s]]["slave"] = c

Frame(m, conf) == [mod |-> m, arch |-> 1, port |-> 1, body |-> FALSE, conf |-> conf]

EInit ==
  /\ comps = <<[parent |-> 0, name |-> ModuleName("top"), kind |-> "module", cls |-> Top]>>
  /\ stack = <<Frame(1, <<>>)>>
  /\ current = [m \in Ids |-> [arch |-> Archs[Top][1], active |-> TRUE]]
  /\ owner = [i \in Proxies |-> 0]
  /\ chan = [i \in Proxies |-> [s \in Sides |-> 0]]
  /\ src = [i \in Proxies |-> NoIntf]
  /\ conv = [i \in Proxies |-> {}]
  /\ masterOf = [c \in Ids |-> NoIntf]
  /\ slavesOf = [c \in Ids |-> <<>>]
  /\ pops = {} /\ asked = {} /\ raised = FALSE

-----------------------------------------------------------------------------
(* Component.find *)

\* components[n] of the component c: the last one added under that name
Child(c, n) ==
  LET S == { x \in DOMAIN comps : comps[x].parent = c /\ comps[x].name = n }
  IN  IF S = {} THEN 0 ELSE Max(S)

\* The component looked for under the first segment: one letter short of the slash
CompName(n) == Chop[n]

\* From c up n parents; the top has none (0), of which find cannot be asked.
Climb(c, n) ==
  LET up[k \in 0 .. n] == IF k = 0 THEN c ELSE IF up[k - 1] = 0 THEN 0 ELSE comps[up[k - 1]].parent
  IN  up[n]

\* From c down the segments: the component found, and what could not be traced
Descend(c, segs, tag) ==
  LET last == Len(segs)
      name(k) == IF k = last THEN [segs |-> <<segs[k]>>, tag |-> tag] ELSE ModuleName(CompName(segs[k]))
      down[k \in 0 .. last] ==
        IF k = 0 THEN [comp |-> c, rest |-> segs]
        ELSE LET next == Child(down[k - 1].comp, name(k))
             IN  IF Len(down[k - 1].rest) = last - k + 1 /\ next # 0
                 THEN [comp |-> next, rest |-> Tail(down[k - 1].rest)] ELSE down[k - 1]
  IN  down[last]

\* A name that does not start with '/' is looked up from the parent of the module.
From(m, x) == IF x.abs THEN 1 ELSE Climb(m, x.up + 1)

\* The lookup from the module itself
FindInside(m, x, tag) == Descend(IF x.abs THEN 1 ELSE Climb(m, x.up), x.segs, tag)

Find(m, x, tag) == Descend(From(m, x), x.segs, tag)

\* The place a name stands for, as the path from the top
PathTo(c) ==
  LET path[d \in 0 .. MaxComps] ==
        IF d <= 1 THEN <<>> ELSE path[comps[d].parent] \o comps[d].name.segs
  IN  path[c]

\* A name that leaves the design
Nowhere == [path |-> <<>>, tag |-> ""]

Place(m, x, tag) ==
  IF From(m, x) = 0 THEN Nowhere
  ELSE [path |-> IF x.abs THEN Tail(x.segs) ELSE PathTo(From(m, x)) \o x.segs, tag |-> tag]

PlaceOf(c) == [path |-> PathTo(c), tag |-> comps[c].name.tag]

-----------------------------------------------------------------------------
(* Module: instances and architectures *)

Replaced(g) == [stack EXCEPT ![Len(stack)] = g]

\* The component whose architecture runs
Holder == Running.mod

\* An architecture instantiates a module, under a name of its own: the component is
\* added to its parent and starts on its first architecture, the active one.
Inst ==
  /\ ~raised /\ stack # <<>> /\ Running.body
  /\ \E c \in Kids[Class], n \in ModNames :
     \E conf \in [DOMAIN Ports[c] -> UNION { Confs[c][k] : k \in DOMAIN Ports[c] }] :
       LET m == Len(comps) + 1
       IN  /\ m + Len(Ports[c]) * Len(Archs[c]) <= MaxComps /\ Child(Holder, ModuleName(n)) = 0
           /\ \A k \in DOMAIN conf : conf[k] \in Confs[c][k]
           /\ comps' = Append(comps, [parent |-> Holder, name |-> ModuleName(n),
                                      kind |-> "module", cls |-> c])
           /\ stack' = Append(stack, Frame(m, conf))
           /\ current' = [current EXCEPT ![m] = [arch |-> Archs[c][1], active |-> TRUE]]
  /\ UNCHANGED <<owner, chan, src, conv, masterOf, slavesOf, pops, asked, raised>>

\* A passive process that pops
AlwaysPops(m) == TRUE

\* A process on an acquired port asks the module for its current architecture.
PopsFor(m) == current[m].active

\* The ports are connected: the function of the architecture runs, and creates
\* its process on an acquired port.
StartArch ==
  /\ ~raised /\ stack # <<>>
  /\ ~Running.body /\ Running.port > Len(Ports[Class])
  /\ stack' = Replaced([Running EXCEPT !.body = TRUE])
  /\ pops' = IF Acquires[Arch] # 0 /\ PopsFor(Running.mod)
             THEN pops \cup {Intf(Running.mod, Arch, Acquires[Arch])} ELSE pops
  /\ UNCHANGED <<comps, current, owner, chan, src, conv, masterOf, slavesOf, asked, raised>>

\* The function returns: the next architecture of the module, a passive one, is
\* instantiated with the same configuration, or the module is done.
Return ==
  /\ ~raised /\ stack # <<>> /\ Running.body
  /\ IF Running.arch < Len(Archs[Class])
     THEN /\ stack' = Replaced([Frame(Running.mod, Running.conf) EXCEPT !.arch = Running.arch + 1])
          /\ current' = [current EXCEPT ![Running.mod] =
                           [arch |-> Archs[Class][Running.arch + 1], active |-> FALSE]]
     ELSE /\ stack' = SubSeq(stack, 1, Len(stack) - 1)
          /\ UNCHANGED current
  /\ UNCHANGED <<comps, owner, chan, src, conv, masterOf, slavesOf, pops, asked, raised>>

-----------------------------------------------------------------------------
(* Interfaces and channels *)

\* cls_eq of a type: arrays compare their elements; object.__eq__ of any others is
\* true or NotImplemented, which is no less true.
ClsEq(t, u) == t.array => t.dtype = u.dtype

IntfEq(i, j) == TypeOf(i).kind = TypeOf(j).kind /\ ClsEq(TypeOf(i), TypeOf(j))

\* conn_to_intf: the slaves S that are equal to the master interface are sourced from
\* it; for the others a conversion architecture is instantiated in their module, which
\* is current and active from then on and pops the channel of a tlm.
ConnToIntf(S, mst) ==
  LET C == { i \in S : ~IntfEq(i, mst) }
  IN  /\ src' = [i \in Proxies |-> IF i \in S \ C THEN mst ELSE src[i]]
      /\ conv' = [i \in Proxies |-> IF i \in C THEN conv[i] \cup {mst} ELSE conv[i]]
      /\ pops' = IF TypeOf(mst).kind = "tlm" THEN pops \cup C ELSE pops
      /\ current' = [m \in Ids |-> IF \E i \in C : owner'[i] = m
                                   THEN [arch |-> "conv", active |-> TRUE] ELSE current[m]]

\* A master that does not look back
NoneWaiting(c) == {}

\* The slaves that have come to a channel before its master
Waiting(c) == { slavesOf[c][k] : k \in DOMAIN slavesOf[c] }

Unconnected == UNCHANGED <<src, conv, pops, current>>

\* register_proxy of the channel c
Register(i, side, c) ==
  IF side = "slave"
  THEN /\ slavesOf' = [slavesOf EXCEPT ![c] = Append(@, i)]
       /\ IF masterOf[c] # NoIntf THEN ConnToIntf({i}, masterOf[c]) ELSE Unconnected
       /\ UNCHANGED <<masterOf, raised>>
  ELSE IF masterOf[c] # NoIntf
  THEN raised' = TRUE /\ Unconnected /\ UNCHANGED <<masterOf, slavesOf>>
  ELSE /\ masterOf' = [masterOf EXCEPT ![c] = i]
       /\ ConnToIntf({ s \in Waiting(c) : src[s] = NoIntf }, i)
       /\ UNCHANGED <<slavesOf, raised>>

\* Every output goes to the channel that is named.
NoTag(m, side) == ""

\* get_channel: the outputs of an architecture that is not active get a channel of
\* their own.
TagOf(m, side) == IF ~current[m].active /\ side = "master" THEN current[m].arch ELSE ""

\* The next port of the running architecture: its interface belongs to the module that
\* came first, and so does its channel; a channel that is not found is made.
ConnectPort ==
  LET i    == Intf(Running.mod, Arch, Running.port)
      side == Ports[Class][Running.port].side
      x    == Running.conf[Running.port]
      m    == owner'[i]
      tag  == TagOf(m, side)
      got  == Find(m, x, tag)
      c    == IF got.rest = <<>> THEN got.comp ELSE Len(comps) + 1
  IN  /\ ~raised /\ stack # <<>>
      /\ ~Running.body /\ Running.port <= Len(Ports[Class])
      /\ stack' = Replaced([Running EXCEPT !.port = @ + 1])
      /\ owner' = [owner EXCEPT ![i] = IF @ = 0 THEN Running.mod ELSE @]
      /\ c <= MaxComps
      /\ asked' = asked \cup {[intf |-> i, side |-> side, active |-> Running.arch = 1,
                               place |-> Place(Running.mod, x, IF side = "master" /\ Running.arch > 1
                                                               THEN Arch ELSE "")]}
      /\ IF chan[i][side] # 0
         THEN Unconnected /\ UNCHANGED <<comps, chan, masterOf, slavesOf, raised>>
         ELSE IF From(m, x) = 0
         THEN raised' = TRUE /\ Unconnected /\ UNCHANGED <<comps, chan, masterOf, slavesOf>>
         ELSE /\ comps' = IF got.rest = <<>> THEN comps
                          ELSE Append(comps, [parent |-> got.comp, cls |-> Top, kind |-> "channel",
                                              name |-> [segs |-> got.rest, tag |-> tag]])
              /\ chan' = [chan EXCEPT ![i][side] = c]
              /\ IF comps'[c].kind = "channel" THEN Register(i, side, c)
                 ELSE raised' = TRUE /\ Unconnected /\ UNCHANGED <<masterOf, slavesOf>>

Done == (stack = <<>> \/ raised) /\ UNCHANGED vars

ENext == Inst \/ StartArch \/ Return \/ ConnectPort \/ Done

ESpec == EInit /\ [][ENext]_vars

-----------------------------------------------------------------------------
(* Properties *)

\* An interface that is given a name is connected to the channel of that name, and there
\* is one channel for a name, wherever in the design it is used from.
ConnectsToItsName ==
  /\ ~raised => \A r \in asked : PlaceOf(chan[r.intf][r.side]) = r.place
  /\ \A c, d \in DOMAIN comps :
       comps[c].kind = "channel" /\ comps[d].kind = "channel" /\ PlaceOf(c) = PlaceOf(d) => c = d

\* The outputs of the architectures that are not the first go to other channels: a
\* design is refused only when it names a place outside, or drives a channel twice itself.
PassiveOutputsApart ==
  raised => \E q, r \in asked :
    \/ q.place = Nowhere
    \/ /\ q # r /\ q.active /\ r.active /\ q.place = r.place
       /\ q.side = "master" /\ r.side = "master"

\* A passive architecture takes nothing from the channel that the active one reads.
PassiveOnlyWatches ==
  \A r \in asked : r.side = "slave" /\ r.intf \in pops => \E q \in asked : q.intf = r.intf /\ q.active

\* Whichever comes first, the master of a channel or a slave, the slave is connected to
\* the master, once.
EverySlaveServed ==
  \A c \in Ids : \A s \in DOMAIN slavesOf[c] :
    LET i == slavesOf[c][s]
    IN  IF masterOf[c] = NoIntf THEN src[i] = NoIntf /\ conv[i] = {}
        ELSE \/ src[i] = masterOf[c] /\ conv[i] = {}
             \/ src[i] = NoIntf /\ conv[i] = {masterOf[c]}

=============================================================================
