--------------------------- MODULE PciEnumeration ---------------------------
(***************************************************************************)
(* kernel/core/pci.c: init_pci walks the PCI buses depth first and builds    *)
(* the list of devices the drivers go through.                              *)
(*                                                                         *)
(* _enumerate_bus and _enumerate_device call each other: `stack` holds one   *)
(* frame for each running _enumerate_bus, with its loop variables.  A step   *)
(* is one turn of the slot loop or of the function loop.  What the           *)
(* configuration space answers is the constant part of the machine.          *)
(***************************************************************************)
EXTENDS Integers, Sequences, FiniteSets, SequencesExt

CONSTANTS
  BusSlots,   \* slots of a bus (32)
  Functions   \* functions of a slot (8)

\* What is at a location: "none" (vendor 0xFFFF), "device" or "bridge"; bit 7 of
\* the header type; the secondary bus of a bridge.
Contents ==
  [kind : {"none", "device", "bridge"}, multi : BOOLEAN, secondary : Nat]

Bridges(m) == {l \in DOMAIN m : m[l].kind = "bridge"}

ASSUME PciAssumption == BusSlots \in Nat \ {0} /\ Functions \in Nat \ {0}

\* What the firmware sets up and the code relies on: each bridge has a secondary
\* bus of its own, with a higher number than the bus the bridge is on.
SoundTopology(m) ==
  /\ \A l \in DOMAIN m : m[l] \in Contents
  /\ \A l \in Bridges(m) : l.bus < m[l].secondary
  /\ \A k, l \in Bridges(m) : m[k].secondary = m[l].secondary => k = l

VARIABLES
  topology,   \* what the configuration space answers, by location
  stack,      \* the running calls of _enumerate_bus, innermost last
  devices     \* the list from first_enumerated_device on

pcivars == <<topology, stack, devices>>

Location(b, s, f) == [bus |-> b, slot |-> s, function |-> f]

\* A read of a location nobody answers yields ones.
At(l) ==
  IF l \in DOMAIN topology THEN topology[l]
  ELSE [kind |-> "none", multi |-> TRUE, secondary |-> 255]

\* A call of _enumerate_bus that has just begun.  `many` says that the function
\* loop of the current slot runs.
Frame(b) == [bus |-> b, slot |-> 0, function |-> 0, many |-> FALSE]

Top == Last(stack)
Where == Location(Top.bus, Top.slot, Top.function)

\* init_pci calls _enumerate_bus for bus 0.
PciInit(m) ==
  /\ topology = m
  /\ stack = <<Frame(0)>>
  /\ devices = << >>

\* The frame moves on to the next slot.
NextSlot == [Top EXCEPT !.slot = @ + 1, !.function = 0, !.many = FALSE]

\* The frame after a function was dealt with: the function loop goes on, or ends
\* with the slot.
AfterFunction ==
  IF Top.many /\ Top.function + 1 < Functions
    THEN [Top EXCEPT !.function = @ + 1]
    ELSE NextSlot

Replace(frame) == Append(Front(stack), frame)

InSlot == stack # << >> /\ Top.slot < BusSlots

\* Nothing answers at function 0 of the slot, or at this function of the loop.
SkipFunction ==
  /\ InSlot
  /\ At(Where).kind = "none"
  /\ stack' = Replace(AfterFunction)
  /\ UNCHANGED <<topology, devices>>

\* Function 0 answers with bit 7 of its header type set: the function loop begins.
EnterFunctions ==
  /\ InSlot
  /\ ~ Top.many
  /\ At(Where).kind # "none"
  /\ At(Where).multi
  /\ stack' = Replace([Top EXCEPT !.many = TRUE])
  /\ UNCHANGED <<topology, devices>>

\* The function that is looked at exists and is the slot's only one, or the
\* function loop is at it: _enumerate_device runs.
Enumerates ==
  /\ InSlot
  /\ At(Where).kind # "none"
  /\ Top.many \/ ~ At(Where).multi

\* A device goes to the end of the list.
AddDevice ==
  /\ Enumerates
  /\ At(Where).kind = "device"
  /\ devices' = Append(devices, Where)
  /\ stack' = Replace(AfterFunction)
  /\ UNCHANGED topology

\* Mutant: after a bridge the slot's other functions are skipped.
EnterBridgeSkips ==
  /\ Enumerates
  /\ At(Where).kind = "bridge"
  /\ stack' = Append(Replace(NextSlot), Frame(At(Where).secondary))
  /\ UNCHANGED <<topology, devices>>

\* Mutant: the loop here does not go on.
EnterBridgeStays ==
  /\ Enumerates
  /\ At(Where).kind = "bridge"
  /\ stack' = Append(stack, Frame(At(Where).secondary))
  /\ UNCHANGED <<topology, devices>>

\* A bridge: the bus behind it is enumerated before the loop here goes on.
EnterBridge ==
  /\ Enumerates
  /\ At(Where).kind = "bridge"
  /\ stack' = Append(Replace(AfterFunction), Frame(At(Where).secondary))
  /\ UNCHANGED <<topology, devices>>

\* The slot loop is over: _enumerate_bus returns to the bridge it was called for.
LeaveBus ==
  /\ stack # << >>
  /\ Top.slot = BusSlots
  /\ stack' = Front(stack)
  /\ UNCHANGED <<topology, devices>>

PciNext == SkipFunction \/ EnterFunctions \/ AddDevice \/ EnterBridge \/ LeaveBus

-----------------------------------------------------------------------------
(* Properties.                                                             *)

\* A function the hardware shows: function 0, or another one of a slot whose
\* function 0 says there are several.
Shown(l) ==
  LET zero == Location(l.bus, l.slot, 0)
  IN  /\ At(l).kind # "none"
      /\ l = zero \/ (At(zero).kind # "none" /\ At(zero).multi)

\* The buses that can be reached from bus 0 through bridges: those in every set that has
\* bus 0 and, with the bus a bridge is on, the bus behind it.
Buses == {0} \cup {topology[l].secondary : l \in Bridges(topology)}

Closed(S) ==
  /\ 0 \in S
  /\ \A l \in Bridges(topology) : l.bus \in S /\ Shown(l) => topology[l].secondary \in S

ReachableBuses == {b \in Buses : \A S \in SUBSET Buses : Closed(S) => b \in S}

AllDevices ==
  {l \in DOMAIN topology :
     l.bus \in ReachableBuses /\ Shown(l) /\ At(l).kind = "device"}

\* The list never holds a location twice, nor one that is not a reachable device,
\* although function 0 of a slot is looked at both by the slot loop and by the
\* function loop.
FoundOnce ==
  /\ Cardinality(Range(devices)) = Len(devices)
  /\ Range(devices) \subseteq AllDevices
=============================================================================
