----------------------------- MODULE MCDrivers -----------------------------
(***************************************************************************)
(* Drivers on machines that vary one part at a time.                         *)
(*                                                                         *)
(* Topologies have up to four buses of two slots with two functions.  Slot 0  *)
(* of bus 0 and slot 1 of bus 1 hold whatever a slot can hold, the rest what   *)
(* is needed for bridges in either function, nested two deep, and for          *)
(* functions that hide behind a function 0 that is absent or single.  There    *)
(* are up to two AHCI controllers of two ports, on one bus or behind a bridge. *)
(***************************************************************************)
EXTENDS Drivers, TLC

None == [kind |-> "none", multi |-> FALSE, secondary |-> 0]
Device(m) == [kind |-> "device", multi |-> m, secondary |-> 0]
Bridge(m, b) == [kind |-> "bridge", multi |-> m, secondary |-> b]

Plain == {None, Device(FALSE), Device(TRUE)}

\* The contents of the two functions of a slot of bus b.
Slot(b, s, zero, one) ==
  {[l \in {Location(b, s, 0), Location(b, s, 1)} |->
      IF l.function = 0 THEN pair[1] ELSE pair[2]] : pair \in zero \X one}

Bus0 ==
  {x @@ y : x \in Slot(0, 0, Plain \cup {Bridge(FALSE, 1), Bridge(TRUE, 1)},
                             Plain \cup {Bridge(TRUE, 1), Bridge(TRUE, 2)}),
            y \in Slot(0, 1, {None, Device(TRUE), Bridge(TRUE, 2)},
                             {None, Device(FALSE)})}
Bus1 == Slot(1, 1, Plain \cup {Bridge(TRUE, 3)}, {None, Device(FALSE), Bridge(TRUE, 3)})
Bus2 == Slot(2, 0, {Device(TRUE)}, {None})
Bus3 == Slot(3, 0, {Device(FALSE)}, {Device(FALSE)})

OneBridgePerBus(m) ==
  \A k, l \in Bridges(m) : m[k].secondary = m[l].secondary => k = l

Topologies ==
  {m \in {a @@ b @@ c @@ d : a \in Bus0, b \in Bus1, c \in Bus2, d \in Bus3} :
     OneBridgePerBus(m)}

\* Controllers: first and behind a bridge.
Nowhere == [i \in {} |-> 0]
Simple == (Location(0, 0, 0) :> Bridge(FALSE, 1)) @@ (Location(0, 1, 0) :> Device(FALSE))
          @@ (Location(1, 0, 0) :> Device(FALSE))

Attached == {"none", "sata", "satapi", "other"}

A(handoff, sam, s64, disks) ==
  [handoff |-> handoff, sam |-> sam, s64 |-> s64, disks |-> disks]

One == {A(h, FALSE, TRUE, [p \in {0, 1} |-> IF p = 0 THEN "none" ELSE d]) :
          h \in BOOLEAN, d \in Attached}
       \cup {A(TRUE, TRUE, TRUE, [p \in {1} |-> "sata"]),
             A(TRUE, TRUE, FALSE, [p \in {0} |-> "sata"]),
             A(FALSE, FALSE, TRUE, [p \in {0, 1} |-> IF p = 0 THEN "satapi" ELSE "sata"])}
Two == {(Location(1, 0, 0) :> A(FALSE, TRUE, s, [p \in {1} |-> "satapi"]))
          @@ (Location(0, 1, 0) :> A(TRUE, FALSE, TRUE, [p \in {0} |-> "sata"])) : s \in BOOLEAN}

AMachine(masked, mallocs, buses, controllers) ==
  [masked |-> masked, room |-> mallocs, topology |-> buses, adapters |-> controllers]

MCMachines ==
  {AMachine(m, r, Simple, Nowhere) :
     m \in {{}, {0, 2, 7}, Lines}, r \in 0 .. Exceptions}
  \cup {AMachine({0, 2, 7}, Exceptions, t, Nowhere) : t \in Topologies}
  \cup {AMachine({0}, Exceptions, Simple, Location(0, 1, 0) :> c) : c \in One}
  \cup {AMachine({0}, Exceptions, Simple, cs) : cs \in Two}
=============================================================================
