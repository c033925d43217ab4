------------------------------ MODULE Drivers ------------------------------
(***************************************************************************)
(* The end of kmain in kernel/core/kernel.c: init_interrupts, init_pci and   *)
(* init_disk, one after the other.  At this commit an endless loop in front   *)
(* of these calls keeps the kernel from making them.                         *)
(*                                                                         *)
(* The list of devices that PciEnumeration builds is the one Ahci goes        *)
(* through, while the BIOS, the controllers and interrupts act on their own.  *)
(* The log is left out.                                                     *)
(***************************************************************************)
EXTENDS Interrupts, Ahci

CONSTANT Machines

\* A machine: the lines the BIOS masked, the wrappers there is memory for, what the PCI
\* configuration space answers, and which of its devices are AHCI controllers (class 1,
\* subclass 6).
ASSUME MachineAssumption ==
  \A m \in Machines :
    /\ SoundTopology(m.topology)
    /\ \A l \in DOMAIN m.adapters :
         /\ l \in DOMAIN m.topology /\ m.topology[l].kind = "device"
         /\ m.adapters[l] \in Controller

VARIABLE stage      \* "interrupts", "pci", "disk", "end" or "panic"

vars == <<stage, intvars, pcivars, ahcivars>>

Init ==
  \E m \in Machines :
    /\ stage = "interrupts"
    /\ IntInit(m.masked, m.room)
    /\ PciInit(m.topology)
    /\ AhciInit(m.adapters)

InterruptsStep ==
  /\ stage = "interrupts"
  /\ IntNext
  /\ stage' = CASE intpc' = "ready" -> "pci" [] intpc' = "panic" -> "panic"
                [] OTHER -> "interrupts"
  /\ UNCHANGED <<pcivars, ahcivars>>

PciStep ==
  /\ stage = "pci"
  /\ PciNext
  /\ stage' = IF stack' = << >> THEN "disk" ELSE "pci"
  /\ UNCHANGED <<intvars, ahcivars>>

\* Behind init_disk the kernel panics: "System halted".
DiskStep ==
  /\ stage = "disk"
  /\ Driver
  /\ stage' = CASE pc' = "done" -> "end" [] pc' = "panic" -> "panic" [] OTHER -> "disk"
  /\ UNCHANGED <<intvars, pcivars>>

Kmain == InterruptsStep \/ PciStep \/ DiskStep

Around(A) == A /\ UNCHANGED <<stage, intvars, pcivars>>

Hardware == Around(Environment)

Next == Kmain \/ Hardware

\* The kernel runs on; the BIOS and the controllers do what they are asked for in the
\* end, which the driver, that waits without a timeout, relies on.
Positions == UNION {DOMAIN m.adapters : m \in Machines}

Fairness ==
  /\ WF_vars(Kmain)
  /\ \A c \in Positions :
       /\ WF_vars(Around(c \in Controllers /\ (BiosLetsGo(c) \/ BiosFinishes(c))))
       /\ WF_vars(Around(c \in Controllers /\ ResetDone(c)))
  /\ \A c \in Positions, p \in Ports :
       /\ WF_vars(Around(c \in Controllers /\ CommandEngine(c, p)))
       /\ WF_vars(Around(c \in Controllers /\ FisEngine(c, p)))
  /\ \A c \in Positions, p \in Ports, s \in Slots :
       WF_vars(Around(c \in Controllers /\ Complete(c, p, s)))

Spec == Init /\ [][Next]_vars /\ Fairness

-----------------------------------------------------------------------------
(* Properties.                                                             *)

\* The walk over the buses ends, however they are nested, and the drivers then find
\* every device.
EnumeratesAll == stage = "pci" ~> stack = << >> /\ Range(devices) = AllDevices

\* None of the driver's polling loops turns for ever: it gets through all controllers,
\* or to the wait for the first disk's answer, which comes.
InitEnds ==
  /\ stage = "disk" ~> pc \in {"done", "panic", "wait"}
  /\ pc = "wait" ~> pc = "wait" /\ Here.issue = {}
=============================================================================
