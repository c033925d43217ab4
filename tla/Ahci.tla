-------------------------------- MODULE Ahci --------------------------------
(***************************************************************************)
(* kernel/disk/ahci.c: _ahci_init takes over every AHCI controller on the    *)
(* PCI list, sets up its ports and sends IDENTIFY to the first disk.         *)
(*                                                                         *)
(* The driver is one thread that talks to controllers through memory-mapped  *)
(* registers and polls them; the BIOS and the controllers act at any time     *)
(* between two of its accesses.  `pc` is the access the driver is about to     *)
(* make.                                                                    *)
(***************************************************************************)
EXTENDS PciEnumeration, FiniteSetsExt

CONSTANTS
  Ports,      \* port numbers of a controller (0 .. 31)
  Slots       \* command slots of a port (0 .. 31)

\* A controller: can it be handed over, does it only know AHCI mode, can it address
\* 64 bits, its ports with what is attached to each.
Controller ==
  [handoff : BOOLEAN, sam : BOOLEAN, s64 : BOOLEAN,
   disks : UNION {[P -> {"none", "sata", "satapi", "other"}] : P \in SUBSET Ports}]

ASSUME AhciAssumption ==
  /\ Ports \subseteq Nat /\ IsFiniteSet(Ports)
  /\ Slots \subseteq Nat /\ Slots # {}

VARIABLES
  adapters,   \* the AHCI controllers, by location
  pc,         \* the driver's next step
  item,       \* the place on the PCI list it is at
  port,       \* the port it is at
  slot,       \* the command slot it picked
  hba,        \* the generic host control registers of each controller
  regs,       \* the registers and command memory of each port
  disk_list   \* the disks registered: their number and where they are

ahcivars == <<adapters, pc, item, port, slot, hba, regs, disk_list>>

\* A port after a reset.  A base register points to nothing, to the BIOS's
\* structures or to the kernel's; `built` are the parts of the command that slot
\* 0 .. 31 of the kernel's list holds.  `link`: a reset of the link is asked for.
Idle == [st |-> FALSE, cr |-> FALSE, fre |-> FALSE, fr |-> FALSE, link |-> FALSE, irqs |-> FALSE,
         list |-> "none", fis |-> "none", active |-> {}, issue |-> {},
         built |-> [s \in Slots |-> {}]]

\* The BIOS may have left a port running.
Running == [Idle EXCEPT !.st = TRUE, !.cr = TRUE, !.fre = TRUE, !.fr = TRUE,
                        !.list = "bios", !.fis = "bios"]

AhciInit(m) ==
  /\ adapters = m
  /\ pc = "next"
  /\ item = 0
  /\ port = 0
  /\ slot = 0
  /\ hba = [c \in DOMAIN m |->       \* a BIOS that drives a controller turned DMA on
             [dma |-> m[c].handoff, bios |-> m[c].handoff, busy |-> FALSE, claimed |-> FALSE,
              reset |-> FALSE, ahci |-> m[c].sam, irqs |-> FALSE]]
  /\ regs \in [DOMAIN m -> {[p \in Ports |-> Idle], [p \in Ports |-> Running]}]
  /\ disk_list = << >>

\* The device the driver is at.
AtDevice == devices[item]

Here == regs[AtDevice][port]

Ctrl(field, value) == hba' = [hba EXCEPT ![AtDevice][field] = value]
Port(field, value) == regs' = [regs EXCEPT ![AtDevice][port][field] = value]

Goto(from, to) == pc = from /\ pc' = to

Keep == UNCHANGED <<adapters, item, port, slot, disk_list>>

-----------------------------------------------------------------------------
(* __init_controller.                                                      *)

\* The walk over the PCI list, to the next controller.
NextController ==
  /\ pc = "next"
  /\ LET left == {i \in DOMAIN devices : i > item /\ devices[i] \in DOMAIN adapters}
     IN  IF left # {}
           THEN item' = Min(left) /\ pc' = "command"
           ELSE pc' = "done" /\ UNCHANGED item
  /\ UNCHANGED <<adapters, port, slot, hba, regs, disk_list>>

\* The PCI command register: interrupts, DMA and memory accesses.
EnableDma ==
  /\ Goto("command", IF adapters[AtDevice].handoff THEN "claim" ELSE "reset")
  /\ Ctrl("dma", TRUE)
  /\ UNCHANGED regs /\ Keep

\* Mutant: the BIOS is not told.
ClaimSilently == Goto("claim", "owned") /\ UNCHANGED <<hba, regs>> /\ Keep

Claim == Goto("claim", "owned") /\ Ctrl("claimed", TRUE) /\ UNCHANGED regs /\ Keep

BiosDisowned ==
  /\ Goto("owned", "busy")
  /\ ~ hba[AtDevice].bios
  /\ UNCHANGED <<hba, regs>> /\ Keep

BiosStopped ==
  /\ Goto("busy", "reset")
  /\ ~ hba[AtDevice].busy
  /\ UNCHANGED <<hba, regs>> /\ Keep

Reset == Goto("reset", "resetting") /\ Ctrl("reset", TRUE) /\ UNCHANGED regs /\ Keep

\* Mutant: the end of the reset is not waited for.
ResetOverEarly == Goto("resetting", "mode") /\ UNCHANGED <<hba, regs>> /\ Keep

ResetOver ==
  /\ Goto("resetting", "mode")
  /\ ~ hba[AtDevice].reset
  /\ UNCHANGED <<hba, regs>> /\ Keep

EnableAhciMode ==
  /\ Goto("mode", "irqs")
  /\ Ctrl("ahci", TRUE)     \* written when sam does not say that it is on anyway
  /\ UNCHANGED regs /\ Keep

EnableHbaIrqs ==
  /\ Goto("irqs", IF adapters[AtDevice].s64 THEN "ports" ELSE "next")
  /\ Ctrl("irqs", TRUE)
  /\ port' = 0
  /\ UNCHANGED <<adapters, item, slot, regs, disk_list>>

-----------------------------------------------------------------------------
(* __setup_ports and __init_port: every implemented port.                  *)

Implemented == DOMAIN adapters[AtDevice].disks

\* The next implemented port, from `port` on.
PickPort ==
  /\ pc = "ports"
  /\ LET left == {p \in Implemented : p >= port}
     IN  IF left # {}
           THEN port' = Min(left) /\ pc' = "stop"
           ELSE pc' = "next" /\ UNCHANGED port
  /\ UNCHANGED <<adapters, item, slot, hba, regs, disk_list>>

\* The loop goes on behind this port.
LeavePort(from) ==
  /\ Goto(from, "ports")
  /\ port' = port + 1
  /\ UNCHANGED <<adapters, item, slot, hba, regs, disk_list>>

StopCommands == Goto("stop", "stopping") /\ Port("st", FALSE) /\ UNCHANGED hba /\ Keep

CommandsStopped ==
  /\ Goto("stopping", "stop fis")
  /\ ~ Here.cr
  /\ UNCHANGED <<hba, regs>> /\ Keep

StopFis == Goto("stop fis", "stopping fis") /\ Port("fre", FALSE) /\ UNCHANGED hba /\ Keep

FisStopped ==
  /\ Goto("stopping fis", "fis base")
  /\ ~ Here.fr
  /\ UNCHANGED <<hba, regs>> /\ Keep

\* The kernel's structures, all zero but for the tables' addresses.
SetFisBase == Goto("fis base", "list base") /\ Port("fis", "kernel") /\ UNCHANGED hba /\ Keep
SetListBase == Goto("list base", "reset link") /\ Port("list", "kernel") /\ UNCHANGED hba /\ Keep

\* The reset of the port's link is asked for and never ended.
ResetLink == Goto("reset link", "start fis") /\ Port("link", TRUE) /\ UNCHANGED hba /\ Keep
StartFis == Goto("start fis", "starting fis") /\ Port("fre", TRUE) /\ UNCHANGED hba /\ Keep

FisStarted ==
  /\ Goto("starting fis", "start")
  /\ Here.fr
  /\ UNCHANGED <<hba, regs>> /\ Keep

StartCommands == Goto("start", "starting") /\ Port("st", TRUE) /\ UNCHANGED hba /\ Keep

CommandsStarted ==
  /\ Goto("starting", "port irqs")
  /\ Here.cr
  /\ UNCHANGED <<hba, regs>> /\ Keep

EnablePortIrqs == Goto("port irqs", "detect") /\ Port("irqs", TRUE) /\ UNCHANGED hba /\ Keep

Disk == adapters[AtDevice].disks[port]

\* Nothing is attached, or what is attached has not come up again yet: what hardware
\* makes of the reset that goes on is left open.
NotDetected == LeavePort("detect")

Detected ==
  /\ Goto("detect", "register")
  /\ Disk # "none"
  /\ UNCHANGED <<hba, regs>> /\ Keep

-----------------------------------------------------------------------------
(* __register_ahci_disk and __send_cmd.                                    *)

IgnoreSatapi == LeavePort("register") /\ Disk = "satapi"

PanicOnOther ==
  /\ Goto("register", "panic")
  /\ Disk = "other"
  /\ UNCHANGED <<hba, regs>> /\ Keep

\* _make_disk: the number grows with each disk that is passed behind the first one.
NextId == IF disk_list = << >> THEN 0 ELSE Len(disk_list) - 1

Register ==
  /\ Goto("register", "pick slot")
  /\ Disk = "sata"
  /\ disk_list' = Append(disk_list, [id |-> NextId, device |-> AtDevice, port |-> port])
  /\ UNCHANGED <<adapters, item, port, slot, hba, regs>>

Free(p) == Slots \ (p.active \cup p.issue)

\* A slot that is in use in neither register.  There is one: the controller was reset,
\* and each port gets one command at most.
PickSlot ==
  /\ Goto("pick slot", "header")
  /\ Free(Here) # {}
  /\ slot' = Min(Free(Here))
  /\ UNCHANGED <<adapters, item, port, hba, regs, disk_list>>

\* Mutant: the command is issued with its header only.
BuildEarly(from, to, part) ==
  /\ Goto(from, IF to = "table" THEN "active" ELSE to)
  /\ regs' = [regs EXCEPT ![AtDevice][port].built[slot] = @ \cup {part}]
  /\ UNCHANGED hba /\ Keep

\* A part of the command is written to memory.
Build(from, to, part) ==
  /\ Goto(from, to)
  /\ regs' = [regs EXCEPT ![AtDevice][port].built[slot] = @ \cup {part}]
  /\ UNCHANGED hba /\ Keep

BuildHeader == Build("header", "table", "header")
BuildTable == Build("table", "prdt", "table")
BuildPrdt == Build("prdt", "active", "prdt")

SetActive ==
  /\ Goto("active", "issue")
  /\ Port("active", Here.active \cup {slot})
  /\ UNCHANGED hba /\ Keep

\* Then the driver waits, for good.
Issue ==
  /\ Goto("issue", "wait")
  /\ Port("issue", Here.issue \cup {slot})
  /\ UNCHANGED hba /\ Keep

Driver ==
  \/ NextController \/ EnableDma \/ Claim \/ BiosDisowned \/ BiosStopped \/ Reset \/ ResetOver
  \/ EnableAhciMode \/ EnableHbaIrqs \/ PickPort
  \/ StopCommands \/ CommandsStopped \/ StopFis \/ FisStopped
  \/ SetFisBase \/ SetListBase \/ ResetLink \/ StartFis \/ FisStarted
  \/ StartCommands \/ CommandsStarted \/ EnablePortIrqs \/ NotDetected \/ Detected
  \/ IgnoreSatapi \/ PanicOnOther \/ Register \/ PickSlot
  \/ BuildHeader \/ BuildTable \/ BuildPrdt \/ SetActive \/ Issue

-----------------------------------------------------------------------------
(* The BIOS and the controllers.                                           *)

Controllers == DOMAIN adapters

\* The BIOS sets a port up for itself, while it owns the controller or is not done.
BiosUses(c, p) ==
  /\ hba[c].bios \/ hba[c].busy
  /\ regs[c][p] # Running
  /\ regs' = [regs EXCEPT ![c][p] = Running]
  /\ UNCHANGED <<adapters, pc, item, port, slot, hba, disk_list>>

\* It gives up ownership once it is asked to, at once or with work left to finish.
BiosLetsGo(c) ==
  /\ hba[c].bios /\ hba[c].claimed
  /\ \E b \in BOOLEAN : hba' = [hba EXCEPT ![c].bios = FALSE, ![c].busy = b]
  /\ UNCHANGED <<adapters, pc, item, port, slot, regs, disk_list>>

BiosFinishes(c) ==
  /\ ~ hba[c].bios /\ hba[c].busy
  /\ hba' = [hba EXCEPT ![c].busy = FALSE]
  /\ UNCHANGED <<adapters, pc, item, port, slot, regs, disk_list>>

ResetDone(c) ==
  /\ hba[c].reset
  /\ hba' = [hba EXCEPT ![c].reset = FALSE, ![c].ahci = adapters[c].sam, ![c].irqs = FALSE]
  /\ regs' = [regs EXCEPT ![c] = [p \in Ports |-> Idle]]
  /\ UNCHANGED <<adapters, pc, item, port, slot, disk_list>>

\* The engines of a port start and stop some time after they are told to.
CommandEngine(c, p) ==
  /\ regs[c][p].cr # regs[c][p].st
  /\ regs' = [regs EXCEPT ![c][p].cr = regs[c][p].st]
  /\ UNCHANGED <<adapters, pc, item, port, slot, hba, disk_list>>

FisEngine(c, p) ==
  /\ regs[c][p].fr # regs[c][p].fre
  /\ regs' = [regs EXCEPT ![c][p].fr = regs[c][p].fre]
  /\ UNCHANGED <<adapters, pc, item, port, slot, hba, disk_list>>

\* An issued command is carried out.  Its bit in sata_active stays, as only commands
\* that are queued in the disk clear it.
Complete(c, p, s) ==
  /\ regs[c][p].cr /\ s \in regs[c][p].issue
  /\ regs' = [regs EXCEPT ![c][p].issue = @ \ {s}]
  /\ UNCHANGED <<adapters, pc, item, port, slot, hba, disk_list>>

Controls(c) ==
  \/ BiosLetsGo(c) \/ BiosFinishes(c) \/ ResetDone(c)
  \/ \E p \in Ports : CommandEngine(c, p) \/ FisEngine(c, p)
  \/ \E p \in Ports, s \in Slots : Complete(c, p, s)

Environment == \E c \in Controllers : Controls(c) \/ \E p \in Ports : BiosUses(c, p)

-----------------------------------------------------------------------------
(* Properties.                                                             *)

\* The base registers of a port are written when no one else uses the controller,
\* its reset is over and both of the port's engines stand still; and once they point to
\* the kernel's structures nothing takes them back.
Quiet(c, p) ==
  /\ ~ hba[c].bios /\ ~ hba[c].busy /\ ~ hba[c].reset
  /\ ~ regs[c][p].cr /\ ~ regs[c][p].fr

BasesStable ==
  [][\A c \in Controllers, p \in Ports :
       LET old == regs[c][p]
           new == regs'[c][p]
       IN  /\ old.list # "kernel" /\ new.list = "kernel" => Quiet(c, p)
           /\ old.fis # "kernel" /\ new.fis = "kernel" => Quiet(c, p)
           /\ old.list = "kernel" => new.list = "kernel"
           /\ old.fis = "kernel" => new.fis = "kernel"]_ahcivars

\* Whenever a controller may take a command, it may access memory, is in AHCI mode, has
\* the kernel's structures and a place for the answer, and finds the command complete.
CommandComplete ==
  \A c \in Controllers, p \in Ports :
    \A s \in regs[c][p].issue :
      regs[c][p].cr =>
        /\ hba[c].dma /\ hba[c].ahci
        /\ regs[c][p].list = "kernel" /\ regs[c][p].fis = "kernel" /\ regs[c][p].fr
        /\ regs[c][p].built[s] = {"header", "table", "prdt"}
=============================================================================
