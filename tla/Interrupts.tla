----------------------------- MODULE Interrupts -----------------------------
(***************************************************************************)
(* kernel/core/interrupts.c: init_interrupts programs the interrupt           *)
(* controllers, lets interrupts in, and only then builds and loads the        *)
(* interrupt descriptor table.                                              *)
(*                                                                         *)
(* A device may raise its line at any time and an exception may occur at any  *)
(* time: what matters is which of them could be delivered, and to what gate.  *)
(***************************************************************************)
EXTENDS Integers, Sequences, FiniteSets

CONSTANTS
  Exceptions,   \* exception vectors (32)
  Vectors       \* entries of the table (256)

\* Both controllers' lines follow the exceptions, and a vector is left behind them.
ASSUME InterruptsAssumption ==
  Exceptions \in Nat \ {0} /\ Vectors \in Nat /\ Exceptions + 16 < Vectors

VARIABLES
  intpc,        \* the next step of init_interrupts
  outs,         \* how many of the writes of _program_pic are done
  pic,          \* the two controllers: next word they expect, first vector, mask
  interrupts,   \* the interrupt flag
  gates,        \* the table: what each gate leads to
  loaded,       \* does the processor use the table
  vector,       \* i of the two loops
  room          \* how many wrappers there is memory left for

intvars == <<intpc, outs, pic, interrupts, gates, loaded, vector, room>>

Lines == 0 .. 7

\* The loader turned interrupts off; the BIOS left some lines masked.
IntInit(masked, mallocs) ==
  /\ intpc = "program" /\ outs = 0
  /\ pic = [p \in 1 .. 2 |-> [word |-> 0, base |-> IF p = 1 THEN 8 ELSE 112, mask |-> masked]]
  /\ interrupts = FALSE
  /\ gates = << >> /\ loaded = FALSE
  /\ vector = 0
  /\ room = mallocs

\* Mutant: the lines are not masked once the controllers are set up.
PicWritesNoMask ==
  << <<1, "command", 17>>, <<2, "command", 17>>, <<1, "data", Exceptions>>,
     <<2, "data", Exceptions + 8>>, <<1, "data", 4>>, <<2, "data", 2>>,
     <<1, "data", 1>>, <<2, "data", 1>> >>

\* The writes of _program_pic: controller, port and byte.
PicWrites ==
  << <<1, "command", 17>>, <<2, "command", 17>>, <<1, "data", Exceptions>>,
     <<2, "data", Exceptions + 8>>, <<1, "data", 4>>, <<2, "data", 2>>,
     <<1, "data", 1>>, <<2, "data", 1>>, <<1, "data", 255>>, <<2, "data", 255>> >>

Bits(byte) == {i \in Lines : (byte \div 2^i) % 2 = 1}

\* What a write makes of a controller: the first initialisation word clears the mask,
\* three more follow, and after them data is the mask.
Programmed(p, where, byte) ==
  CASE where = "command" -> [p EXCEPT !.word = 2, !.mask = {}]
    [] where = "data" /\ p.word = 0 -> [p EXCEPT !.mask = Bits(byte)]
    [] where = "data" /\ p.word = 2 -> [p EXCEPT !.word = 3, !.base = byte]
    [] where = "data" /\ p.word = 3 -> [p EXCEPT !.word = 4]
    [] where = "data" /\ p.word = 4 -> [p EXCEPT !.word = 0]

ProgramPic ==
  /\ intpc = "program"
  /\ outs < Len(PicWrites)
  /\ LET w == PicWrites[outs + 1] IN pic' = [pic EXCEPT ![w[1]] = Programmed(@, w[2], w[3])]
  /\ outs' = outs + 1
  /\ UNCHANGED <<intpc, interrupts, gates, loaded, vector, room>>

\* irq_unmask(2): the line the second controller is connected to.
UnmaskCascade ==
  /\ intpc = "program"
  /\ outs = Len(PicWrites)
  /\ pic' = [pic EXCEPT ![1].mask = @ \ {2}]
  /\ intpc' = "enable"
  /\ UNCHANGED <<outs, interrupts, gates, loaded, vector, room>>

EnableIrqs ==
  /\ intpc = "enable"
  /\ interrupts' = TRUE
  /\ intpc' = "table"
  /\ UNCHANGED <<outs, pic, gates, loaded, vector, room>>

Unset == [kind |-> "unset", number |-> 0]

\* The result of malloc is not looked at: without memory the table is built at address 0,
\* over what the BIOS left there, and works as well.
MakeTable ==
  /\ intpc = "table"
  /\ gates' = [v \in 0 .. Vectors - 1 |-> Unset]
  /\ intpc' = "exceptions"
  /\ UNCHANGED <<outs, pic, interrupts, loaded, vector, room>>

Gate(kind, number) == gates' = [gates EXCEPT ![vector] = [kind |-> kind, number |-> number]]

\* A copy of the wrapper is made for each exception, with the exception's number in it.
AddException ==
  /\ intpc = "exceptions"
  /\ room > 0
  /\ Gate("exception", vector)
  /\ room' = room - 1
  /\ vector' = IF vector + 1 < Exceptions THEN vector + 1 ELSE Exceptions + 16
  /\ intpc' = IF vector + 1 < Exceptions THEN "exceptions" ELSE "others"
  /\ UNCHANGED <<outs, pic, interrupts, loaded>>

NoException ==
  /\ intpc = "exceptions"
  /\ room = 0
  /\ intpc' = "panic"
  /\ UNCHANGED <<outs, pic, interrupts, gates, loaded, vector, room>>

\* The lines of the controllers and the last vector get no gate.
AddUnhandled ==
  /\ intpc = "others"
  /\ vector < Vectors - 1
  /\ Gate("unhandled", 0)
  /\ vector' = vector + 1
  /\ UNCHANGED <<intpc, outs, pic, interrupts, loaded, room>>

SetIdt ==
  /\ intpc = "others"
  /\ vector = Vectors - 1
  /\ loaded' = TRUE
  /\ intpc' = "ready"
  /\ UNCHANGED <<outs, pic, interrupts, gates, vector, room>>

IntNext ==
  \/ ProgramPic \/ UnmaskCascade \/ EnableIrqs \/ MakeTable
  \/ AddException \/ NoException \/ AddUnhandled \/ SetIdt

-----------------------------------------------------------------------------
(* Properties.                                                             *)

\* The vectors that a device could interrupt the kernel with: those of the unmasked
\* lines, of the second controller only while it is let through by the first.
Deliverable ==
  {pic[1].base + l : l \in Lines \ (pic[1].mask \cup {2})} \cup
  (IF 2 \in pic[1].mask THEN {} ELSE {pic[2].base + l : l \in Lines \ pic[2].mask})

\* Interrupts are let in before there is a table, and the table has no gates for the
\* controllers' lines: no device can interrupt the kernel at a vector that has no gate.
\* When the table is used, every exception is reported under its own number.
NoStrayInterrupt ==
  /\ interrupts => \A v \in Deliverable : loaded /\ gates[v] # Unset
  /\ loaded => \A v \in 0 .. Exceptions - 1 : gates[v] = [kind |-> "exception", number |-> v]
=============================================================================
