------------------------------ MODULE EnableA20 ------------------------------
(***************************************************************************)
(* boot/second_stage.asm, enable_A20: the loader looks for the wraparound of *)
(* addresses at 1 MiB and, as long as there is one, asks the BIOS, the       *)
(* keyboard controller and port 0x92 in turn to enable the A20 line.        *)
(*                                                                         *)
(* The line comes up some time after it was asked for; time is counted in    *)
(* checks.  Without the line the word at FFFF:7E0E is the boot signature at   *)
(* 0000:7DFE; with it, it is another word of memory, which may hold the same  *)
(* value (`alike`).                                                         *)
(*                                                                         *)
(* The keyboard controller takes one command or byte at a time from its input *)
(* buffer, and answers in its output buffer, where a key may be waiting.      *)
(***************************************************************************)
EXTENDS Integers, Sequences

CONSTANTS
  A20Timeout,   \* checks after each attempt (2097152)
  Never         \* more checks than the loader ever makes

ASSUME A20Assumption ==
  /\ A20Timeout \in Nat \ {0}
  /\ Never \in Nat /\ Never > 3 * A20Timeout + 1

\* How a machine behaves: whether the line is on at reset, the checks that each of
\* the three methods takes to raise it, whether bit 1 of port 0x92 is set at reset,
\* whether there is a keyboard controller, and what its output buffer holds when the
\* loader turns to it: nothing or the scan code of a key, whose bit 0 is set or not.
Keys == {"odd key", "even key"}
A20Hardware ==
  [on : BOOLEAN, delay : [1 .. 3 -> 0 .. Never], fastSet : BOOLEAN, alike : BOOLEAN,
   controller : BOOLEAN, waiting : {"nothing"} \cup Keys]

VARIABLES
  a20,        \* the machine's A20 hardware
  a20pc,      \* "check", "enabled", "failed", "reset", or the handshake's next access
  due,        \* checks until the line is on; 0 when it is, Never if nobody asked
  tried,      \* cx: the methods tried so far
  checks,     \* edx: the checks since the last attempt
  inbuf,      \* what the controller has to take
  outbuf,     \* what the driver can take
  al          \* what it took

kbdvars == <<inbuf, outbuf, al>>
a20vars == <<a20, a20pc, due, tried, checks, kbdvars>>

line == due = 0

\* The timeout has expired before the first check: one check, then the BIOS.
A20Init(hardware) ==
  /\ a20 = hardware
  /\ a20pc = "check"
  /\ due = IF hardware.on THEN 0 ELSE Never
  /\ tried = 0
  /\ checks = A20Timeout - 1
  /\ inbuf = "nothing"
  /\ outbuf = hardware.waiting
  /\ al = "nothing"

Wraparound == ~ line \/ a20.alike

\* Time passes: one check less until the line is on.
Elapsed(d) == IF d = 0 \/ d = Never THEN d ELSE d - 1

Sooner(d, e) == IF d < e THEN d ELSE e

SeeEnabled ==
  /\ a20pc = "check"
  /\ ~ Wraparound
  /\ a20pc' = "enabled"
  /\ UNCHANGED <<a20, due, tried, checks, kbdvars>>

CheckAgain ==
  /\ a20pc = "check"
  /\ Wraparound
  /\ checks + 1 < A20Timeout
  /\ checks' = checks + 1
  /\ due' = Elapsed(due)
  /\ UNCHANGED <<a20, a20pc, tried, kbdvars>>

TimedOut == a20pc = "check" /\ Wraparound /\ checks + 1 = A20Timeout

\* The BIOS or port 0x92 is asked.  The port is left alone when its bit is set already.
AskFor(m) ==
  LET wait == IF m = 3 /\ a20.fastSet THEN Never ELSE a20.delay[m]
  IN  due' = Sooner(Elapsed(due), wait)

\* Mutant: the count of checks is not started anew.
TryNextMethodLate ==
  /\ TimedOut
  /\ tried \in {0, 2}
  /\ tried' = tried + 1
  /\ AskFor(tried + 1)
  /\ UNCHANGED <<a20, a20pc, checks, kbdvars>>

TryNextMethod ==
  /\ TimedOut
  /\ tried \in {0, 2}
  /\ tried' = tried + 1
  /\ AskFor(tried + 1)
  /\ checks' = 0
  /\ UNCHANGED <<a20, a20pc, kbdvars>>

\* The second method is a handshake with the keyboard controller, in this order.
Accesses == <<"disable", "ask", "take", "announce", "write", "enable", "finish">>

After(access) == Accesses[1 + CHOOSE i \in 1 .. 6 : Accesses[i] = access]

StartHandshake ==
  /\ TimedOut
  /\ tried = 1
  /\ a20pc' = Accesses[1]
  /\ due' = Elapsed(due)
  /\ checks' = 0
  /\ UNCHANGED <<a20, tried, kbdvars>>

\* .ps2_enable_wait_in.  Without a controller every bit of the status reads as set.
InputFree == a20.controller /\ inbuf = "nothing"

SendToController ==
  /\ a20pc \in {"disable", "ask", "announce", "write", "enable"}
  /\ InputFree
  /\ inbuf' = a20pc
  /\ a20pc' = After(a20pc)
  /\ UNCHANGED <<a20, due, tried, checks, outbuf, al>>

\* .ps2_enable_wait_out: whatever is in the output buffer is taken.
TakeFromController ==
  /\ a20pc = "take"
  /\ outbuf # "nothing"
  /\ al' = outbuf
  /\ outbuf' = "nothing"
  /\ a20pc' = After(a20pc)
  /\ UNCHANGED <<a20, due, tried, checks, inbuf>>

FinishHandshake ==
  /\ a20pc = "finish"
  /\ InputFree
  /\ tried' = 2
  /\ a20pc' = "check"
  /\ UNCHANGED <<a20, due, checks, kbdvars>>

\* The controller takes a command, or the byte for its output port: bit 1, which the
\* loader sets, is the A20 line, and without bit 0 the machine is reset.
ControllerTakes ==
  /\ inbuf # "nothing"
  /\ inbuf' = "nothing"
  /\ outbuf' = IF inbuf = "ask" THEN "port" ELSE outbuf
  /\ due' = IF inbuf = "write" THEN Sooner(due, a20.delay[2]) ELSE due
  /\ a20pc' = IF inbuf = "write" /\ al = "even key" THEN "reset" ELSE a20pc
  /\ UNCHANGED <<a20, tried, checks, al>>

GiveUpA20 ==
  /\ TimedOut
  /\ tried = 3
  /\ a20pc' = "failed"
  /\ UNCHANGED <<a20, due, tried, checks, kbdvars>>

A20Next ==
  \/ SeeEnabled \/ CheckAgain \/ TryNextMethod \/ GiveUpA20
  \/ StartHandshake \/ SendToController \/ TakeFromController \/ FinishHandshake
  \/ ControllerTakes

-----------------------------------------------------------------------------

\* enable_A20 goes on only with the line enabled, and gives up only when no method
\* raises the line within its timeout, or the word that is compared is alike.  It comes
\* to reset the machine only when the BIOS was too slow and the key that it took for
\* the value of the output port is one without bit 0.
TooSlow(m) == a20.delay[m] >= A20Timeout \/ (m = 3 /\ a20.fastSet)

A20Decided ==
  /\ a20pc = "enabled" => line
  /\ a20pc = "failed" => a20.alike \/ (~ a20.on /\ \A m \in 1 .. 3 : TooSlow(m))
  /\ a20pc = "reset" =>
       /\ a20.waiting = "even key"
       /\ a20.alike \/ (~ a20.on /\ TooSlow(1))
=============================================================================
