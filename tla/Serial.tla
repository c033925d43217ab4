------------------------------- MODULE Serial -------------------------------
(***************************************************************************)
(* kernel/core/serial.c and itoa of kernel/core/utils.c: the debug log.       *)
(*                                                                         *)
(* The kernel hands the log a sequence of characters and numbers (`todo`);    *)
(* debug, debug_hex and debug_dec turn numbers into characters and write       *)
(* each character to the UART once that can take it.  The UART sends on its    *)
(* own, while the kernel goes on.                                           *)
(***************************************************************************)
EXTENDS Integers, Sequences, FiniteSets, TLC, SequencesExt

CONSTANTS
  Word,       \* one more than the largest number (2^64)
  HexBuf,     \* the bytes of debug_hex's buffer (17)
  DecBuf      \* the bytes of debug_dec's buffer (21)

ASSUME SerialAssumption ==
  Word \in Nat \ {0} /\ HexBuf \in Nat \ {0} /\ DecBuf \in Nat \ {0}

\* An item of the log: a character, or a number with the base it is printed in.
Char(c) == [kind |-> "char", value |-> c, base |-> 0]
Number(n, b) == [kind |-> "number", value |-> n, base |-> b]
Nul == -1

VARIABLES
  uart,       \* the registers of the UART: divisor latch, line protocol
  holding,    \* the character it holds, or Nul
  sent,       \* what went over the line, with the line's settings at that time
  written,    \* how many of the writes of serial_init are done
  todo,       \* what debug still has to put out
  buf,        \* itoa's buffer, by offset
  number,     \* i of itoa
  low, high,  \* tmp_buf and buf of itoa, as offsets
  logpc,      \* "put", "digits" or "flip"
  logged      \* every item the kernel has handed to the log so far

serialvars == <<uart, holding, sent, written, todo, buf, number, low, high, logpc, logged>>

\* The writes of serial_init: register and byte.
SerialWrites ==
  << <<1, 0>>, <<3, 128>>, <<0, 1>>, <<1, 0>>, <<3, 3>>, <<2, 199>>, <<4, 3>> >>

\* The firmware leaves the divisor latch open or closed.
SerialInit ==
  /\ \E l \in {3, 131} : uart = [lcr |-> l, dll |-> 12, dlm |-> 0, ier |-> 1]
  /\ holding = Nul /\ sent = << >>
  /\ written = 0
  /\ todo = << >> /\ buf = << >> /\ number = 0 /\ low = 0 /\ high = 0
  /\ logpc = "put"
  /\ logged = << >>

LatchOpen == uart.lcr >= 128

\* What a write to a register changes.
After(register, byte) ==
  CASE register = 0 /\ LatchOpen -> [uart EXCEPT !.dll = byte]
    [] register = 1 /\ LatchOpen -> [uart EXCEPT !.dlm = byte]
    [] register = 1 /\ ~ LatchOpen -> [uart EXCEPT !.ier = byte]
    [] register = 3 -> [uart EXCEPT !.lcr = byte]
    [] OTHER -> uart

SerialReady == written = Len(SerialWrites)

Configure ==
  /\ ~ SerialReady
  /\ LET w == SerialWrites[written + 1] IN uart' = After(w[1], w[2])
  /\ written' = written + 1
  /\ UNCHANGED <<holding, sent, todo, buf, number, low, high, logpc, logged>>

\* debug(s) returns once everything is put out; the UART may still hold the last
\* character.
LogIdle == SerialReady /\ todo = << >>

\* The kernel hands over s.
Log(s) ==
  /\ todo' = todo \o s
  /\ logged' = logged \o s
  /\ UNCHANGED <<uart, holding, sent, written, buf, number, low, high, logpc>>

NextIs(kind) ==
  SerialReady /\ todo # << >> /\ logpc = "put" /\ todo[1].kind = kind

\* Mutant: the line is not waited for.
SendCharAtOnce ==
  /\ NextIs("char")
  /\ holding' = todo[1].value
  /\ todo' = Tail(todo)
  /\ UNCHANGED <<uart, sent, written, buf, number, low, high, logpc, logged>>

\* serial_put_char waits for the UART to be empty.
SendChar ==
  /\ NextIs("char")
  /\ holding = Nul
  /\ holding' = todo[1].value
  /\ todo' = Tail(todo)
  /\ UNCHANGED <<uart, sent, written, buf, number, low, high, logpc, logged>>

-----------------------------------------------------------------------------
(* itoa.                                                                   *)

\* Zero is put out as it is; the digits of any other number go behind a terminator,
\* the last one first.
StartNumber ==
  /\ NextIs("number")
  /\ IF todo[1].value = 0
       THEN buf' = [d \in 0 .. 1 |-> IF d = 0 THEN 0 ELSE Nul] /\ logpc' = "done"
       ELSE buf' = [d \in {0} |-> Nul] /\ logpc' = "digits"
  /\ number' = todo[1].value
  /\ low' = 0 /\ high' = 1
  /\ UNCHANGED <<uart, holding, sent, written, todo, logged>>

Digit ==
  /\ logpc = "digits"
  /\ LET next == number \div todo[1].base
     IN  /\ number' = next
         /\ buf' = [d \in DOMAIN buf \cup {high} |->
                     IF d = high THEN number - next * todo[1].base ELSE buf[d]]
         /\ logpc' = IF next = 0 THEN "flip" ELSE "digits"
  /\ high' = high + 1
  /\ UNCHANGED <<uart, holding, sent, written, todo, low, logged>>

\* The terminator is flipped with the digits.
Flip ==
  /\ logpc = "flip"
  /\ IF low < high
       THEN /\ high' = high - 1
            /\ low' = low + 1
            /\ buf' = [buf EXCEPT ![low] = buf[high - 1], ![high - 1] = buf[low]]
            /\ UNCHANGED logpc
       ELSE logpc' = "done" /\ UNCHANGED <<buf, low, high>>
  /\ UNCHANGED <<uart, holding, sent, written, todo, number, logged>>

\* The number's characters, up to the terminator, take its place.
Terminator == CHOOSE n \in DOMAIN buf : buf[n] = Nul /\ \A m \in 0 .. n - 1 : buf[m] # Nul

EndNumber ==
  /\ logpc = "done"
  /\ todo' = [i \in 1 .. Terminator |-> Char(buf[i - 1])] \o Tail(todo)
  /\ logpc' = "put"
  /\ buf' = << >> /\ low' = 0 /\ high' = 0
  /\ UNCHANGED <<uart, holding, sent, written, number, logged>>

SerialNext == Configure \/ SendChar \/ StartNumber \/ Digit \/ Flip \/ EndNumber

\* The UART sends the character it holds, with the settings of the time.
Transmit ==
  /\ holding # Nul
  /\ sent' = Append(sent, [char |-> holding, divisor |-> uart.dlm * 256 + uart.dll,
                           line |-> uart.lcr])
  /\ holding' = Nul
  /\ UNCHANGED <<uart, written, todo, buf, number, low, high, logpc, logged>>

-----------------------------------------------------------------------------
(* Properties.                                                             *)

\* The digits of n in base b, the first one first.
Digits(n, b) ==
  LET from[m \in 0 .. n] == IF m < b THEN <<m>> ELSE Append(from[m \div b], m % b)
  IN  from[n]

\* The buffers of debug_hex and debug_dec have room for the longest number and its
\* terminator.
BuffersLarge ==
  /\ Len(Digits(Word - 1, 16)) + 1 <= HexBuf
  /\ Len(Digits(Word - 1, 10)) + 1 <= DecBuf

\* The characters of an item, of some items, and of all that was logged.
Characters(item) ==
  IF item.kind = "char" THEN <<item.value>> ELSE Digits(item.value, item.base)

Says(items) == FlattenSeq([i \in DOMAIN items |-> Characters(items[i])])

Text == Says(logged)

\* "HaematiteOS kernel RS232 serial debug log @ 115200 baud": what is on the line is the
\* beginning of what was logged, no character lost, swapped or doubled, each sent at
\* 115200 baud in eight bits without parity; and itoa never leaves the buffer of its
\* caller.
LogSent ==
  /\ Len(sent) <= Len(Text)
  /\ \A i \in DOMAIN sent : sent[i] = [char |-> Text[i], divisor |-> 1, line |-> 3]
  /\ todo # << >> /\ buf # << >> =>
       DOMAIN buf \subseteq 0 .. (IF todo[1].base = 16 THEN HexBuf ELSE DecBuf) - 1
=============================================================================
