---------------------------- MODULE DriversProofs ----------------------------
(***************************************************************************)
(* Proofs about Drivers: for every table of interrupts, every tree of buses    *)
(* and every set of AHCI controllers, what the BIOS and the controllers do      *)
(* between two accesses of the driver never hurts it.                         *)
(***************************************************************************)
EXTENDS Drivers, NaturalsFacts, SequenceTheorems, FunctionTheorems, FiniteSetTheorems

-----------------------------------------------------------------------------
(* The interrupt controllers and the table.                                *)

\* The word a controller expects when n of the writes are done; the second one is a write
\* behind the first.
Expects(n) == IF n < 1 THEN 0 ELSE IF n < 3 THEN 2 ELSE IF n < 5 THEN 3 ELSE IF n < 7 THEN 4 ELSE 0

Expecting(n) == pic[1].word = Expects(n) /\ pic[2].word = Expects(n - 1)

Shaped(p) == p = [word |-> p.word, base |-> p.base, mask |-> p.mask]

\* Both controllers are masked at the end of the writes, but for the line between them.
PicInv ==
  /\ outs \in 0 .. 10
  /\ DOMAIN pic = 1 .. 2
  /\ Shaped(pic[1]) /\ Shaped(pic[2]) /\ Expecting(outs)
  /\ outs >= 9 => Lines \ {2} \subseteq pic[1].mask
  /\ outs = 10 => Lines \subseteq pic[2].mask

\* Interrupts are let in behind the last write; the gates below the one the loop is at
\* are those of the exceptions.
GateInv ==
  /\ intpc \in {"program", "enable", "table", "exceptions", "others", "ready", "panic"}
  /\ intpc # "program" => outs = 10
  /\ interrupts => intpc \notin {"program", "enable"}
  /\ loaded => intpc = "ready"
  /\ intpc \in {"program", "enable", "table"} => vector = 0
  /\ intpc \in {"exceptions", "others", "ready"} => DOMAIN gates = 0 .. Vectors - 1
  /\ intpc = "exceptions" =>
       /\ vector \in 0 .. Exceptions - 1
       /\ \A v \in 0 .. vector - 1 : gates[v] = [kind |-> "exception", number |-> v]
  /\ intpc \in {"others", "ready"} =>
       /\ vector \in Exceptions + 16 .. Vectors - 1
       /\ \A v \in 0 .. Exceptions - 1 : gates[v] = [kind |-> "exception", number |-> v]

IntInv == PicInv /\ GateInv

\* The byte 255 masks all lines.
LEMMA AllBits == Bits(255) = Lines
<1>1. /\ 2^0 = 1 /\ 2^1 = 2 /\ 2^2 = 4 /\ 2^3 = 8 /\ 2^4 = 16 /\ 2^5 = 32 /\ 2^6 = 64 /\ 2^7 = 128
  OBVIOUS
<1>2. /\ (255 \div 1) % 2 = 1 /\ (255 \div 2) % 2 = 1 /\ (255 \div 4) % 2 = 1 /\ (255 \div 8) % 2 = 1
      /\ (255 \div 16) % 2 = 1 /\ (255 \div 32) % 2 = 1 /\ (255 \div 64) % 2 = 1 /\ (255 \div 128) % 2 = 1
  OBVIOUS
<1>3. ASSUME NEW i \in Lines
      PROVE  (255 \div 2^i) % 2 = 1
  <2>1. CASE i = 0
    BY <2>1, <1>1, <1>2
  <2>2. CASE i = 1
    BY <2>2, <1>1, <1>2
  <2>3. CASE i = 2
    BY <2>3, <1>1, <1>2
  <2>4. CASE i = 3
    BY <2>4, <1>1, <1>2
  <2>5. CASE i = 4
    BY <2>5, <1>1, <1>2
  <2>6. CASE i = 5
    BY <2>6, <1>1, <1>2
  <2>7. CASE i = 6
    BY <2>7, <1>1, <1>2
  <2>8. CASE i = 7
    BY <2>8, <1>1, <1>2
  <2> QED
    BY <2>1, <2>2, <2>3, <2>4, <2>5, <2>6, <2>7, <2>8 DEF Lines
<1> QED
  BY <1>3 DEF Bits

\* The writes of _program_pic, one by one.
LEMMA PicWritesAre ==
  /\ Len(PicWrites) = 10
  /\ PicWrites[1] = <<1, "command", 17>> /\ PicWrites[2] = <<2, "command", 17>>
  /\ PicWrites[3] = <<1, "data", Exceptions>> /\ PicWrites[4] = <<2, "data", Exceptions + 8>>
  /\ PicWrites[5] = <<1, "data", 4>> /\ PicWrites[6] = <<2, "data", 2>>
  /\ PicWrites[7] = <<1, "data", 1>> /\ PicWrites[8] = <<2, "data", 1>>
  /\ PicWrites[9] = <<1, "data", 255>> /\ PicWrites[10] = <<2, "data", 255>>
BY DEF PicWrites

\* Whatever lines the BIOS masked.
LEMMA IntInitInv == ASSUME NEW masked, NEW mallocs, IntInit(masked, mallocs) PROVE IntInv
BY DEF IntInit, IntInv, PicInv, GateInv, Expects, Expecting, Shaped

\* A controller's record with one field changed.
LEMMA OneField ==
  ASSUME NEW p, NEW w, NEW b, NEW k, p = [word |-> w, base |-> b, mask |-> k], NEW x
  PROVE  /\ [p EXCEPT !.word = x] = [word |-> x, base |-> b, mask |-> k]
         /\ [p EXCEPT !.base = x] = [word |-> w, base |-> x, mask |-> k]
         /\ [p EXCEPT !.mask = x] = [word |-> w, base |-> b, mask |-> x]
OBVIOUS

\* What a write makes of a controller, by the word the controller expects.
LEMMA ProgrammedIs ==
  ASSUME NEW p, Shaped(p), NEW byte
  PROVE  /\ Programmed(p, "command", byte) = [word |-> 2, base |-> p.base, mask |-> {}]
         /\ p.word = 0 => Programmed(p, "data", byte) = [word |-> 0, base |-> p.base, mask |-> Bits(byte)]
         /\ p.word = 2 => Programmed(p, "data", byte) = [word |-> 3, base |-> byte, mask |-> p.mask]
         /\ p.word = 3 => Programmed(p, "data", byte) = [word |-> 4, base |-> p.base, mask |-> p.mask]
         /\ p.word = 4 => Programmed(p, "data", byte) = [word |-> 0, base |-> p.base, mask |-> p.mask]
<1> DEFINE w == p.word
           b == p.base
           k == p.mask
<1>2. p = [word |-> w, base |-> b, mask |-> k]
  BY DEF Shaped
<1> HIDE DEF w, b, k
<1>b. w = p.word /\ b = p.base /\ k = p.mask
  BY DEF w, b, k
<1>a. /\ [p EXCEPT !.mask = Bits(byte)] = [word |-> w, base |-> b, mask |-> Bits(byte)]
      /\ [p EXCEPT !.word = 4] = [word |-> 4, base |-> b, mask |-> k]
      /\ [p EXCEPT !.word = 0] = [word |-> 0, base |-> b, mask |-> k]
  BY <1>2
<1>c. [p EXCEPT !.word = 2, !.mask = {}] = [word |-> 2, base |-> b, mask |-> {}]
  <2>1. PICK q : q = [p EXCEPT !.word = 2]
    OBVIOUS
  <2>2. q = [word |-> 2, base |-> b, mask |-> k]
    BY <2>1, <1>2
  <2>3. PICK z : z = {}
    OBVIOUS
  <2>5. [q EXCEPT !.mask = z] = [word |-> 2, base |-> b, mask |-> z]
    BY <2>2, OneField
  <2>4. [p EXCEPT !.word = 2, !.mask = z] = [q EXCEPT !.mask = z]
    BY <2>1
  <2> QED
    BY <2>3, <2>4, <2>5
<1>d. [p EXCEPT !.word = 3, !.base = byte] = [word |-> 3, base |-> byte, mask |-> k]
  <2>1. PICK q : q = [p EXCEPT !.word = 3]
    OBVIOUS
  <2>2. q = [word |-> 3, base |-> b, mask |-> k]
    BY <2>1, <1>2
  <2>3. [q EXCEPT !.base = byte] = [word |-> 3, base |-> byte, mask |-> k]
    BY <2>2, OneField
  <2>4. [p EXCEPT !.word = 3, !.base = byte] = [q EXCEPT !.base = byte]
    BY <2>1
  <2> QED
    BY <2>3, <2>4
<1>1. /\ [p EXCEPT !.word = 2, !.mask = {}] = [word |-> 2, base |-> b, mask |-> {}]
      /\ [p EXCEPT !.mask = Bits(byte)] = [word |-> w, base |-> b, mask |-> Bits(byte)]
      /\ [p EXCEPT !.word = 3, !.base = byte] = [word |-> 3, base |-> byte, mask |-> k]
      /\ [p EXCEPT !.word = 4] = [word |-> 4, base |-> b, mask |-> k]
      /\ [p EXCEPT !.word = 0] = [word |-> 0, base |-> b, mask |-> k]
  BY <1>a, <1>c, <1>d
<1>3. Programmed(p, "command", byte) = [word |-> 2, base |-> p.base, mask |-> {}]
  BY <1>1, <1>b DEF Programmed
<1>4. p.word = 0 => Programmed(p, "data", byte) = [word |-> 0, base |-> p.base, mask |-> Bits(byte)]
  BY <1>1, <1>b DEF Programmed
<1>5. p.word = 2 => Programmed(p, "data", byte) = [word |-> 3, base |-> byte, mask |-> p.mask]
  BY <1>1, <1>b DEF Programmed
<1>6. p.word = 3 => Programmed(p, "data", byte) = [word |-> 4, base |-> p.base, mask |-> p.mask]
  BY <1>1, <1>b DEF Programmed
<1>7. p.word = 4 => Programmed(p, "data", byte) = [word |-> 0, base |-> p.base, mask |-> p.mask]
  BY <1>1, <1>b DEF Programmed
<1> QED
  BY <1>3, <1>4, <1>5, <1>6, <1>7

\* The controller that is written to takes the next word, the other one stays.
Writes(q, where, byte) ==
  /\ pic'[q] = Programmed(pic[q], where, byte)
  /\ \A p \in 1 .. 2 : p # q => pic'[p] = pic[p]

\* Each write of _program_pic leads to the next word of its controller.
LEMMA ProgramPicInv == ASSUME IntInv, ProgramPic PROVE IntInv'
<1>1. /\ intpc = "program" /\ outs \in 0 .. 9 /\ outs' = outs + 1 /\ intpc' = "program"
      /\ UNCHANGED <<interrupts, gates, loaded, vector>>
  BY PicWritesAre DEF IntInv, PicInv, ProgramPic
<1>2. PICK w : w = PicWrites[outs + 1] /\ pic' = [pic EXCEPT ![w[1]] = Programmed(@, w[2], w[3])]
  BY DEF ProgramPic
<1>3. /\ DOMAIN pic = 1 .. 2 /\ DOMAIN pic' = 1 .. 2
      /\ Shaped(pic[1]) /\ Shaped(pic[2]) /\ Expecting(outs)
  BY <1>2 DEF IntInv, PicInv
<1>4. w[1] \in 1 .. 2
  BY <1>1, <1>2, PicWritesAre
<1>5. Writes(w[1], w[2], w[3])
  BY <1>2, <1>3, <1>4 DEF Writes
<1>6. /\ Shaped(pic'[1]) /\ Shaped(pic'[2]) /\ Expecting(outs)'
      /\ outs' = 9 => pic'[1].mask = Lines
      /\ outs' = 10 => pic'[1].mask = pic[1].mask /\ pic'[2].mask = Lines
  <2>1. CASE outs = 0
    <3>1. /\ Writes(1, "command", 17) /\ outs' = 1
          /\ pic[1].word = 0 /\ pic[2].word = 0 /\ Shaped(pic[1]) /\ Shaped(pic[2])
      BY <2>1, <1>1, <1>2, <1>3, <1>5, PicWritesAre DEF Expects, Expecting
    <3>2. pic'[2] = pic[2]
      BY <3>1 DEF Writes
    <3>3. pic'[1] = [word |-> 2, base |-> pic[1].base, mask |-> {}]
      BY <3>1, ProgrammedIs DEF Writes
    <3> QED
      BY <3>1, <3>2, <3>3, AllBits DEF Shaped, Expects, Expecting
  <2>2. CASE outs = 1
    <3>1. /\ Writes(2, "command", 17) /\ outs' = 2
          /\ pic[1].word = 2 /\ pic[2].word = 0 /\ Shaped(pic[1]) /\ Shaped(pic[2])
      BY <2>2, <1>1, <1>2, <1>3, <1>5, PicWritesAre DEF Expects, Expecting
    <3>2. pic'[1] = pic[1]
      BY <3>1 DEF Writes
    <3>3. pic'[2] = [word |-> 2, base |-> pic[2].base, mask |-> {}]
      BY <3>1, ProgrammedIs DEF Writes
    <3> QED
      BY <3>1, <3>2, <3>3, AllBits DEF Shaped, Expects, Expecting
  <2>3. CASE outs = 2
    <3>1. /\ Writes(1, "data", Exceptions) /\ outs' = 3
          /\ pic[1].word = 2 /\ pic[2].word = 2 /\ Shaped(pic[1]) /\ Shaped(pic[2])
      BY <2>3, <1>1, <1>2, <1>3, <1>5, PicWritesAre DEF Expects, Expecting
    <3>2. pic'[2] = pic[2]
      BY <3>1 DEF Writes
    <3>3. pic'[1] = [word |-> 3, base |-> Exceptions, mask |-> pic[1].mask]
      BY <3>1, ProgrammedIs DEF Writes
    <3> QED
      BY <3>1, <3>2, <3>3, AllBits DEF Shaped, Expects, Expecting
  <2>4. CASE outs = 3
    <3>1. /\ Writes(2, "data", Exceptions + 8) /\ outs' = 4
          /\ pic[1].word = 3 /\ pic[2].word = 2 /\ Shaped(pic[1]) /\ Shaped(pic[2])
      BY <2>4, <1>1, <1>2, <1>3, <1>5, PicWritesAre DEF Expects, Expecting
    <3>2. pic'[1] = pic[1]
      BY <3>1 DEF Writes
    <3>3. pic'[2] = [word |-> 3, base |-> Exceptions + 8, mask |-> pic[2].mask]
      BY <3>1, ProgrammedIs DEF Writes
    <3> QED
      BY <3>1, <3>2, <3>3, AllBits DEF Shaped, Expects, Expecting
  <2>5. CASE outs = 4
    <3>1. /\ Writes(1, "data", 4) /\ outs' = 5
          /\ pic[1].word = 3 /\ pic[2].word = 3 /\ Shaped(pic[1]) /\ Shaped(pic[2])
      BY <2>5, <1>1, <1>2, <1>3, <1>5, PicWritesAre DEF Expects, Expecting
    <3>2. pic'[2] = pic[2]
      BY <3>1 DEF Writes
    <3>3. pic'[1] = [word |-> 4, base |-> pic[1].base, mask |-> pic[1].mask]
      BY <3>1, ProgrammedIs DEF Writes
    <3> QED
      BY <3>1, <3>2, <3>3, AllBits DEF Shaped, Expects, Expecting
  <2>6. CASE outs = 5
    <3>1. /\ Writes(2, "data", 2) /\ outs' = 6
          /\ pic[1].word = 4 /\ pic[2].word = 3 /\ Shaped(pic[1]) /\ Shaped(pic[2])
      BY <2>6, <1>1, <1>2, <1>3, <1>5, PicWritesAre DEF Expects, Expecting
    <3>2. pic'[1] = pic[1]
      BY <3>1 DEF Writes
    <3>3. pic'[2] = [word |-> 4, base |-> pic[2].base, mask |-> pic[2].mask]
      BY <3>1, ProgrammedIs DEF Writes
    <3> QED
      BY <3>1, <3>2, <3>3, AllBits DEF Shaped, Expects, Expecting
  <2>7. CASE outs = 6
    <3>1. /\ Writes(1, "data", 1) /\ outs' = 7
          /\ pic[1].word = 4 /\ pic[2].word = 4 /\ Shaped(pic[1]) /\ Shaped(pic[2])
      BY <2>7, <1>1, <1>2, <1>3, <1>5, PicWritesAre DEF Expects, Expecting
    <3>2. pic'[2] = pic[2]
      BY <3>1 DEF Writes
    <3>3. pic'[1] = [word |-> 0, base |-> pic[1].base, mask |-> pic[1].mask]
      BY <3>1, ProgrammedIs DEF Writes
    <3> QED
      BY <3>1, <3>2, <3>3, AllBits DEF Shaped, Expects, Expecting
  <2>8. CASE outs = 7
    <3>1. /\ Writes(2, "data", 1) /\ outs' = 8
          /\ pic[1].word = 0 /\ pic[2].word = 4 /\ Shaped(pic[1]) /\ Shaped(pic[2])
      BY <2>8, <1>1, <1>2, <1>3, <1>5, PicWritesAre DEF Expects, Expecting
    <3>2. pic'[1] = pic[1]
      BY <3>1 DEF Writes
    <3>3. pic'[2] = [word |-> 0, base |-> pic[2].base, mask |-> pic[2].mask]
      BY <3>1, ProgrammedIs DEF Writes
    <3> QED
      BY <3>1, <3>2, <3>3, AllBits DEF Shaped, Expects, Expecting
  <2>9. CASE outs = 8
    <3>1. /\ Writes(1, "data", 255) /\ outs' = 9
          /\ pic[1].word = 0 /\ pic[2].word = 0 /\ Shaped(pic[1]) /\ Shaped(pic[2])
      BY <2>9, <1>1, <1>2, <1>3, <1>5, PicWritesAre DEF Expects, Expecting
    <3>2. pic'[2] = pic[2]
      BY <3>1 DEF Writes
    <3>3. pic'[1] = [word |-> 0, base |-> pic[1].base, mask |-> Bits(255)]
      BY <3>1, ProgrammedIs DEF Writes
    <3> QED
      BY <3>1, <3>2, <3>3, AllBits DEF Shaped, Expects, Expecting
  <2>10. CASE outs = 9
    <3>1. /\ Writes(2, "data", 255) /\ outs' = 10
          /\ pic[1].word = 0 /\ pic[2].word = 0 /\ Shaped(pic[1]) /\ Shaped(pic[2])
      BY <2>10, <1>1, <1>2, <1>3, <1>5, PicWritesAre DEF Expects, Expecting
    <3>2. pic'[1] = pic[1]
      BY <3>1 DEF Writes
    <3>3. pic'[2] = [word |-> 0, base |-> pic[2].base, mask |-> Bits(255)]
      BY <3>1, ProgrammedIs DEF Writes
    <3> QED
      BY <3>1, <3>2, <3>3, AllBits DEF Shaped, Expects, Expecting
  <2> QED
    BY <1>1, <2>1, <2>2, <2>3, <2>4, <2>5, <2>6, <2>7, <2>8, <2>9, <2>10
<1>7. /\ outs' >= 9 => Lines \ {2} \subseteq pic'[1].mask
      /\ outs' = 10 => Lines \subseteq pic'[2].mask
  BY <1>1, <1>6 DEF IntInv, PicInv
<1>8. PicInv'
  BY <1>1, <1>3, <1>6, <1>7 DEF PicInv
<1>9. GateInv'
  BY <1>1 DEF IntInv, GateInv
<1> QED
  BY <1>8, <1>9 DEF IntInv

\* Every step of init_interrupts keeps the invariant.
LEMMA IntStepInv == ASSUME IntInv, IntNext PROVE IntInv'
<1>1. CASE ProgramPic
  BY <1>1, ProgramPicInv
<1>2. CASE UnmaskCascade
  <2>1. /\ outs = 10 /\ outs' = 10 /\ intpc' = "enable" /\ UNCHANGED <<interrupts, gates, loaded, vector>>
        /\ intpc = "program" /\ pic' = [pic EXCEPT ![1].mask = @ \ {2}]
    BY <1>2, PicWritesAre DEF UnmaskCascade
  <2>2. /\ DOMAIN pic = 1 .. 2 /\ Shaped(pic[1]) /\ Shaped(pic[2]) /\ Expecting(10)
        /\ Lines \ {2} \subseteq pic[1].mask /\ Lines \subseteq pic[2].mask
    BY <2>1 DEF IntInv, PicInv
  <2>3. /\ DOMAIN pic' = 1 .. 2 /\ pic'[2] = pic[2]
        /\ pic'[1] = [word |-> pic[1].word, base |-> pic[1].base, mask |-> pic[1].mask \ {2}]
    BY <2>1, <2>2 DEF Shaped
  <2>4. Shaped(pic'[1]) /\ Shaped(pic'[2]) /\ Expecting(10)'
    BY <2>2, <2>3 DEF Shaped, Expecting
  <2>5. PicInv'
    BY <2>1, <2>2, <2>3, <2>4 DEF PicInv
  <2> QED
    BY <2>1, <2>5 DEF IntInv, GateInv
<1>a. UNCHANGED <<outs, pic>> => PicInv'
  BY DEF IntInv, PicInv, Expecting, Shaped
<1>3. CASE EnableIrqs
  BY <1>3, <1>a DEF EnableIrqs, IntInv, GateInv
<1>4. CASE MakeTable
  BY <1>4, <1>a, InterruptsAssumption DEF MakeTable, IntInv, GateInv
<1>5. CASE AddException
  BY <1>5, <1>a, InterruptsAssumption DEF AddException, Gate, IntInv, GateInv
<1>6. CASE NoException
  BY <1>6, <1>a DEF NoException, IntInv, GateInv
<1>7. CASE AddUnhandled
  BY <1>7, <1>a, InterruptsAssumption DEF AddUnhandled, Gate, IntInv, GateInv
<1>8. CASE SetIdt
  BY <1>8, <1>a, InterruptsAssumption DEF SetIdt, IntInv, GateInv
<1> QED
  BY <1>1, <1>2, <1>3, <1>4, <1>5, <1>6, <1>7, <1>8 DEF IntNext

\* All lines are masked but the one no device is on.
LEMMA IntInvStray == ASSUME IntInv PROVE NoStrayInterrupt
<1>1. ASSUME interrupts
      PROVE  Deliverable = {}
  BY <1>1 DEF IntInv, PicInv, GateInv, Deliverable
<1> QED
  BY <1>1 DEF IntInv, GateInv, NoStrayInterrupt

-----------------------------------------------------------------------------
(* The walk over the buses.                                                *)

Frames == [bus : Nat, slot : 0 .. BusSlots, function : 0 .. Functions - 1, many : BOOLEAN]
Locations == [bus : Nat, slot : 0 .. BusSlots - 1, function : 0 .. Functions - 1]

\* The walk over the frame's bus has passed the location.
Passed(f, l) == l.slot < f.slot \/ (l.slot = f.slot /\ l.function < f.function)

\* The function loop runs where function 0 is there and says that there are more; the slot
\* loop is at function 0.
Rightly(f) ==
  LET zero == Location(f.bus, f.slot, 0)
  IN  IF f.many THEN At(zero).kind # "none" /\ At(zero).multi ELSE f.function = 0

StackInv ==
  /\ SoundTopology(topology)
  /\ stack \in Seq(Frames)
  /\ \A i \in 1 .. Len(stack) : Rightly(stack[i])
  /\ \A i, j \in 1 .. Len(stack) : i < j => stack[i].bus < stack[j].bus

\* A device or a bridge that was found on one of the buses in E: where the walk over that
\* bus goes on, it has passed it.
Met(E, l) ==
  /\ l \in Locations /\ l \in DOMAIN topology /\ Shown(l) /\ l.bus \in E
  /\ \A i \in 1 .. Len(stack) : stack[i].bus = l.bus => Passed(stack[i], l)

MetDevices(E) ==
  /\ devices \in Seq(Locations)
  /\ \A i \in 1 .. Len(devices) : Met(E, devices[i]) /\ topology[devices[i]].kind = "device"
  /\ \A i, j \in 1 .. Len(devices) : devices[i] = devices[j] => i = j

\* The buses entered so far, bus 0 and others behind a bridge each.
MetBuses(E) ==
  /\ E \subseteq Buses /\ 0 \in E
  /\ \A i \in 1 .. Len(stack) : stack[i].bus \in E
  /\ \A b \in E \ {0} : \E k \in Bridges(topology) : topology[k].secondary = b /\ Met(E, k)

WalkInv == StackInv /\ \E E \in SUBSET Buses : MetDevices(E) /\ MetBuses(E)

\* A bus has at most one frame.
LEMMA OneFrame ==
  ASSUME StackInv, NEW i \in 1 .. Len(stack), NEW j \in 1 .. Len(stack),
         stack[i].bus = stack[j].bus
  PROVE  i = j
<1>1. Len(stack) \in Nat
  BY LenProperties DEF StackInv
<1>2. \A k \in 1 .. Len(stack) : stack[k] \in Frames
  BY ElementOfSeq DEF StackInv
<1>3. stack[i].bus \in Nat /\ stack[j].bus \in Nat
  BY <1>2 DEF Frames
<1>4. i < j => stack[i].bus < stack[j].bus
  BY DEF StackInv
<1>5. j < i => stack[j].bus < stack[i].bus
  BY DEF StackInv
<1>6. ~ (i < j) /\ ~ (j < i)
  BY <1>3, <1>4, <1>5
<1> QED
  BY <1>1, <1>6

\* The innermost frame.
LEMMA TopIs ==
  ASSUME stack \in Seq(Frames), stack # << >>
  PROVE  /\ Len(stack) \in Nat \ {0}
         /\ Top = stack[Len(stack)] /\ Top \in Frames
<1>1. Len(stack) \in Nat \ {0}
  BY EmptySeq, LenProperties
<1>2. Top = stack[Len(stack)]
  BY DEF Top, Last
<1> QED
  BY <1>1, <1>2, ElementOfSeq

\* The frames around the innermost one.
LEMMA FrontIs ==
  ASSUME stack \in Seq(Frames), stack # << >>
  PROVE  /\ Front(stack) \in Seq(Frames)
         /\ Len(Front(stack)) = Len(stack) - 1
         /\ \A i \in 1 .. Len(stack) - 1 : Front(stack)[i] = stack[i]
<1>1. Len(stack) \in Nat \ {0}
  BY TopIs
<1>2. \A i \in 1 .. Len(stack) - 1 : stack[i] \in Frames
  BY <1>1, ElementOfSeq
<1>3. PICK n : n = Len(stack) - 1
  OBVIOUS
<1>4. /\ SubSeq(stack, 1, n) \in Seq(Frames)
      /\ Len(SubSeq(stack, 1, n)) = IF 1 <= n THEN n - 1 + 1 ELSE 0
      /\ \A i \in 1 .. n - 1 + 1 : SubSeq(stack, 1, n)[i] = stack[1 + i - 1]
  BY <1>1, <1>2, <1>3, SubSeqProperties
<1> QED
  BY <1>1, <1>3, <1>4 DEF Front

\* Only the innermost frame is replaced.
LEMMA ReplaceIs ==
  ASSUME stack \in Seq(Frames), stack # << >>, NEW f \in Frames
  PROVE  /\ Replace(f) \in Seq(Frames)
         /\ Len(Replace(f)) = Len(stack)
         /\ \A i \in 1 .. Len(stack) : Replace(f)[i] = IF i = Len(stack) THEN f ELSE stack[i]
<1>1. Len(stack) \in Nat \ {0}
  BY TopIs
<1>2. /\ Front(stack) \in Seq(Frames)
      /\ Len(Front(stack)) = Len(stack) - 1
      /\ \A i \in 1 .. Len(stack) - 1 : Front(stack)[i] = stack[i]
  BY FrontIs
<1> QED
  BY <1>1, <1>2, AppendProperties DEF Replace

\* The frame f is what the innermost one may become: it goes on over the same bus.
Onward(f) ==
  /\ f \in Frames /\ f.bus = Top.bus /\ Rightly(f)
  /\ \A l \in Locations : Passed(Top, l) => Passed(f, l)

\* Where the innermost walk goes on, what was passed stays passed.
LEMMA OnwardInv ==
  ASSUME StackInv, stack # << >>, NEW f, Onward(f), stack' = Replace(f), topology' = topology
  PROVE  /\ StackInv' /\ Len(stack') = Len(stack) /\ stack' # << >>
         /\ \A i \in 1 .. Len(stack) : stack'[i].bus = stack[i].bus
         /\ \A E, l : Met(E, l) => Met(E, l)'
<1>1. /\ stack' \in Seq(Frames)
      /\ Len(stack') = Len(stack) /\ Len(stack) \in Nat \ {0}
      /\ \A i \in 1 .. Len(stack) : stack'[i] = IF i = Len(stack) THEN f ELSE stack[i]
      /\ Top = stack[Len(stack)]
  BY ReplaceIs, TopIs DEF StackInv, Onward
<1>2. \A i \in 1 .. Len(stack) : stack'[i].bus = stack[i].bus
  BY <1>1 DEF Onward
<1>3. ASSUME NEW i \in 1 .. Len(stack)
      PROVE  Rightly(stack[i])'
  <2>1. Rightly(stack'[i])
    BY <1>1 DEF StackInv, Onward
  <2> QED
    BY <2>1 DEF Rightly, At
<1>4. StackInv'
  BY <1>1, <1>2, <1>3 DEF StackInv, SoundTopology, Bridges
<1>5. ASSUME NEW E, NEW l, Met(E, l)
      PROVE  Met(E, l)'
  <2>1. l \in Locations /\ l \in DOMAIN topology' /\ l.bus \in E
    BY <1>5 DEF Met
  <2>2. Shown(l)'
    BY <1>5 DEF Met, Shown, At
  <2>3. \A i \in 1 .. Len(stack') : stack'[i].bus = l.bus => Passed(stack'[i], l)
    BY <1>1, <1>2, <1>5 DEF Met, Onward
  <2> QED
    BY <2>1, <2>2, <2>3 DEF Met, Passed
<1>6. stack' # << >>
  BY <1>1, EmptySeq
<1> QED
  BY <1>1, <1>2, <1>4, <1>5, <1>6

\* A frame with one field changed, and the frame of the next slot.
LEMMA OneFrameField ==
  ASSUME NEW t, NEW b, NEW s, NEW u, NEW m, NEW x,
         t = [bus |-> b, slot |-> s, function |-> u, many |-> m]
  PROVE  /\ [t EXCEPT !.slot = x] = [bus |-> b, slot |-> x, function |-> u, many |-> m]
         /\ [t EXCEPT !.function = x] = [bus |-> b, slot |-> s, function |-> x, many |-> m]
         /\ [t EXCEPT !.many = x] = [bus |-> b, slot |-> s, function |-> u, many |-> x]
OBVIOUS

\* All three fields of a frame that goes on to the next slot.
LEMMA NextSlotFrame ==
  ASSUME NEW t, NEW b, NEW s, NEW u, NEW m,
         t = [bus |-> b, slot |-> s, function |-> u, many |-> m]
  PROVE  [t EXCEPT !.slot = @ + 1, !.function = 0, !.many = FALSE]
         = [bus |-> b, slot |-> s + 1, function |-> 0, many |-> FALSE]
<1>1. PICK x : x = s + 1
  OBVIOUS
<1>2. PICK p : p = [t EXCEPT !.slot = x]
  OBVIOUS
<1>3. p = [bus |-> b, slot |-> x, function |-> u, many |-> m]
  BY <1>2, OneFrameField
<1>4. PICK q : q = [p EXCEPT !.function = 0]
  OBVIOUS
<1>5. q = [bus |-> b, slot |-> x, function |-> 0, many |-> m]
  BY <1>3, <1>4
<1>a. PICK y : y = FALSE
  OBVIOUS
<1>6. [q EXCEPT !.many = y] = [bus |-> b, slot |-> x, function |-> 0, many |-> y]
  BY <1>5, OneFrameField
<1>7. t.slot = s
  OBVIOUS
<1>8. [t EXCEPT !.slot = x, !.function = 0, !.many = FALSE]
      = [[[t EXCEPT !.slot = x] EXCEPT !.function = 0] EXCEPT !.many = FALSE]
  OBVIOUS
<1>9. [t EXCEPT !.slot = @ + 1, !.function = 0, !.many = FALSE]
      = [t EXCEPT !.slot = x, !.function = 0, !.many = FALSE]
  BY <1>1, <1>7
<1> QED
  BY <1>1, <1>2, <1>4, <1>6, <1>8, <1>9, <1>a

\* The slot loop's next frame, and the function loop's.
LEMMA AfterFunctionOnward ==
  ASSUME StackInv, InSlot
  PROVE  /\ Onward(AfterFunction) /\ Passed(AfterFunction, Where)
         /\ Where \in Locations
<1>1. stack \in Seq(Frames) /\ stack # << >> /\ Top.slot < BusSlots
  BY DEF StackInv, InSlot
<1>2. /\ Top \in Frames /\ Rightly(Top)
  BY <1>1, TopIs DEF StackInv
<1>3. PICK t : t = Top
  OBVIOUS
<1>4. /\ t \in [bus : Nat, slot : 0 .. BusSlots, function : 0 .. Functions - 1, many : BOOLEAN]
      /\ t.slot < BusSlots /\ BusSlots \in Nat /\ Functions \in Nat \ {0}
  BY <1>1, <1>2, <1>3, PciAssumption DEF Frames
<1>5. Where \in Locations
  BY <1>3, <1>4 DEF Where, Location, Locations
<1>8. t = [bus |-> t.bus, slot |-> t.slot, function |-> t.function, many |-> t.many]
  BY <1>4
<1>6. CASE t.many /\ t.function + 1 < Functions
  <2>1. PICK f : f = [t EXCEPT !.function = @ + 1]
    OBVIOUS
  <2>2. /\ f \in Frames /\ f.bus = t.bus /\ f.slot = t.slot /\ f.function = t.function + 1
        /\ f.many = t.many
    <3>1. f = [bus |-> t.bus, slot |-> t.slot, function |-> t.function + 1, many |-> t.many]
      BY <2>1, <1>8, OneFrameField
    <3> QED
      BY <3>1, <1>4, <1>6 DEF Frames
  <2>3. AfterFunction = f
    BY <2>1, <1>3, <1>6 DEF AfterFunction
  <2>4. Rightly(f)
    BY <2>2, <1>2, <1>3, <1>6 DEF Rightly
  <2>5. \A l \in Locations : Passed(t, l) => Passed(f, l)
    BY <2>2, <1>4 DEF Passed, Locations
  <2>6. Passed(f, Where)
    BY <2>2, <1>3, <1>4 DEF Passed, Where, Location
  <2> QED
    BY <2>2, <2>3, <2>4, <2>5, <2>6, <1>3, <1>5 DEF Onward
<1>7. CASE ~ (t.many /\ t.function + 1 < Functions)
  <2>1. PICK f : f = [t EXCEPT !.slot = @ + 1, !.function = 0, !.many = FALSE]
    OBVIOUS
  <2>2. /\ f \in Frames /\ f.bus = t.bus /\ f.slot = t.slot + 1 /\ f.function = 0
        /\ f.many = FALSE
    <3>1. f = [bus |-> t.bus, slot |-> t.slot + 1, function |-> 0, many |-> FALSE]
      BY <2>1, <1>8, NextSlotFrame
    <3> QED
      BY <3>1, <1>4 DEF Frames
  <2>3. AfterFunction = f
    BY <2>1, <1>3, <1>7 DEF AfterFunction, NextSlot
  <2>4. Rightly(f)
    BY <2>2 DEF Rightly
  <2>5. \A l \in Locations : Passed(t, l) => Passed(f, l)
    BY <2>2, <1>4 DEF Passed, Locations
  <2>6. Passed(f, Where)
    BY <2>2, <1>3, <1>4 DEF Passed, Where, Location
  <2> QED
    BY <2>2, <2>3, <2>4, <2>5, <2>6, <1>3, <1>5 DEF Onward
<1> QED
  BY <1>6, <1>7

\* Where the walk is, nothing has been met yet: it has not passed it.  What it enumerates
\* is shown.
LEMMA NotPassedYet ==
  ASSUME StackInv, InSlot, NEW E
  PROVE  /\ ~ Met(E, Where)
         /\ At(Where).kind # "none" /\ (Top.many \/ ~ At(Where).multi) => Shown(Where)
<1>1. stack \in Seq(Frames) /\ stack # << >>
  BY DEF StackInv, InSlot
<1>2. Top \in Frames /\ Top = stack[Len(stack)] /\ Len(stack) \in 1 .. Len(stack) /\ Rightly(Top)
  BY <1>1, TopIs DEF StackInv
<1>3. /\ Where.bus = Top.bus /\ Where.slot = Top.slot /\ Where.function = Top.function
      /\ Top.slot \in Int /\ Top.function \in Int
  BY <1>2, PciAssumption DEF Where, Location, Frames
<1>4. ~ Passed(Top, Where)
  BY <1>3 DEF Passed
<1>5. ~ Met(E, Where)
  BY <1>2, <1>3, <1>4 DEF Met
<1>6. ASSUME At(Where).kind # "none", Top.many \/ ~ At(Where).multi
      PROVE  Shown(Where)
  <2>1. CASE Top.many
    BY <1>2, <1>3, <1>6, <2>1 DEF Rightly, Shown
  <2>2. CASE ~ Top.many
    BY <1>2, <1>3, <1>6, <2>2 DEF Rightly, Shown, Where
  <2> QED
    BY <2>1, <2>2
<1> QED
  BY <1>5, <1>6

\* The same for the buses and the devices met.
LEMMA OnwardMet ==
  ASSUME StackInv, stack # << >>, NEW f, Onward(f), stack' = Replace(f), topology' = topology,
         NEW E, MetBuses(E)
  PROVE  /\ MetBuses(E)'
         /\ MetDevices(E) /\ devices' = devices => MetDevices(E)'
<1>1. /\ Len(stack') = Len(stack)
      /\ \A i \in 1 .. Len(stack) : stack'[i].bus = stack[i].bus
  BY OnwardInv
<1>2. \A l : Met(E, l) => Met(E, l)'
  BY OnwardInv
<1>3. MetBuses(E)'
  BY <1>1, <1>2 DEF MetBuses, Buses, Bridges
<1>4. ASSUME MetDevices(E), devices' = devices
      PROVE  MetDevices(E)'
  BY <1>2, <1>4 DEF MetDevices
<1> QED
  BY <1>3, <1>4

\* A device is new to the list: the walk had not passed it.
LEMMA AddDeviceInv == ASSUME WalkInv, AddDevice PROVE WalkInv'
<1>1. /\ StackInv /\ InSlot /\ stack # << >> /\ topology' = topology
      /\ At(Where).kind = "device" /\ (Top.many \/ ~ At(Where).multi)
      /\ devices' = Append(devices, Where)
  BY DEF WalkInv, AddDevice, Enumerates, InSlot
<1>2. PICK E \in SUBSET Buses : MetDevices(E) /\ MetBuses(E)
  BY DEF WalkInv
<1>3. PICK f : f = AfterFunction
  OBVIOUS
<1>4. Onward(f) /\ Passed(f, Where) /\ Where \in Locations /\ stack' = Replace(f)
  BY <1>1, <1>3, AfterFunctionOnward DEF AddDevice
<1>5. /\ StackInv' /\ Len(stack') = Len(stack) /\ Len(stack) \in Nat \ {0}
      /\ \A l : Met(E, l) => Met(E, l)'
      /\ MetBuses(E)'
  BY <1>1, <1>2, <1>4, OnwardInv, OnwardMet, TopIs DEF StackInv
<1>6. PICK l : l = Where
  OBVIOUS
<1>7. /\ l \in DOMAIN topology /\ topology[l].kind = "device" /\ Shown(l) /\ l.bus = Top.bus
      /\ ~ Met(E, l)
  <2>1. ~ Met(E, Where) /\ Shown(Where)
    <3>1. At(Where).kind # "none" /\ (Top.many \/ ~ At(Where).multi)
      BY <1>1
    <3> QED
      BY <1>1, <3>1, NotPassedYet
  <2>2. Where.bus = Top.bus
    BY DEF Where, Location
  <2>3. l \in DOMAIN topology /\ topology[l].kind = "device"
    <3>1. CASE l \in DOMAIN topology
      BY <1>1, <1>6, <3>1 DEF At
    <3>2. CASE l \notin DOMAIN topology
      <4>1. At(l).kind = "none"
        BY <3>2 DEF At
      <4> QED
        BY <1>1, <1>6, <4>1
    <3> QED
      BY <3>1, <3>2
  <2> QED
    BY <1>6, <2>1, <2>2, <2>3
<1>8. Met(E, l)'
  <2>1. Shown(l)'
    BY <1>1, <1>7 DEF Shown, At
  <2>2. Top = stack[Len(stack)] /\ Len(stack) \in 1 .. Len(stack)
    BY <1>1, <1>5, TopIs DEF StackInv
  <2>3. l.bus \in E
    BY <1>2, <1>7, <2>2 DEF MetBuses
  <2>4. ASSUME NEW i \in 1 .. Len(stack'), stack'[i].bus = l.bus
        PROVE  Passed(stack'[i], l)
    <3>1. /\ i \in 1 .. Len(stack)
          /\ stack'[i] = IF i = Len(stack) THEN f ELSE stack[i]
          /\ stack'[i].bus = stack[i].bus
      BY <1>1, <1>4, <1>5, ReplaceIs, OnwardInv DEF StackInv, Onward
    <3>2. stack[Len(stack)].bus = l.bus /\ stack[i].bus = l.bus
      BY <1>7, <2>2, <2>4, <3>1
    <3>3. i = Len(stack)
      BY <1>1, <2>2, <3>1, <3>2, OneFrame
    <3> QED
      BY <1>4, <1>6, <3>1, <3>3
  <2> QED
    BY <1>1, <1>4, <1>6, <1>7, <2>1, <2>3, <2>4 DEF Met, Passed
<1>9. MetDevices(E)'
  <2>1. /\ devices' \in Seq(Locations) /\ Len(devices) \in Nat
        /\ Len(devices') = Len(devices) + 1
        /\ \A i \in 1 .. Len(devices') :
             devices'[i] = IF i = Len(devices) + 1 THEN l ELSE devices[i]
    BY <1>1, <1>2, <1>4, <1>6, AppendProperties, LenProperties DEF MetDevices
  <2>2. \A i \in 1 .. Len(devices) : Met(E, devices[i]) /\ topology[devices[i]].kind = "device"
    BY <1>2 DEF MetDevices
  <2>3. \A i \in 1 .. Len(devices) : devices[i] # l
    BY <1>7, <2>2
  <2>4. ASSUME NEW i \in 1 .. Len(devices')
        PROVE  /\ Met(E, devices[i])'
               /\ topology'[devices'[i]].kind = "device"
    <3>1. CASE i = Len(devices) + 1
      BY <1>1, <1>7, <1>8, <2>1, <3>1 DEF Met, Shown, At
    <3>2. CASE i # Len(devices) + 1
      <4>1. i \in 1 .. Len(devices) /\ devices'[i] = devices[i]
        BY <2>1, <3>2
      <4>2. PICK d : d = devices[i]
        OBVIOUS
      <4>3. Met(E, d)' /\ topology'[d].kind = "device" /\ d = devices'[i]
        BY <1>1, <1>5, <2>2, <4>1, <4>2
      <4> QED
        BY <4>3 DEF Met, Shown, At
    <3> QED
      BY <3>1, <3>2
  <2>5. \A i, j \in 1 .. Len(devices') : devices'[i] = devices'[j] => i = j
    BY <1>2, <2>1, <2>3 DEF MetDevices
  <2> QED
    BY <2>1, <2>4, <2>5 DEF MetDevices
<1>10. Buses' = Buses
  BY <1>1 DEF Buses, Bridges
<1> QED
  BY <1>2, <1>5, <1>9, <1>10 DEF WalkInv

\* The walk goes on over a location that nobody answers.
LEMMA SkipFunctionInv == ASSUME WalkInv, SkipFunction PROVE WalkInv'
<1>1. /\ StackInv /\ InSlot /\ stack # << >> /\ topology' = topology /\ devices' = devices
  BY DEF WalkInv, SkipFunction, InSlot
<1>2. PICK E \in SUBSET Buses : MetDevices(E) /\ MetBuses(E)
  BY DEF WalkInv
<1>3. PICK f : f = AfterFunction
  OBVIOUS
<1>4. Onward(f) /\ stack' = Replace(f)
  BY <1>1, <1>3, AfterFunctionOnward DEF SkipFunction
<1>5. StackInv' /\ MetBuses(E)' /\ MetDevices(E)'
  BY <1>1, <1>2, <1>4, OnwardInv, OnwardMet
<1>6. Buses' = Buses
  BY <1>1 DEF Buses, Bridges
<1> QED
  BY <1>2, <1>5, <1>6 DEF WalkInv

\* The function loop begins at function 0 once more.
LEMMA EnterFunctionsInv == ASSUME WalkInv, EnterFunctions PROVE WalkInv'
<1>1. /\ StackInv /\ InSlot /\ stack # << >> /\ topology' = topology /\ devices' = devices
      /\ ~ Top.many /\ At(Where).kind # "none" /\ At(Where).multi
  BY DEF WalkInv, EnterFunctions, InSlot
<1>2. PICK E \in SUBSET Buses : MetDevices(E) /\ MetBuses(E)
  BY DEF WalkInv
<1>3. PICK f : f = [Top EXCEPT !.many = TRUE]
  OBVIOUS
<1>4. Top \in Frames /\ Rightly(Top)
  BY <1>1, TopIs DEF StackInv
<1>5. f = [bus |-> Top.bus, slot |-> Top.slot, function |-> Top.function, many |-> TRUE]
  <2>1. Top = [bus |-> Top.bus, slot |-> Top.slot, function |-> Top.function, many |-> Top.many]
    BY <1>4 DEF Frames
  <2>2. PICK y : y = TRUE
    OBVIOUS
  <2>3. [Top EXCEPT !.many = y]
        = [bus |-> Top.bus, slot |-> Top.slot, function |-> Top.function, many |-> y]
    BY <2>1
  <2> QED
    BY <1>3, <2>2, <2>3
<1>6. f \in Frames /\ f.bus = Top.bus /\ f.slot = Top.slot /\ f.function = Top.function
  BY <1>4, <1>5 DEF Frames
<1>7. Rightly(f)
  BY <1>1, <1>4, <1>5, <1>6 DEF Rightly, Where
<1>8. \A l \in Locations : Passed(Top, l) => Passed(f, l)
  BY <1>6 DEF Passed
<1>9. Onward(f) /\ stack' = Replace(f)
  BY <1>3, <1>6, <1>7, <1>8 DEF Onward, EnterFunctions
<1>10. StackInv' /\ MetBuses(E)' /\ MetDevices(E)'
  BY <1>1, <1>2, <1>9, OnwardInv, OnwardMet
<1>11. Buses' = Buses
  BY <1>1 DEF Buses, Bridges
<1> QED
  BY <1>2, <1>10, <1>11 DEF WalkInv

\* A walk that is over leaves the outer ones as they are.
LEMMA LeaveBusInv == ASSUME WalkInv, LeaveBus PROVE WalkInv'
<1>1. /\ StackInv /\ stack \in Seq(Frames) /\ stack # << >>
      /\ topology' = topology /\ devices' = devices /\ stack' = Front(stack)
  BY DEF WalkInv, StackInv, LeaveBus
<1>2. PICK E \in SUBSET Buses : MetDevices(E) /\ MetBuses(E)
  BY DEF WalkInv
<1>3. /\ stack' \in Seq(Frames) /\ Len(stack') = Len(stack) - 1 /\ Len(stack) \in Nat \ {0}
      /\ \A i \in 1 .. Len(stack') : i \in 1 .. Len(stack) /\ stack'[i] = stack[i]
  BY <1>1, FrontIs, TopIs
<1>4. ASSUME NEW i \in 1 .. Len(stack')
      PROVE  Rightly(stack[i])'
  <2>1. Rightly(stack'[i])
    BY <1>1, <1>3 DEF StackInv
  <2> QED
    BY <1>1, <2>1 DEF Rightly, At
<1>5. StackInv'
  BY <1>1, <1>3, <1>4 DEF StackInv, SoundTopology, Bridges
<1>6. ASSUME NEW l, Met(E, l)
      PROVE  Met(E, l)'
  <2>1. Shown(l)'
    BY <1>1, <1>6 DEF Met, Shown, At
  <2>2. \A i \in 1 .. Len(stack') : stack'[i].bus = l.bus => Passed(stack'[i], l)
    BY <1>3, <1>6 DEF Met
  <2> QED
    BY <1>1, <1>6, <2>1, <2>2 DEF Met, Passed
<1>7. MetBuses(E)'
  BY <1>1, <1>2, <1>3, <1>6 DEF MetBuses, Buses, Bridges
<1>8. MetDevices(E)'
  BY <1>1, <1>2, <1>6 DEF MetDevices
<1>9. Buses' = Buses
  BY <1>1 DEF Buses, Bridges
<1> QED
  BY <1>2, <1>5, <1>7, <1>8, <1>9 DEF WalkInv

\* The bus behind a bridge was not entered before: no other bridge leads to it, and this
\* one was not passed.
LEMMA EnterBridgeInv == ASSUME WalkInv, EnterBridge PROVE WalkInv'
<1>1. /\ StackInv /\ InSlot /\ stack \in Seq(Frames) /\ stack # << >>
      /\ topology' = topology /\ devices' = devices
      /\ At(Where).kind = "bridge" /\ At(Where).kind # "none" /\ (Top.many \/ ~ At(Where).multi)
  BY DEF WalkInv, StackInv, EnterBridge, Enumerates, InSlot
<1>2. PICK E \in SUBSET Buses : MetDevices(E) /\ MetBuses(E)
  BY DEF WalkInv
<1>3. PICK f : f = AfterFunction
  OBVIOUS
<1>4. PICK k : k = Where
  OBVIOUS
<1>5. Onward(f) /\ Passed(f, k) /\ k \in Locations /\ Shown(k) /\ ~ Met(E, k)
  BY <1>1, <1>3, <1>4, AfterFunctionOnward, NotPassedYet
<1>6. k \in Bridges(topology)
  <2>1. CASE k \in DOMAIN topology
    BY <1>1, <1>4, <2>1 DEF At, Bridges
  <2>2. CASE k \notin DOMAIN topology
    <3>1. At(k).kind = "none"
      BY <2>2 DEF At
    <3> QED
      BY <1>1, <1>4, <3>1
  <2> QED
    BY <2>1, <2>2
<1>7. PICK b : b = topology[k].secondary
  OBVIOUS
<1>8. /\ b \in Nat /\ k.bus < b /\ b \in Buses /\ k.bus = Top.bus /\ k.bus \in Nat
  BY <1>1, <1>4, <1>5, <1>6, <1>7
     DEF StackInv, SoundTopology, Contents, Bridges, Buses, Where, Location, Locations
<1>9. b \notin E
  <2>1. SUFFICES ASSUME b \in E
                 PROVE  FALSE
    OBVIOUS
  <2>2. PICK l \in Bridges(topology) : topology[l].secondary = b /\ Met(E, l)
    BY <1>2, <1>8, <2>1 DEF MetBuses
  <2>3. l = k
    BY <1>1, <1>6, <1>7, <2>2 DEF StackInv, SoundTopology
  <2> QED
    BY <1>5, <2>2, <2>3
<1>10. PICK r : r = Replace(f)
  OBVIOUS
<1>11. PICK new : new = Frame(b)
  OBVIOUS
<1>12. /\ new \in Frames /\ new.bus = b /\ Rightly(new)
  BY <1>8, <1>11, PciAssumption DEF Frame, Frames, Rightly
<1>13. /\ r \in Seq(Frames) /\ Len(r) = Len(stack) /\ Len(stack) \in Nat \ {0}
       /\ \A i \in 1 .. Len(stack) : r[i] = IF i = Len(stack) THEN f ELSE stack[i]
       /\ Top = stack[Len(stack)] /\ f.bus = Top.bus
  BY <1>1, <1>5, <1>10, ReplaceIs, TopIs DEF Onward
<1>14. stack' = Append(r, new)
  <2>1. At(Where) = topology[k]
    BY <1>4, <1>6 DEF At, Bridges
  <2> QED
    BY <1>3, <1>7, <1>10, <1>11, <2>1 DEF EnterBridge
<1>15. /\ stack' \in Seq(Frames) /\ Len(stack') = Len(stack) + 1
       /\ stack'[Len(stack) + 1] = new
       /\ \A i \in 1 .. Len(stack) : stack'[i] = r[i] /\ stack'[i].bus = stack[i].bus
  BY <1>12, <1>13, <1>14, AppendProperties
<1>16. ASSUME NEW i \in 1 .. Len(stack')
       PROVE  \/ i = Len(stack) + 1 /\ stack'[i] = new
              \/ i = Len(stack) /\ stack'[i] = f
              \/ i \in 1 .. Len(stack) - 1 /\ stack'[i] = stack[i]
  BY <1>13, <1>15
<1>17. StackInv'
  <2>1. ASSUME NEW i \in 1 .. Len(stack')
        PROVE  Rightly(stack[i])'
    <3>1. Rightly(stack'[i])
      BY <1>1, <1>5, <1>12, <1>13, <1>16 DEF StackInv, Onward
    <3> QED
      BY <1>1, <3>1 DEF Rightly, At
  <2>2. ASSUME NEW i \in 1 .. Len(stack), NEW j \in 1 .. Len(stack), i < j
        PROVE  stack'[i].bus < stack'[j].bus
    BY <1>1, <1>15, <2>2 DEF StackInv
  <2>3. ASSUME NEW i \in 1 .. Len(stack)
        PROVE  stack'[i].bus < b
    <3>1. stack'[i].bus = stack[i].bus /\ stack[i] \in Frames
      BY <1>1, <1>15, ElementOfSeq
    <3>2. stack[i].bus <= Top.bus
      <4>1. CASE i = Len(stack)
        BY <1>8, <1>13, <4>1
      <4>2. CASE i # Len(stack)
        <5>1. i < Len(stack) /\ Len(stack) \in 1 .. Len(stack)
          BY <1>13, <4>2
        <5>2. stack[i].bus < Top.bus
          BY <1>1, <1>13, <5>1 DEF StackInv
        <5> QED
          BY <1>8, <3>1, <5>2 DEF Frames
      <4> QED
        BY <4>1, <4>2
    <3> QED
      BY <1>8, <3>1, <3>2 DEF Frames
  <2>4. ASSUME NEW i \in 1 .. Len(stack'), NEW j \in 1 .. Len(stack'), i < j
        PROVE  stack'[i].bus < stack'[j].bus
    <3>1. i \in 1 .. Len(stack)
      BY <1>13, <1>15, <2>4
    <3>2. CASE j = Len(stack) + 1
      BY <1>12, <1>15, <2>3, <3>1, <3>2
    <3>3. CASE j # Len(stack) + 1
      <4>1. j \in 1 .. Len(stack)
        BY <1>13, <1>15, <3>3
      <4> QED
        BY <2>2, <2>4, <3>1, <4>1
    <3> QED
      BY <3>2, <3>3
  <2>5. SoundTopology(topology)'
    BY <1>1 DEF StackInv, SoundTopology, Bridges
  <2> QED
    BY <1>15, <2>1, <2>4, <2>5 DEF StackInv
<1>18. ASSUME NEW l, Met(E, l)
       PROVE  Met(E \cup {b}, l)'
  <2>1. Shown(l)'
    BY <1>1, <1>18 DEF Met, Shown, At
  <2>2. ASSUME NEW i \in 1 .. Len(stack'), stack'[i].bus = l.bus
        PROVE  Passed(stack'[i], l)
    <3>1. l.bus # b /\ l \in Locations
      BY <1>9, <1>18 DEF Met
    <3>2. CASE stack'[i] = new
      BY <1>12, <2>2, <3>1, <3>2
    <3>3. CASE i = Len(stack) /\ stack'[i] = f
      <4>1. Passed(Top, l)
        BY <1>13, <1>18, <2>2, <3>3 DEF Met
      <4> QED
        BY <1>5, <3>1, <3>3, <4>1 DEF Onward
    <3>4. CASE i \in 1 .. Len(stack) - 1 /\ stack'[i] = stack[i]
      BY <1>13, <1>18, <2>2, <3>4 DEF Met
    <3> QED
      BY <1>16, <3>2, <3>3, <3>4
  <2> QED
    BY <1>1, <1>18, <2>1, <2>2 DEF Met, Passed
<1>19. Met(E \cup {b}, k)'
  <2>1. Shown(k)'
    BY <1>1, <1>5 DEF Shown, At
  <2>2. k.bus \in E
    BY <1>2, <1>8, <1>13 DEF MetBuses
  <2>3. ASSUME NEW i \in 1 .. Len(stack'), stack'[i].bus = k.bus
        PROVE  Passed(stack'[i], k)
    <3>1. i # Len(stack) + 1
      BY <1>8, <1>12, <1>15, <2>3
    <3>4. i \in 1 .. Len(stack)
      BY <1>13, <1>15, <3>1
    <3>2. stack[i].bus = Top.bus
      BY <1>8, <1>15, <2>3, <3>4
    <3>5. Top = stack[Len(stack)] /\ Len(stack) \in 1 .. Len(stack)
      BY <1>1, <1>13, TopIs
    <3>3. i = Len(stack)
      BY <1>1, <3>2, <3>4, <3>5, OneFrame
    <3> QED
      BY <1>5, <1>13, <1>15, <3>3
  <2> QED
    BY <1>1, <1>5, <1>6, <2>1, <2>2, <2>3 DEF Met, Passed, Bridges
<1>20. MetDevices(E \cup {b})'
  BY <1>1, <1>2, <1>18 DEF MetDevices
<1>21. MetBuses(E \cup {b})'
  <2>1. E \cup {b} \subseteq Buses' /\ 0 \in E \cup {b}
    BY <1>1, <1>2, <1>8 DEF MetBuses, Buses, Bridges
  <2>2. ASSUME NEW i \in 1 .. Len(stack')
        PROVE  stack'[i].bus \in E \cup {b}
    <3>1. CASE i = Len(stack) + 1
      BY <1>12, <1>15, <3>1
    <3>2. CASE i # Len(stack) + 1
      <4>1. i \in 1 .. Len(stack)
        BY <1>13, <1>15, <3>2
      <4> QED
        BY <1>2, <1>15, <4>1 DEF MetBuses
    <3> QED
      BY <3>1, <3>2
  <2>3. ASSUME NEW c \in (E \cup {b}) \ {0}
        PROVE  \E l \in Bridges(topology) : topology[l].secondary = c /\ Met(E \cup {b}, l)'
    <3>1. CASE c = b
      BY <1>6, <1>7, <1>19, <3>1
    <3>2. CASE c # b
      BY <1>2, <1>18, <3>2 DEF MetBuses
    <3> QED
      BY <3>1, <3>2
  <2> QED
    BY <1>1, <2>1, <2>2, <2>3 DEF MetBuses, Bridges
<1>22. E \cup {b} \in SUBSET Buses'
  BY <1>1, <1>2, <1>8 DEF Buses, Bridges
<1> QED
  BY <1>17, <1>20, <1>21, <1>22 DEF WalkInv

\* Bus 0 is the first one entered.
LEMMA PciInitInv == ASSUME NEW m, SoundTopology(m), PciInit(m) PROVE WalkInv
<1>1. PICK f : f = Frame(0)
  OBVIOUS
<1>2. f \in Frames /\ f.bus = 0 /\ f.function = 0 /\ f.many = FALSE
  BY <1>1, PciAssumption DEF Frame, Frames
<1>3. stack = <<f>> /\ topology = m /\ devices = << >>
  BY <1>1 DEF PciInit
<1>4. /\ stack \in Seq(Frames) /\ Len(stack) = 1 /\ stack[1] = f
      /\ \A i \in 1 .. Len(stack) : i = 1
  BY <1>2, <1>3
<1>5. StackInv
  BY <1>2, <1>3, <1>4 DEF StackInv, Rightly
<1>6. MetDevices({0})
  <2>1. devices \in Seq(Locations) /\ Len(devices) = 0
    BY <1>3
  <2> QED
    BY <2>1 DEF MetDevices
<1>7. MetBuses({0})
  BY <1>2, <1>4 DEF MetBuses, Buses
<1>8. {0} \in SUBSET Buses
  BY DEF Buses
<1> QED
  BY <1>5, <1>6, <1>7, <1>8 DEF WalkInv

\* Every step of the walk keeps the invariant.
LEMMA PciNextInv == ASSUME WalkInv, PciNext PROVE WalkInv'
BY SkipFunctionInv, EnterFunctionsInv, AddDeviceInv, EnterBridgeInv, LeaveBusInv DEF PciNext

\* So does a step of something else.
LEMMA PciStutterInv == ASSUME WalkInv, UNCHANGED pcivars PROVE WalkInv'
<1>1. topology' = topology /\ stack' = stack /\ devices' = devices
  BY DEF pcivars
<1>2. StackInv'
  BY <1>1 DEF WalkInv, StackInv, SoundTopology, Bridges, Rightly, At
<1>3. PICK E \in SUBSET Buses : MetDevices(E) /\ MetBuses(E)
  BY DEF WalkInv
<1>4. \A l : Met(E, l) => Met(E, l)'
  BY <1>1 DEF Met, Shown, At, Passed
<1>5. MetDevices(E)' /\ MetBuses(E)'
  BY <1>1, <1>3, <1>4 DEF MetDevices, MetBuses, Buses, Bridges
<1>6. E \in SUBSET Buses'
  BY <1>1, <1>3 DEF Buses, Bridges
<1> QED
  BY <1>2, <1>5, <1>6 DEF WalkInv

\* The buses entered are in every set that has bus 0 and the buses behind its bridges: a
\* lowest one that is not would be behind a bridge on a lower one.
LEMMA MetReachable ==
  ASSUME StackInv, NEW E \in SUBSET Buses, MetBuses(E)
  PROVE  E \subseteq ReachableBuses
<1>1. E \subseteq Nat
  BY DEF Buses, StackInv, SoundTopology, Contents, Bridges
<1>2. ASSUME NEW S \in SUBSET Buses, Closed(S), E \ S # {}
      PROVE  FALSE
  <2>1. PICK b \in E \ S : \A c \in E \ S : b <= c
    BY <1>1, <1>2, LeastNatural
  <2>2. b # 0
    BY <1>2, <2>1 DEF Closed
  <2>3. PICK k \in Bridges(topology) : topology[k].secondary = b /\ Met(E, k)
    BY <2>1, <2>2 DEF MetBuses
  <2>4. k.bus < b /\ k.bus \in E /\ Shown(k)
    BY <2>3 DEF Met, StackInv, SoundTopology
  <2>5. k.bus \in S
    <3>1. PICK a : a = k.bus
      OBVIOUS
    <3>2. a \in Nat /\ b \in Nat /\ a < b /\ a \in E
      BY <1>1, <2>1, <2>4, <3>1
    <3>3. ~ (b <= a)
      BY <3>2
    <3> QED
      BY <2>1, <3>1, <3>2, <3>3
  <2> QED
    BY <1>2, <2>1, <2>3, <2>4, <2>5 DEF Closed
<1> QED
  BY <1>2 DEF ReachableBuses

\* A list without repetitions has as many members as places.
LEMMA DistinctCardinality ==
  ASSUME NEW S, NEW s \in Seq(S), \A i, j \in 1 .. Len(s) : s[i] = s[j] => i = j
  PROVE  Cardinality(Range(s)) = Len(s)
<1> DEFINE I == 1 .. Len(s)
           R == Range(s)
<1>1. Len(s) \in Nat /\ DOMAIN s = I
  BY LenProperties
<1>2. s \in [I -> R]
  BY <1>1 DEF Range
<1>3. \A r \in R : \E i \in I : s[i] = r
  BY <1>1 DEF Range
<1>4. IsFiniteSet(I) /\ Cardinality(I) = Len(s)
  BY <1>1, FS_Interval
<1> HIDE DEF I, R
<1>5. \A i, j \in I : s[i] = s[j] => i = j
  BY DEF I
<1>6. s \in Bijection(I, R)
  BY <1>2, <1>3, <1>5, Fun_IsBij
<1>7. ExistsBijection(I, R)
  BY <1>6, Fun_ExistsBij
<1>8. Cardinality(R) = Cardinality(I)
  BY <1>4, <1>7, FS_Bijection
<1> QED
  BY <1>4, <1>8 DEF R

\* The devices met are on buses entered, and those can be reached.
LEMMA WalkInvFound == ASSUME WalkInv PROVE FoundOnce
<1>1. StackInv
  BY DEF WalkInv
<1>2. PICK E \in SUBSET Buses : MetDevices(E) /\ MetBuses(E)
  BY DEF WalkInv
<1>3. Cardinality(Range(devices)) = Len(devices)
  BY <1>2, DistinctCardinality DEF MetDevices
<1>4. E \subseteq ReachableBuses
  BY <1>1, <1>2, MetReachable
<1>5. ASSUME NEW d \in Range(devices)
      PROVE  d \in AllDevices
  <2>1. PICK i \in 1 .. Len(devices) : d = devices[i]
    BY <1>2, <1>5, LenProperties DEF Range, MetDevices
  <2>2. Met(E, d) /\ topology[d].kind = "device"
    BY <1>2, <2>1 DEF MetDevices
  <2>3. At(d) = topology[d]
    BY <2>2 DEF Met, At
  <2> QED
    BY <1>4, <2>2, <2>3 DEF Met, AllDevices
<1> QED
  BY <1>3, <1>5 DEF FoundOnce

-----------------------------------------------------------------------------
(* The driver's walk over the controllers.                                 *)

\* The steps at which the controller the driver is at is not its own yet.
Early == {"command", "claim", "owned", "busy", "reset", "resetting"}
Late == {"mode", "irqs"}

\* Those at a port of it, from its choice on; with a command slot.
Setup == {"stop", "stopping", "stop fis", "stopping fis", "fis base", "list base", "reset link",
          "start fis", "starting fis", "start", "starting", "port irqs", "detect", "register", "pick slot"}
Sending == {"header", "table", "prdt", "active", "issue", "wait"}

AtController == Early \cup Late \cup {"ports", "panic"} \cup Setup \cup Sending

Registers == [dma : BOOLEAN, bios : BOOLEAN, busy : BOOLEAN, claimed : BOOLEAN,
              reset : BOOLEAN, ahci : BOOLEAN, irqs : BOOLEAN]
Owners == {"none", "bios", "kernel"}
Parts == {"header", "table", "prdt"}
PortRegisters ==
  [st : BOOLEAN, cr : BOOLEAN, fre : BOOLEAN, fr : BOOLEAN, link : BOOLEAN, irqs : BOOLEAN,
   list : Owners, fis : Owners, active : SUBSET Slots, issue : SUBSET Slots, built : [Slots -> SUBSET Parts]]

ItemInv ==
  /\ \A c \in Controllers : adapters[c] \in Controller
  /\ devices \in Seq(Locations)
  /\ \A i, j \in 1 .. Len(devices) : devices[i] = devices[j] => i = j
  /\ pc \in AtController \cup {"next", "done"}
  /\ item \in 0 .. Len(devices)
  /\ pc \in AtController => item # 0 /\ AtDevice \in Controllers
  /\ port \in Nat
  /\ pc \in Setup \cup Sending => port \in Ports
  /\ pc \in Sending => slot \in Slots

TypeInv ==
  /\ hba \in [Controllers -> Registers]
  /\ regs \in [Controllers -> [Ports -> PortRegisters]]

\* The controllers that are the driver's own, and those in AHCI mode.
Before(n) == {devices[i] : i \in 1 .. n}
Taken == Before(IF pc \in Early THEN item - 1 ELSE item)
Switched == Before(IF pc \in Early \cup {"mode"} THEN item - 1 ELSE item)

\* What the general registers h of the controller c say, and who uses it.
Rules(c, h) ==
  /\ ~ adapters[c].handoff => ~ h.bios /\ ~ h.busy
  /\ c \in Taken => ~ h.bios /\ ~ h.busy /\ h.dma
  /\ c \in Switched => h.ahci
  /\ h.reset => pc = "resetting" /\ c = AtDevice
  /\ pc \in {"busy", "reset", "resetting"} /\ c = AtDevice => ~ h.bios
  /\ pc \in {"reset", "resetting"} /\ c = AtDevice => ~ h.busy
  /\ pc \in Early \ {"command"} /\ c = AtDevice => h.dma
  /\ pc \in {"claim", "owned"} /\ c = AtDevice => adapters[c].handoff

HbaInv == \A c \in Controllers : Rules(c, hba[c])

\* What the registers of the port the driver is at say, by its step.
Stopped(r) == ~ r.st /\ ~ r.cr
Based(r) == r.list = "kernel" /\ r.fis = "kernel"

PortAt(r) ==
  /\ pc = "stopping" => ~ r.st
  /\ pc = "stop fis" => Stopped(r)
  /\ pc = "stopping fis" => Stopped(r) /\ ~ r.fre
  /\ pc = "fis base" => Stopped(r) /\ ~ r.fre /\ ~ r.fr
  /\ pc = "list base" => Stopped(r) /\ ~ r.fre /\ ~ r.fr /\ r.fis = "kernel"
  /\ pc \in {"reset link", "start fis"} => Based(r)
  /\ pc = "starting fis" => Based(r) /\ r.fre
  /\ pc \in {"start", "starting", "port irqs", "detect", "register", "pick slot"} \cup Sending =>
       Based(r) /\ r.fre /\ r.fr
  /\ pc = "table" => {"header"} \subseteq r.built[slot]
  /\ pc = "prdt" => {"header", "table"} \subseteq r.built[slot]
  /\ pc \in {"active", "issue", "wait"} => Parts \subseteq r.built[slot]

RegsInv ==
  /\ \A c \in Controllers \ Taken : \A p \in Ports :
       regs[c][p].list # "kernel" /\ regs[c][p].fis # "kernel"
  /\ \A c \in Controllers, p \in Ports :
       regs[c][p].issue # {} =>
         pc = "wait" /\ c = AtDevice /\ p = port /\ regs[c][p].issue = {slot}
  /\ pc \in Setup \cup Sending => PortAt(Here)

AhciInv == ItemInv /\ TypeInv /\ HbaInv /\ RegsInv

\* The base registers of a port that a step changes from old to new.
BasesOf(c, p, old, new) ==
  /\ old.list # "kernel" /\ new.list = "kernel" => Quiet(c, p)
  /\ old.fis # "kernel" /\ new.fis = "kernel" => Quiet(c, p)
  /\ old.list = "kernel" => new.list = "kernel"
  /\ old.fis = "kernel" => new.fis = "kernel"

BasesStay == \A c \in Controllers, p \in Ports : BasesOf(c, p, regs[c][p], regs'[c][p])

\* The least of a set of naturals.
LEMMA MinNatural ==
  ASSUME NEW S \in SUBSET Nat, S # {}
  PROVE  Min(S) \in S /\ \A n \in S : Min(S) <= n
<1>1. \E n \in S : \A m \in S : n <= m
  BY LeastNatural
<1> QED
  BY <1>1 DEF Min

\* The controller the driver is at comes behind those it is done with.
LEMMA AtDeviceTaken ==
  ASSUME ItemInv, pc \in AtController
  PROVE  /\ item \in 1 .. Len(devices) /\ AtDevice \in Controllers
         /\ AtDevice \notin Before(item - 1)
         /\ Before(item) = Before(item - 1) \cup {AtDevice}
<1>1. item \in 1 .. Len(devices) /\ AtDevice \in Controllers /\ Len(devices) \in Nat
  BY LenProperties DEF ItemInv
<1>2. AtDevice \notin Before(item - 1)
  BY <1>1 DEF ItemInv, Before, AtDevice
<1>3. 1 .. item = (1 .. item - 1) \cup {item}
  BY <1>1
<1> QED
  BY <1>1, <1>2, <1>3 DEF Before, AtDevice

\* One port of one controller has other registers than before.
Changed(c, p, r) ==
  /\ regs' \in [Controllers -> [Ports -> PortRegisters]]
  /\ regs'[c][p] = r
  /\ \A d \in Controllers, q \in Ports : d # c \/ q # p => regs'[d][q] = regs[d][q]

\* A write to one port leaves the registers of all others alone.
LEMMA ChangedIs ==
  ASSUME TypeInv, NEW c \in Controllers, NEW p \in Ports, NEW r \in PortRegisters,
         regs' = [regs EXCEPT ![c][p] = r]
  PROVE  Changed(c, p, r)
BY DEF TypeInv, Changed

\* The driver writes to a register of the port it sets up.
LEMMA DriverWrites ==
  ASSUME AhciInv, pc \in Setup \cup Sending, pc # "wait", pc' \in Setup \cup Sending,
         pc' \in Sending => slot \in Slots,
         UNCHANGED <<adapters, item, port, slot, hba, devices>>,
         NEW r, Changed(AtDevice, port, r), PortAt(r)',
         r.issue # {} => pc' = "wait" /\ r.issue = {slot},
         BasesOf(AtDevice, port, Here, r)
  PROVE  AhciInv' /\ BasesStay
<1> DEFINE c == AtDevice
<1>1. /\ pc \in AtController /\ pc \notin Early \cup Late /\ port \in Ports
      /\ pc' \in AtController /\ pc' \notin Early \cup Late /\ ItemInv
  BY DEF AtController, Early, Late, Setup, Sending, AhciInv, ItemInv
<1>2. /\ c \in Controllers /\ Controllers' = Controllers /\ AtDevice' = c
      /\ Taken = Before(item) /\ Taken' = Before(item) /\ Switched = Before(item)
      /\ Switched' = Before(item) /\ c \in Before(item)
  BY <1>1, AtDeviceTaken DEF Taken, Switched, Before, AtDevice, Controllers, Late
<1>3. /\ regs'[c][port] = r
      /\ \A d \in Controllers, q \in Ports : d # c \/ q # port => regs'[d][q] = regs[d][q]
      /\ regs' \in [Controllers -> [Ports -> PortRegisters]]
  BY DEF Changed
<1> HIDE DEF c
<1>4. ItemInv'
  BY <1>1, <1>2 DEF ItemInv, AtController
<1>5. TypeInv'
  BY <1>2, <1>3 DEF AhciInv, TypeInv
<1>6. HbaInv'
  <2>1. ASSUME NEW d \in Controllers
        PROVE  Rules(d, hba[d])'
    <3>1. Rules(d, hba[d])
      BY DEF AhciInv, HbaInv
    <3>2. pc # "resetting" /\ pc' \notin Early \cup {"mode"}
      BY <1>1 DEF Early, Late
    <3> QED
      BY <1>2, <3>1, <3>2 DEF Rules, Early
  <2> QED
    BY <1>2, <2>1 DEF HbaInv
<1>7. RegsInv'
  <2>1. ASSUME NEW d \in Controllers \ Taken, NEW q \in Ports
        PROVE  regs'[d][q].list # "kernel" /\ regs'[d][q].fis # "kernel"
    BY <1>2, <1>3 DEF AhciInv, RegsInv
  <2>2. ASSUME NEW d \in Controllers, NEW q \in Ports, regs'[d][q].issue # {}
        PROVE  pc' = "wait" /\ d = c /\ q = port /\ regs'[d][q].issue = {slot}
    BY <1>2, <1>3, <2>2 DEF AhciInv, RegsInv
  <2>3. PortAt(Here)'
    BY <1>2, <1>3 DEF Here, PortAt
  <2> QED
    BY <1>2, <2>1, <2>2, <2>3 DEF RegsInv
<1>8. BasesStay
  BY <1>2, <1>3 DEF BasesStay, BasesOf, Here, c
<1> QED
  BY <1>4, <1>5, <1>6, <1>7, <1>8 DEF AhciInv

\* The driver only reads, and moves on.
LEMMA DriverWaits ==
  ASSUME AhciInv, pc \in {"ports"} \cup Setup, pc' \in {"ports", "next", "panic"} \cup Setup \cup Sending,
         UNCHANGED <<adapters, item, hba, regs, devices>>,
         NEW n \in Nat, port' = n, pc' \in Sending => slot' \in Slots,
         NEW r, r = regs[AtDevice][n], pc' \in Setup \cup Sending => n \in Ports /\ PortAt(r)'
  PROVE  AhciInv' /\ BasesStay
<1> DEFINE c == AtDevice
<1>1. /\ pc \in AtController /\ pc \notin Early \cup Late /\ pc # "wait"
      /\ pc' \in AtController \cup {"next"} /\ pc' \notin Early \cup Late /\ ItemInv
  BY DEF AtController, Early, Late, Setup, Sending, AhciInv, ItemInv
<1>2. /\ c \in Controllers /\ Controllers' = Controllers /\ AtDevice' = c /\ item # 0
      /\ Taken = Before(item) /\ Taken' = Before(item) /\ Switched = Before(item)
      /\ Switched' = Before(item)
  BY <1>1, AtDeviceTaken DEF Taken, Switched, Before, AtDevice, Controllers, Late
<1> HIDE DEF c
<1>3. ItemInv'
  BY <1>1, <1>2 DEF ItemInv, AtController
<1>4. TypeInv'
  BY <1>2 DEF AhciInv, TypeInv
<1>5. HbaInv'
  <2>1. ASSUME NEW d \in Controllers
        PROVE  Rules(d, hba[d])'
    <3>1. Rules(d, hba[d])
      BY DEF AhciInv, HbaInv
    <3>2. pc # "resetting" /\ pc' \notin Early \cup {"mode"}
      BY <1>1 DEF Early, Late
    <3> QED
      BY <1>2, <3>1, <3>2 DEF Rules, Early
  <2> QED
    BY <1>2, <2>1 DEF HbaInv
<1>6. RegsInv'
  <2>1. ASSUME NEW d \in Controllers, NEW q \in Ports
        PROVE  regs[d][q].issue = {}
    BY <1>1 DEF AhciInv, RegsInv
  <2>2. pc' \in Setup \cup Sending => PortAt(Here)'
    <3>1. r = regs'[AtDevice'][port']
      BY <1>2 DEF c
    <3> QED
      BY <3>1 DEF Here, PortAt
  <2> QED
    BY <1>2, <2>1, <2>2 DEF RegsInv, AhciInv
<1>7. BasesStay
  BY DEF BasesStay, BasesOf
<1> QED
  BY <1>3, <1>4, <1>5, <1>6, <1>7 DEF AhciInv

\* The driver is at the general registers.
LEMMA DriverRules ==
  ASSUME AhciInv, pc \in Early \cup Late, pc' \in Early \cup Late \cup {"ports", "next"},
         UNCHANGED <<adapters, item, slot, regs, devices>>, port' \in Nat,
         pc' \in Early => pc \in Early,
         hba' \in [Controllers -> Registers], Rules(AtDevice, hba[AtDevice])',
         \A d \in Controllers : d # AtDevice => hba'[d] = hba[d]
  PROVE  AhciInv' /\ BasesStay
<1> DEFINE c == AtDevice
<1>1. /\ pc \in AtController /\ pc # "wait" /\ pc \notin Setup \cup Sending
      /\ pc' \in AtController \cup {"next"} /\ pc' \notin Setup \cup Sending /\ ItemInv
  BY DEF AtController, Early, Late, Setup, Sending, AhciInv, ItemInv
<1>2. /\ c \in Controllers /\ Controllers' = Controllers /\ AtDevice' = c /\ item # 0
      /\ Before(item) = Before(item - 1) \cup {c}
      /\ Before(item)' = Before(item) /\ Before(item - 1)' = Before(item - 1)
  BY <1>1, AtDeviceTaken DEF Before, AtDevice, Controllers
<1> HIDE DEF c
<1>3. /\ Taken \subseteq Taken'
      /\ \A d \in Controllers \ {c} : d \in Taken' => d \in Taken
      /\ \A d \in Controllers \ {c} : d \in Switched' => d \in Switched
  BY <1>2 DEF Taken, Switched
<1>4. ItemInv'
  BY <1>1, <1>2 DEF ItemInv, AtController
<1>5. TypeInv'
  BY <1>2 DEF AhciInv, TypeInv
<1>6. HbaInv'
  <2>1. ASSUME NEW d \in Controllers
        PROVE  Rules(d, hba[d])'
    <3>1. CASE d # c
      <4>1. Rules(d, hba[d]) /\ hba'[d] = hba[d]
        BY <3>1 DEF AhciInv, HbaInv, c
      <4> QED
        BY <1>2, <1>3, <3>1, <4>1 DEF Rules, c
    <3>2. CASE d = c
      <4>1. Rules(AtDevice, hba[AtDevice])'
        OBVIOUS
      <4> QED
        BY <1>2, <3>2, <4>1 DEF Rules
    <3> QED
      BY <3>1, <3>2
  <2> QED
    BY <1>2, <2>1 DEF HbaInv
<1>7. RegsInv'
  <2>1. ASSUME NEW d \in Controllers, NEW q \in Ports
        PROVE  regs[d][q].issue = {}
    BY <1>1 DEF AhciInv, RegsInv
  <2> QED
    BY <1>1, <1>2, <1>3, <2>1 DEF RegsInv, AhciInv
<1>8. BasesStay
  BY DEF BasesStay, BasesOf
<1> QED
  BY <1>4, <1>5, <1>6, <1>7, <1>8 DEF AhciInv

\* Something behind a port's registers changes them on its own.
LEMMA HardwareWrites ==
  ASSUME AhciInv, UNCHANGED <<adapters, pc, item, port, slot, hba, devices>>,
         NEW c \in Controllers, NEW p \in Ports, NEW r, Changed(c, p, r),
         c \notin Taken => r.list # "kernel" /\ r.fis # "kernel",
         r.issue \subseteq regs[c][p].issue,
         PortAt(regs[c][p]) /\ c \in Taken => PortAt(r),
         BasesOf(c, p, regs[c][p], r)
  PROVE  AhciInv' /\ BasesStay
<1>2. /\ Controllers' = Controllers /\ AtDevice' = AtDevice
      /\ Taken' = Taken /\ Switched' = Switched
  BY DEF Taken, Switched, Before, AtDevice, Controllers
<1>3. /\ regs'[c][p] = r
      /\ \A d \in Controllers, q \in Ports : d # c \/ q # p => regs'[d][q] = regs[d][q]
      /\ regs' \in [Controllers -> [Ports -> PortRegisters]]
  BY DEF Changed
<1>4. ItemInv'
  BY <1>2 DEF ItemInv, AhciInv
<1>5. TypeInv'
  BY <1>2, <1>3 DEF AhciInv, TypeInv
<1>6. HbaInv'
  BY <1>2 DEF AhciInv, HbaInv, Rules
<1>7. RegsInv'
  <2>1. ASSUME NEW d \in Controllers \ Taken, NEW q \in Ports
        PROVE  regs'[d][q].list # "kernel" /\ regs'[d][q].fis # "kernel"
    BY <1>2, <1>3 DEF AhciInv, RegsInv
  <2>2. ASSUME NEW d \in Controllers, NEW q \in Ports, regs'[d][q].issue # {}
        PROVE  pc = "wait" /\ d = AtDevice /\ q = port /\ regs'[d][q].issue = {slot}
    <3>1. regs'[d][q].issue \subseteq regs[d][q].issue
      BY <1>3
    <3>2. /\ regs[d][q].issue # {}
          /\ pc = "wait" /\ d = AtDevice /\ q = port /\ regs[d][q].issue = {slot}
      BY <2>2, <3>1 DEF AhciInv, RegsInv
    <3> QED
      BY <2>2, <3>1, <3>2
  <2>3. ASSUME pc \in Setup \cup Sending
        PROVE  PortAt(Here)'
    <3>1. AtDevice \in Taken /\ AtDevice \in Controllers /\ port \in Ports
      <4>1. ItemInv /\ pc \in AtController /\ pc \notin Early
        BY <2>3 DEF AhciInv, AtController, Setup, Sending, Early
      <4> QED
        BY <2>3, <4>1, AtDeviceTaken DEF Taken, ItemInv
    <3>2. PortAt(Here)
      BY <2>3 DEF AhciInv, RegsInv
    <3>3. PortAt(regs'[AtDevice][port])
      BY <1>3, <3>1, <3>2 DEF Here
    <3> QED
      BY <1>2, <3>3 DEF PortAt, Here
  <2> QED
    BY <1>2, <2>1, <2>2, <2>3 DEF RegsInv
<1>8. BasesStay
  BY <1>2, <1>3 DEF BasesStay, BasesOf
<1> QED
  BY <1>4, <1>5, <1>6, <1>7, <1>8 DEF AhciInv

\* Something behind a controller's general registers changes them on its own.
LEMMA HardwareRules ==
  ASSUME AhciInv, UNCHANGED <<adapters, pc, item, port, slot, regs, devices>>,
         NEW c \in Controllers, hba' \in [Controllers -> Registers], Rules(c, hba'[c]),
         \A d \in Controllers : d # c => hba'[d] = hba[d]
  PROVE  AhciInv' /\ BasesStay
<1>2. /\ Controllers' = Controllers /\ AtDevice' = AtDevice
      /\ Taken' = Taken /\ Switched' = Switched
  BY DEF Taken, Switched, Before, AtDevice, Controllers
<1>4. ItemInv'
  BY <1>2 DEF ItemInv, AhciInv
<1>5. TypeInv'
  BY <1>2 DEF AhciInv, TypeInv
<1>6. HbaInv'
  <2>1. ASSUME NEW d \in Controllers
        PROVE  Rules(d, hba'[d])
    BY DEF AhciInv, HbaInv
  <2> QED
    BY <1>2, <2>1 DEF HbaInv, Rules
<1>7. RegsInv'
  BY <1>2 DEF RegsInv, AhciInv, PortAt, Here, Stopped, Based
<1>8. BasesStay
  BY DEF BasesStay, BasesOf
<1> QED
  BY <1>4, <1>5, <1>6, <1>7, <1>8 DEF AhciInv

\* What a controller is has ports of its own.
LEMMA ControllerIs ==
  ASSUME NEW a \in Controller
  PROVE  /\ a.handoff \in BOOLEAN /\ a.sam \in BOOLEAN /\ a.s64 \in BOOLEAN
         /\ DOMAIN a.disks \subseteq Ports
<1>1. a.disks \in UNION {[P -> {"none", "sata", "satapi", "other"}] : P \in SUBSET Ports}
  BY DEF Controller
<1>2. PICK P \in SUBSET Ports : a.disks \in [P -> {"none", "sata", "satapi", "other"}]
  BY <1>1
<1> QED
  BY <1>2 DEF Controller

\* Between two controllers of the list there is none.
LEMMA NextControllerInv ==
  ASSUME AhciInv, NextController, UNCHANGED devices
  PROVE  AhciInv' /\ BasesStay
<1> DEFINE left == {i \in DOMAIN devices : i > item /\ devices[i] \in Controllers}
<1>1. /\ pc = "next" /\ pc \notin AtController /\ pc \notin Early \cup {"mode"}
      /\ pc \notin Setup \cup Sending
      /\ UNCHANGED <<adapters, port, slot, hba, regs, devices>>
      /\ ItemInv /\ Controllers' = Controllers
  BY DEF NextController, AtController, Early, Late, Setup, Sending, AhciInv, Controllers
<1>2. \A d \in Controllers, q \in Ports : regs[d][q].issue = {}
  BY <1>1 DEF AhciInv, RegsInv
<1>3. \A d \in Controllers : ~ hba[d].reset
  BY <1>1 DEF AhciInv, HbaInv, Rules
<1>4. Len(devices) \in Nat /\ DOMAIN devices = 1 .. Len(devices) /\ item \in 0 .. Len(devices)
  BY <1>1, LenProperties DEF ItemInv
<1>5. Taken = Before(item) /\ Switched = Before(item)
  BY <1>1 DEF Taken, Switched
<1>6. TypeInv' /\ BasesStay
  BY <1>1 DEF TypeInv, AhciInv, BasesStay, BasesOf
<1>7. CASE left # {}
  <2>1. item' = Min(left) /\ pc' = "command"
    BY <1>7 DEF NextController, Controllers
  <2>2. left \in SUBSET Nat
    BY <1>4
  <2>3. PICK n : n = Min(left)
    OBVIOUS
  <2>4. n \in left /\ \A i \in left : n <= i
    BY <1>7, <2>2, <2>3, MinNatural
  <2>5. /\ n \in 1 .. Len(devices) /\ n > item /\ devices[n] \in Controllers
        /\ \A i \in item + 1 .. n - 1 : devices[i] \notin Controllers
    BY <1>4, <2>4
  <2>6. /\ pc' \in AtController /\ pc' \in Early /\ pc' \notin Setup \cup Sending
    BY <2>1 DEF AtController, Early, Setup, Sending
  <2>7. ItemInv'
    BY <1>1, <1>4, <2>1, <2>3, <2>5, <2>6 DEF ItemInv, AtDevice
  <2>8. Taken' = Before(n - 1) /\ Switched' = Before(n - 1)
    BY <1>1, <2>1, <2>3, <2>6 DEF Taken, Switched, Before
  <2>9. \A d \in Controllers : d \in Before(n - 1) <=> d \in Before(item)
    BY <1>4, <2>5 DEF Before
  <2>10. HbaInv'
    <3>1. ASSUME NEW d \in Controllers
          PROVE  Rules(d, hba[d])'
      <4>1. Rules(d, hba[d])
        BY DEF AhciInv, HbaInv
      <4> QED
        BY <1>1, <1>3, <1>5, <2>1, <2>8, <2>9, <4>1 DEF Rules
    <3> QED
      BY <1>1, <3>1 DEF HbaInv
  <2>11. RegsInv'
    BY <1>1, <1>2, <1>5, <2>6, <2>8, <2>9 DEF RegsInv, AhciInv
  <2> QED
    BY <1>6, <2>7, <2>10, <2>11 DEF AhciInv
<1>8. CASE left = {}
  <2>1. item' = item /\ pc' = "done"
    BY <1>8 DEF NextController, Controllers
  <2>2. pc' \notin AtController /\ pc' \notin Early \cup {"mode"} /\ pc' \notin Setup \cup Sending
    BY <2>1 DEF AtController, Early, Late, Setup, Sending
  <2>3. Taken' = Before(item) /\ Switched' = Before(item)
    BY <1>1, <2>1, <2>2 DEF Taken, Switched, Before
  <2>4. ItemInv'
    BY <1>1, <2>1, <2>2 DEF ItemInv
  <2>5. HbaInv'
    <3>1. ASSUME NEW d \in Controllers
          PROVE  Rules(d, hba[d])'
      <4>1. Rules(d, hba[d])
        BY DEF AhciInv, HbaInv
      <4> QED
        BY <1>1, <1>3, <1>5, <2>1, <2>3, <4>1 DEF Rules, Early
    <3> QED
      BY <1>1, <3>1 DEF HbaInv
  <2>6. RegsInv'
    BY <1>1, <1>2, <1>5, <2>2, <2>3 DEF RegsInv, AhciInv
  <2> QED
    BY <1>6, <2>4, <2>5, <2>6 DEF AhciInv
<1> QED
  BY <1>7, <1>8

\* The driver's steps that only read.
PortWait ==
  \/ PickPort \/ CommandsStopped \/ FisStopped \/ FisStarted \/ CommandsStarted \/ NotDetected
  \/ Detected \/ IgnoreSatapi \/ PanicOnOther \/ Register \/ PickSlot

\* Each polling loop ends with what it waits for.
LEMMA PortWaitInv ==
  ASSUME AhciInv, PortWait, UNCHANGED devices
  PROVE  AhciInv' /\ BasesStay
<1>1. ItemInv /\ port \in Nat /\ TypeInv /\ Ports \subseteq Nat
  BY AhciAssumption DEF AhciInv, ItemInv
<1>2. ASSUME pc \in {"ports"} \cup Setup
      PROVE  AtDevice \in Controllers
  BY <1>1, <1>2 DEF ItemInv, AtController
<1>3. CASE PickPort
  <2>1. /\ pc = "ports" /\ pc \in {"ports"} \cup Setup
        /\ UNCHANGED <<adapters, item, slot, hba, regs, devices>>
    BY <1>3 DEF PickPort
  <2>2. AtDevice \in Controllers /\ adapters[AtDevice] \in Controller
    BY <1>1, <1>2, <2>1 DEF ItemInv
  <2>3. Implemented \subseteq Ports
    BY <2>2, ControllerIs DEF Implemented
  <2>4. CASE {p \in Implemented : p >= port} # {}
    <3>1. PICK n : n = Min({p \in Implemented : p >= port})
      OBVIOUS
    <3>2. n \in Ports /\ n \in Nat
      <4>1. {p \in Implemented : p >= port} \in SUBSET Nat
        BY <1>1, <2>3
      <4> QED
        BY <1>1, <2>3, <2>4, <3>1, <4>1, MinNatural
    <3>3. port' = n /\ pc' = "stop"
      BY <1>3, <2>4, <3>1 DEF PickPort
    <3>4. PICK r : r = regs[AtDevice][n]
      OBVIOUS
    <3>5. PortAt(r)' /\ pc' \in Setup /\ pc' \notin Sending
      BY <3>3 DEF PortAt, Setup, Sending
    <3> QED
      BY <2>1, <3>2, <3>3, <3>4, <3>5, DriverWaits
  <2>5. CASE {p \in Implemented : p >= port} = {}
    <3>1. port' = port /\ pc' = "next"
      BY <1>3, <2>5 DEF PickPort
    <3>2. PICK r : r = regs[AtDevice][port]
      OBVIOUS
    <3>3. pc' \notin Setup \cup Sending
      BY <3>1 DEF Setup, Sending
    <3> QED
      BY <1>1, <2>1, <3>1, <3>2, <3>3, DriverWaits
  <2> QED
    BY <2>4, <2>5
<1>4. CASE NotDetected \/ IgnoreSatapi
  <2>1. PICK n \in Nat : n = port + 1
    BY <1>1
  <2>2. /\ pc \in Setup /\ pc' = "ports" /\ port' = n
        /\ UNCHANGED <<adapters, item, slot, hba, regs, devices>>
    BY <1>4, <2>1 DEF NotDetected, IgnoreSatapi, LeavePort, Goto, Setup
  <2>3. PICK r : r = regs[AtDevice][n]
    OBVIOUS
  <2>4. pc' \notin Setup \cup Sending
    BY <2>2 DEF Setup, Sending
  <2> QED
    BY <2>2, <2>3, <2>4, DriverWaits
<1>a. PICK r : r = Here
  OBVIOUS
<1>b. PICK n : n = port
  OBVIOUS
<1>c. pc \in Setup => /\ PortAt(r) /\ r \in PortRegisters /\ n \in Ports /\ n \in Nat
                      /\ AtDevice \in Controllers /\ r = regs[AtDevice][n]
  <2>1. pc \in Setup => n \in Ports /\ AtDevice \in Controllers
    BY <1>1, <1>2, <1>b DEF ItemInv
  <2> QED
    BY <1>1, <1>a, <1>b, <2>1 DEF AhciInv, RegsInv, TypeInv, Here
<1>5. CASE CommandsStopped
  <2>1. /\ pc = "stopping" /\ pc' = "stop fis" /\ port' = n /\ ~ r.cr
        /\ UNCHANGED <<adapters, item, slot, hba, regs, devices>>
    BY <1>5, <1>a, <1>b DEF CommandsStopped, Goto, Keep
  <2>2. pc \in Setup /\ pc' \in Setup /\ pc' \notin Sending
    BY <2>1 DEF Setup, Sending
  <2>3. PortAt(r)'
    BY <1>c, <2>1, <2>2 DEF PortAt, Stopped, Based, Sending
  <2> QED
    BY <1>c, <2>1, <2>2, <2>3, DriverWaits
<1>6. CASE FisStopped
  <2>1. /\ pc = "stopping fis" /\ pc' = "fis base" /\ port' = n /\ ~ r.fr
        /\ UNCHANGED <<adapters, item, slot, hba, regs, devices>>
    BY <1>6, <1>a, <1>b DEF FisStopped, Goto, Keep
  <2>2. pc \in Setup /\ pc' \in Setup /\ pc' \notin Sending
    BY <2>1 DEF Setup, Sending
  <2>3. PortAt(r)'
    BY <1>c, <2>1, <2>2 DEF PortAt, Stopped, Based, Sending
  <2> QED
    BY <1>c, <2>1, <2>2, <2>3, DriverWaits
<1>7. CASE FisStarted
  <2>1. /\ pc = "starting fis" /\ pc' = "start" /\ port' = n /\ r.fr
        /\ UNCHANGED <<adapters, item, slot, hba, regs, devices>>
    BY <1>7, <1>a, <1>b DEF FisStarted, Goto, Keep
  <2>2. pc \in Setup /\ pc' \in Setup /\ pc' \notin Sending
    BY <2>1 DEF Setup, Sending
  <2>3. PortAt(r)'
    BY <1>c, <2>1, <2>2 DEF PortAt, Stopped, Based, Sending
  <2> QED
    BY <1>c, <2>1, <2>2, <2>3, DriverWaits
<1>8. CASE CommandsStarted \/ Detected
  <2>1. /\ pc \in {"starting", "detect"} /\ pc' \in {"port irqs", "register"} /\ port' = n
        /\ UNCHANGED <<adapters, item, slot, hba, regs, devices>>
    BY <1>8, <1>b DEF CommandsStarted, Detected, Goto, Keep
  <2>2. pc \in Setup /\ pc' \in Setup /\ pc' \notin Sending
    BY <2>1 DEF Setup, Sending
  <2>3. PortAt(r)'
    BY <1>c, <2>1, <2>2 DEF PortAt, Stopped, Based, Sending
  <2> QED
    BY <1>c, <2>1, <2>2, <2>3, DriverWaits
<1>9. CASE PanicOnOther
  <2>1. /\ pc = "register" /\ pc' = "panic" /\ port' = n
        /\ UNCHANGED <<adapters, item, slot, hba, regs, devices>>
    BY <1>9, <1>b DEF PanicOnOther, Goto, Keep
  <2>2. pc \in Setup /\ pc' \notin Setup \cup Sending
    BY <2>1 DEF Setup, Sending
  <2> QED
    BY <1>c, <2>1, <2>2, DriverWaits
<1>10. CASE Register
  <2>1. /\ pc = "register" /\ pc' = "pick slot" /\ port' = n
        /\ UNCHANGED <<adapters, item, slot, hba, regs, devices>>
    BY <1>10, <1>b DEF Register, Goto
  <2>2. pc \in Setup /\ pc' \in Setup /\ pc' \notin Sending
    BY <2>1 DEF Setup, Sending
  <2>3. PortAt(r)'
    BY <1>c, <2>1, <2>2 DEF PortAt, Stopped, Based, Sending
  <2> QED
    BY <1>c, <2>1, <2>2, <2>3, DriverWaits
<1>11. CASE PickSlot
  <2>1. /\ pc = "pick slot" /\ pc' = "header" /\ port' = n
        /\ UNCHANGED <<adapters, item, hba, regs, devices>>
        /\ Free(r) # {} /\ slot' = Min(Free(r))
    BY <1>11, <1>a, <1>b DEF PickSlot, Goto
  <2>2. pc \in Setup /\ pc' \notin Setup /\ pc' \in Sending
    BY <2>1 DEF Setup, Sending
  <2>3. slot' \in Slots
    <3>1. Free(r) \in SUBSET Nat /\ Free(r) \subseteq Slots
      BY AhciAssumption DEF Free
    <3> QED
      BY <2>1, <3>1, MinNatural
  <2>4. PortAt(r)'
    BY <1>c, <2>1, <2>2 DEF PortAt, Stopped, Based, Sending
  <2> QED
    BY <1>c, <2>1, <2>2, <2>3, <2>4, DriverWaits
<1> QED
  BY <1>3, <1>4, <1>5, <1>6, <1>7, <1>8, <1>9, <1>10, <1>11 DEF PortWait

\* One register of a port has another value.
Differs(r, n, f) ==
  \A g \in {"st", "cr", "fre", "fr", "link", "irqs", "list", "fis", "active", "issue", "built"} :
    g # f => n[g] = r[g]

\* The driver's steps that write to a port.
PortWrite ==
  \/ StopCommands \/ StopFis \/ SetFisBase \/ SetListBase \/ ResetLink \/ StartFis \/ StartCommands
  \/ EnablePortIrqs \/ BuildHeader \/ BuildTable \/ BuildPrdt \/ SetActive \/ Issue

\* Each write to a port finds it as the steps before left it.
LEMMA PortWriteInv ==
  ASSUME AhciInv, PortWrite, UNCHANGED devices
  PROVE  AhciInv' /\ BasesStay
<1>1. /\ ItemInv /\ TypeInv /\ pc \in Setup \cup Sending
      /\ UNCHANGED <<adapters, item, port, slot, hba, devices>> /\ pc # "wait"
  BY DEF AhciInv, PortWrite, StopCommands, StopFis, SetFisBase, SetListBase, ResetLink, StartFis,
         StartCommands, EnablePortIrqs, BuildHeader, BuildTable, BuildPrdt, Build, SetActive,
         Issue, Goto, Keep, Setup, Sending
<1>2. /\ AtDevice \in Controllers /\ port \in Ports /\ pc \in AtController /\ pc \notin Early
  BY <1>1 DEF ItemInv, AtController, Setup, Sending, Early
<1>3. PICK h : h = Here
  OBVIOUS
<1>4. /\ h \in PortRegisters /\ h = regs[AtDevice][port]
  BY <1>1, <1>2, <1>3 DEF TypeInv, Here
<1>5. PortAt(h) /\ h.issue = {}
  BY <1>1, <1>2, <1>3 DEF AhciInv, RegsInv, Here
<1>6. ~ hba[AtDevice].bios /\ ~ hba[AtDevice].busy /\ ~ hba[AtDevice].reset
  <2>1. AtDevice \in Taken /\ pc # "resetting"
    BY <1>1, <1>2, AtDeviceTaken DEF Taken, Early
  <2> QED
    BY <1>2, <2>1 DEF AhciInv, HbaInv, Rules
<1>7. CASE StopCommands
  <2>1. PICK v : v = FALSE
    OBVIOUS
  <2>2. PICK r : r = [h EXCEPT !["st"] = v]
    OBVIOUS
  <2>3. /\ pc = "stop" /\ pc' = "stopping" /\ pc' \in Setup /\ pc' \notin Sending
        /\ regs' = [regs EXCEPT ![AtDevice][port] = r]
    BY <1>7, <1>4, <2>1, <2>2 DEF StopCommands, Port, Goto, Setup, Sending
  <2>4. r \in PortRegisters /\ r["st"] = v /\ Differs(h, r, "st")
    BY <1>4, <2>1, <2>2 DEF PortRegisters, Owners, Differs
  <2>5. Changed(AtDevice, port, r) /\ r.issue = {}
    BY <1>1, <1>2, <1>5, <2>3, <2>4, ChangedIs DEF Differs
  <2>6. PortAt(r)'
    BY <1>5, <2>1, <2>3, <2>4 DEF PortAt, Stopped, Based, Sending, Differs
  <2>7. BasesOf(AtDevice, port, h, r)
    BY <1>3, <1>4, <1>5, <1>6, <2>1, <2>3, <2>4
       DEF BasesOf, Quiet, Differs, PortAt, Stopped
  <2> QED
    BY <1>1, <1>3, <2>3, <2>5, <2>6, <2>7, DriverWrites
<1>8. CASE StopFis
  <2>1. PICK v : v = FALSE
    OBVIOUS
  <2>2. PICK r : r = [h EXCEPT !["fre"] = v]
    OBVIOUS
  <2>3. /\ pc = "stop fis" /\ pc' = "stopping fis" /\ pc' \in Setup /\ pc' \notin Sending
        /\ regs' = [regs EXCEPT ![AtDevice][port] = r]
    BY <1>8, <1>4, <2>1, <2>2 DEF StopFis, Port, Goto, Setup, Sending
  <2>4. r \in PortRegisters /\ r["fre"] = v /\ Differs(h, r, "fre")
    BY <1>4, <2>1, <2>2 DEF PortRegisters, Owners, Differs
  <2>5. Changed(AtDevice, port, r) /\ r.issue = {}
    BY <1>1, <1>2, <1>5, <2>3, <2>4, ChangedIs DEF Differs
  <2>6. PortAt(r)'
    BY <1>5, <2>1, <2>3, <2>4 DEF PortAt, Stopped, Based, Sending, Differs
  <2>7. BasesOf(AtDevice, port, h, r)
    BY <1>3, <1>4, <1>5, <1>6, <2>1, <2>3, <2>4
       DEF BasesOf, Quiet, Differs, PortAt, Stopped
  <2> QED
    BY <1>1, <1>3, <2>3, <2>5, <2>6, <2>7, DriverWrites
<1>9. CASE SetFisBase
  <2>1. PICK v : v = "kernel"
    OBVIOUS
  <2>2. PICK r : r = [h EXCEPT !["fis"] = v]
    OBVIOUS
  <2>3. /\ pc = "fis base" /\ pc' = "list base" /\ pc' \in Setup /\ pc' \notin Sending
        /\ regs' = [regs EXCEPT ![AtDevice][port] = r]
    BY <1>9, <1>4, <2>1, <2>2 DEF SetFisBase, Port, Goto, Setup, Sending
  <2>4. r \in PortRegisters /\ r["fis"] = v /\ Differs(h, r, "fis")
    BY <1>4, <2>1, <2>2 DEF PortRegisters, Owners, Differs
  <2>5. Changed(AtDevice, port, r) /\ r.issue = {}
    BY <1>1, <1>2, <1>5, <2>3, <2>4, ChangedIs DEF Differs
  <2>6. PortAt(r)'
    BY <1>5, <2>1, <2>3, <2>4 DEF PortAt, Stopped, Based, Sending, Differs
  <2>7. BasesOf(AtDevice, port, h, r)
    BY <1>3, <1>4, <1>5, <1>6, <2>1, <2>3, <2>4
       DEF BasesOf, Quiet, Differs, PortAt, Stopped
  <2> QED
    BY <1>1, <1>3, <2>3, <2>5, <2>6, <2>7, DriverWrites
<1>10. CASE SetListBase
  <2>1. PICK v : v = "kernel"
    OBVIOUS
  <2>2. PICK r : r = [h EXCEPT !["list"] = v]
    OBVIOUS
  <2>3. /\ pc = "list base" /\ pc' = "reset link" /\ pc' \in Setup /\ pc' \notin Sending
        /\ regs' = [regs EXCEPT ![AtDevice][port] = r]
    BY <1>10, <1>4, <2>1, <2>2 DEF SetListBase, Port, Goto, Setup, Sending
  <2>4. r \in PortRegisters /\ r["list"] = v /\ Differs(h, r, "list")
    BY <1>4, <2>1, <2>2 DEF PortRegisters, Owners, Differs
  <2>5. Changed(AtDevice, port, r) /\ r.issue = {}
    BY <1>1, <1>2, <1>5, <2>3, <2>4, ChangedIs DEF Differs
  <2>6. PortAt(r)'
    BY <1>5, <2>1, <2>3, <2>4 DEF PortAt, Stopped, Based, Sending, Differs
  <2>7. BasesOf(AtDevice, port, h, r)
    BY <1>3, <1>4, <1>5, <1>6, <2>1, <2>3, <2>4
       DEF BasesOf, Quiet, Differs, PortAt, Stopped
  <2> QED
    BY <1>1, <1>3, <2>3, <2>5, <2>6, <2>7, DriverWrites
<1>11. CASE StartFis
  <2>1. PICK v : v = TRUE
    OBVIOUS
  <2>2. PICK r : r = [h EXCEPT !["fre"] = v]
    OBVIOUS
  <2>3. /\ pc = "start fis" /\ pc' = "starting fis" /\ pc' \in Setup /\ pc' \notin Sending
        /\ regs' = [regs EXCEPT ![AtDevice][port] = r]
    BY <1>11, <1>4, <2>1, <2>2 DEF StartFis, Port, Goto, Setup, Sending
  <2>4. r \in PortRegisters /\ r["fre"] = v /\ Differs(h, r, "fre")
    BY <1>4, <2>1, <2>2 DEF PortRegisters, Owners, Differs
  <2>5. Changed(AtDevice, port, r) /\ r.issue = {}
    BY <1>1, <1>2, <1>5, <2>3, <2>4, ChangedIs DEF Differs
  <2>6. PortAt(r)'
    BY <1>5, <2>1, <2>3, <2>4 DEF PortAt, Stopped, Based, Sending, Differs
  <2>7. BasesOf(AtDevice, port, h, r)
    BY <1>3, <1>4, <1>5, <1>6, <2>1, <2>3, <2>4
       DEF BasesOf, Quiet, Differs, PortAt, Stopped
  <2> QED
    BY <1>1, <1>3, <2>3, <2>5, <2>6, <2>7, DriverWrites
<1>12. CASE StartCommands
  <2>1. PICK v : v = TRUE
    OBVIOUS
  <2>2. PICK r : r = [h EXCEPT !["st"] = v]
    OBVIOUS
  <2>3. /\ pc = "start" /\ pc' = "starting" /\ pc' \in Setup /\ pc' \notin Sending
        /\ regs' = [regs EXCEPT ![AtDevice][port] = r]
    BY <1>12, <1>4, <2>1, <2>2 DEF StartCommands, Port, Goto, Setup, Sending
  <2>4. r \in PortRegisters /\ r["st"] = v /\ Differs(h, r, "st")
    BY <1>4, <2>1, <2>2 DEF PortRegisters, Owners, Differs
  <2>5. Changed(AtDevice, port, r) /\ r.issue = {}
    BY <1>1, <1>2, <1>5, <2>3, <2>4, ChangedIs DEF Differs
  <2>6. PortAt(r)'
    BY <1>5, <2>1, <2>3, <2>4 DEF PortAt, Stopped, Based, Sending, Differs
  <2>7. BasesOf(AtDevice, port, h, r)
    BY <1>3, <1>4, <1>5, <1>6, <2>1, <2>3, <2>4
       DEF BasesOf, Quiet, Differs, PortAt, Stopped
  <2> QED
    BY <1>1, <1>3, <2>3, <2>5, <2>6, <2>7, DriverWrites
<1>13. CASE BuildHeader
  <2>1. PICK v : v = [h.built EXCEPT ![slot] = @ \cup {"header"}]
    OBVIOUS
  <2>2. PICK r : r = [h EXCEPT !["built"] = v]
    OBVIOUS
  <2>3. /\ pc = "header" /\ pc' = "table" /\ pc' \in Sending /\ pc' \notin Setup /\ pc \in Sending
        /\ regs' = [regs EXCEPT ![AtDevice][port].built[slot] = @ \cup {"header"}]
    BY <1>13 DEF BuildHeader, Build, Goto, Setup, Sending
  <2>a. regs' = [regs EXCEPT ![AtDevice][port] = r]
    BY <1>4, <2>1, <2>2, <2>3
  <2>b. slot \in Slots /\ h.built \in [Slots -> SUBSET Parts]
    BY <1>1, <1>4, <2>3 DEF ItemInv, PortRegisters
  <2>c. v \in [Slots -> SUBSET Parts] /\ v[slot] = h.built[slot] \cup {"header"}
    BY <2>1, <2>b DEF Parts
  <2>4. r \in PortRegisters /\ r.built = v /\ Differs(h, r, "built")
    BY <1>4, <2>c, <2>2 DEF PortRegisters, Owners, Differs
  <2>5. Changed(AtDevice, port, r) /\ r.issue = {}
    BY <1>1, <1>2, <1>5, <2>a, <2>4, ChangedIs DEF Differs
  <2>6. PortAt(r)'
    BY <1>1, <1>5, <2>c, <2>3, <2>4 DEF PortAt, Stopped, Based, Sending, Differs, Parts
  <2>7. BasesOf(AtDevice, port, h, r)
    BY <2>4 DEF BasesOf, Differs
  <2> QED
    BY <1>1, <1>3, <2>3, <2>b, <2>5, <2>6, <2>7, DriverWrites
<1>14. CASE BuildTable
  <2>1. PICK v : v = [h.built EXCEPT ![slot] = @ \cup {"table"}]
    OBVIOUS
  <2>2. PICK r : r = [h EXCEPT !["built"] = v]
    OBVIOUS
  <2>3. /\ pc = "table" /\ pc' = "prdt" /\ pc' \in Sending /\ pc' \notin Setup /\ pc \in Sending
        /\ regs' = [regs EXCEPT ![AtDevice][port].built[slot] = @ \cup {"table"}]
    BY <1>14 DEF BuildTable, Build, Goto, Setup, Sending
  <2>a. regs' = [regs EXCEPT ![AtDevice][port] = r]
    BY <1>4, <2>1, <2>2, <2>3
  <2>b. slot \in Slots /\ h.built \in [Slots -> SUBSET Parts]
    BY <1>1, <1>4, <2>3 DEF ItemInv, PortRegisters
  <2>c. v \in [Slots -> SUBSET Parts] /\ v[slot] = h.built[slot] \cup {"table"}
    BY <2>1, <2>b DEF Parts
  <2>4. r \in PortRegisters /\ r.built = v /\ Differs(h, r, "built")
    BY <1>4, <2>c, <2>2 DEF PortRegisters, Owners, Differs
  <2>5. Changed(AtDevice, port, r) /\ r.issue = {}
    BY <1>1, <1>2, <1>5, <2>a, <2>4, ChangedIs DEF Differs
  <2>6. PortAt(r)'
    BY <1>1, <1>5, <2>c, <2>3, <2>4 DEF PortAt, Stopped, Based, Sending, Differs, Parts
  <2>7. BasesOf(AtDevice, port, h, r)
    BY <2>4 DEF BasesOf, Differs
  <2> QED
    BY <1>1, <1>3, <2>3, <2>b, <2>5, <2>6, <2>7, DriverWrites
<1>15. CASE BuildPrdt
  <2>1. PICK v : v = [h.built EXCEPT ![slot] = @ \cup {"prdt"}]
    OBVIOUS
  <2>2. PICK r : r = [h EXCEPT !["built"] = v]
    OBVIOUS
  <2>3. /\ pc = "prdt" /\ pc' = "active" /\ pc' \in Sending /\ pc' \notin Setup /\ pc \in Sending
        /\ regs' = [regs EXCEPT ![AtDevice][port].built[slot] = @ \cup {"prdt"}]
    BY <1>15 DEF BuildPrdt, Build, Goto, Setup, Sending
  <2>a. regs' = [regs EXCEPT ![AtDevice][port] = r]
    BY <1>4, <2>1, <2>2, <2>3
  <2>b. slot \in Slots /\ h.built \in [Slots -> SUBSET Parts]
    BY <1>1, <1>4, <2>3 DEF ItemInv, PortRegisters
  <2>c. v \in [Slots -> SUBSET Parts] /\ v[slot] = h.built[slot] \cup {"prdt"}
    BY <2>1, <2>b DEF Parts
  <2>4. r \in PortRegisters /\ r.built = v /\ Differs(h, r, "built")
    BY <1>4, <2>c, <2>2 DEF PortRegisters, Owners, Differs
  <2>5. Changed(AtDevice, port, r) /\ r.issue = {}
    BY <1>1, <1>2, <1>5, <2>a, <2>4, ChangedIs DEF Differs
  <2>6. PortAt(r)'
    BY <1>1, <1>5, <2>c, <2>3, <2>4 DEF PortAt, Stopped, Based, Sending, Differs, Parts
  <2>7. BasesOf(AtDevice, port, h, r)
    BY <2>4 DEF BasesOf, Differs
  <2> QED
    BY <1>1, <1>3, <2>3, <2>b, <2>5, <2>6, <2>7, DriverWrites
<1>16. CASE SetActive
  <2>1. PICK v : v = h.active \cup {slot}
    OBVIOUS
  <2>2. PICK r : r = [h EXCEPT !["active"] = v]
    OBVIOUS
  <2>3. /\ pc = "active" /\ pc' = "issue" /\ pc' \in Sending /\ pc' \notin Setup /\ pc \in Sending
        /\ regs' = [regs EXCEPT ![AtDevice][port] = r]
    BY <1>16, <1>3, <1>4, <2>1, <2>2 DEF SetActive, Port, Goto, Setup, Sending
  <2>b. slot \in Slots /\ h.active \in SUBSET Slots
    BY <1>1, <1>4, <2>3 DEF ItemInv, PortRegisters
  <2>4. r \in PortRegisters /\ r["active"] = v /\ Differs(h, r, "active")
    BY <1>4, <2>1, <2>2, <2>b DEF PortRegisters, Owners, Differs
  <2>5. Changed(AtDevice, port, r) /\ r.issue = {}
    BY <1>1, <1>2, <1>5, <2>1, <2>3, <2>4, ChangedIs DEF Differs
  <2>6. PortAt(r)'
    BY <1>1, <1>5, <2>3, <2>4 DEF PortAt, Stopped, Based, Sending, Differs, Parts
  <2>7. BasesOf(AtDevice, port, h, r)
    BY <2>4 DEF BasesOf, Differs
  <2> QED
    BY <1>1, <1>3, <2>3, <2>b, <2>5, <2>6, <2>7, DriverWrites
<1>17. CASE Issue
  <2>1. PICK v : v = h.issue \cup {slot}
    OBVIOUS
  <2>2. PICK r : r = [h EXCEPT !["issue"] = v]
    OBVIOUS
  <2>3. /\ pc = "issue" /\ pc' = "wait" /\ pc' \in Sending /\ pc' \notin Setup /\ pc \in Sending
        /\ regs' = [regs EXCEPT ![AtDevice][port] = r]
    BY <1>17, <1>3, <1>4, <2>1, <2>2 DEF Issue, Port, Goto, Setup, Sending
  <2>b. slot \in Slots /\ h.issue \in SUBSET Slots
    BY <1>1, <1>4, <2>3 DEF ItemInv, PortRegisters
  <2>4. r \in PortRegisters /\ r["issue"] = v /\ Differs(h, r, "issue")
    BY <1>4, <2>1, <2>2, <2>b DEF PortRegisters, Owners, Differs
  <2>5. Changed(AtDevice, port, r) /\ r.issue = {slot}
    BY <1>1, <1>2, <1>5, <2>1, <2>3, <2>4, ChangedIs DEF Differs
  <2>6. PortAt(r)'
    BY <1>1, <1>5, <2>3, <2>4 DEF PortAt, Stopped, Based, Sending, Differs, Parts
  <2>7. BasesOf(AtDevice, port, h, r)
    BY <2>4 DEF BasesOf, Differs
  <2> QED
    BY <1>1, <1>3, <2>3, <2>b, <2>5, <2>6, <2>7, DriverWrites
<1>18. CASE ResetLink
  <2>1. PICK v : v = TRUE
    OBVIOUS
  <2>2. PICK r : r = [h EXCEPT !["link"] = v]
    OBVIOUS
  <2>3. /\ pc = "reset link" /\ pc' = "start fis" /\ pc' \in Setup /\ pc' \notin Sending
        /\ regs' = [regs EXCEPT ![AtDevice][port] = r]
    BY <1>18, <1>4, <2>1, <2>2 DEF ResetLink, Port, Goto, Setup, Sending
  <2>4. r \in PortRegisters /\ r["link"] = v /\ Differs(h, r, "link")
    BY <1>4, <2>1, <2>2 DEF PortRegisters, Owners, Differs
  <2>5. Changed(AtDevice, port, r) /\ r.issue = {}
    BY <1>1, <1>2, <1>5, <2>3, <2>4, ChangedIs DEF Differs
  <2>6. PortAt(r)'
    BY <1>5, <2>1, <2>3, <2>4 DEF PortAt, Stopped, Based, Sending, Differs
  <2>7. BasesOf(AtDevice, port, h, r)
    BY <1>3, <1>4, <1>5, <1>6, <2>1, <2>3, <2>4
       DEF BasesOf, Quiet, Differs, PortAt, Stopped
  <2> QED
    BY <1>1, <1>3, <2>3, <2>5, <2>6, <2>7, DriverWrites
<1>19. CASE EnablePortIrqs
  <2>1. PICK v : v = TRUE
    OBVIOUS
  <2>2. PICK r : r = [h EXCEPT !["irqs"] = v]
    OBVIOUS
  <2>3. /\ pc = "port irqs" /\ pc' = "detect" /\ pc' \in Setup /\ pc' \notin Sending
        /\ regs' = [regs EXCEPT ![AtDevice][port] = r]
    BY <1>19, <1>4, <2>1, <2>2 DEF EnablePortIrqs, Port, Goto, Setup, Sending
  <2>4. r \in PortRegisters /\ r["irqs"] = v /\ Differs(h, r, "irqs")
    BY <1>4, <2>1, <2>2 DEF PortRegisters, Owners, Differs
  <2>5. Changed(AtDevice, port, r) /\ r.issue = {}
    BY <1>1, <1>2, <1>5, <2>3, <2>4, ChangedIs DEF Differs
  <2>6. PortAt(r)'
    BY <1>5, <2>1, <2>3, <2>4 DEF PortAt, Stopped, Based, Sending, Differs
  <2>7. BasesOf(AtDevice, port, h, r)
    BY <1>3, <1>4, <1>5, <1>6, <2>1, <2>3, <2>4
       DEF BasesOf, Quiet, Differs, PortAt, Stopped
  <2> QED
    BY <1>1, <1>3, <2>3, <2>5, <2>6, <2>7, DriverWrites
<1> QED
  BY <1>7, <1>8, <1>9, <1>10, <1>11, <1>12, <1>13, <1>14, <1>15, <1>16, <1>17, <1>18, <1>19
     DEF PortWrite

\* The driver's steps at the general registers.
ControllerStep ==
  \/ EnableDma \/ Claim \/ BiosDisowned \/ BiosStopped \/ Reset \/ ResetOver
  \/ EnableAhciMode \/ EnableHbaIrqs

\* The steps from the hand-over to AHCI mode.
LEMMA ControllerStepInv ==
  ASSUME AhciInv, ControllerStep, UNCHANGED devices
  PROVE  AhciInv' /\ BasesStay
<1>1. /\ ItemInv /\ TypeInv /\ pc \in Early \cup Late /\ pc \in AtController
      /\ UNCHANGED <<adapters, item, slot, regs, devices>> /\ port' \in Nat
  BY DEF AhciInv, ItemInv, ControllerStep, EnableDma, Claim, BiosDisowned, BiosStopped, Reset,
         ResetOver, EnableAhciMode, EnableHbaIrqs, Goto, Keep, Ctrl, Early, Late, AtController
<1>2. PICK c : c = AtDevice
  OBVIOUS
<1>3. /\ c \in Controllers /\ c \notin Before(item - 1) /\ Controllers' = Controllers
      /\ Before(item) = Before(item - 1) \cup {c} /\ AtDevice' = c
      /\ adapters[c] \in Controller
      /\ Before(item)' = Before(item) /\ Before(item - 1)' = Before(item - 1)
  BY <1>1, <1>2, AtDeviceTaken DEF Before, AtDevice, Controllers, ItemInv
<1>4. PICK h : h = hba[c]
  OBVIOUS
<1>5. h \in Registers /\ Rules(c, h)
  BY <1>1, <1>3, <1>4 DEF AhciInv, HbaInv, TypeInv
<1>6. adapters[c].handoff \in BOOLEAN
  BY <1>3, ControllerIs
\* The step leads to `to`, and the registers of the controller become g.
<1> DEFINE Fits(g) ==
             /\ g \in Registers
             /\ hba' = [hba EXCEPT ![c] = g] /\ pc' \in Early \cup Late \cup {"ports", "next"}
             /\ pc' \in Early => pc \in Early
             /\ Rules(c, g)'
<1>7. ASSUME NEW g, Fits(g)
      PROVE  AhciInv' /\ BasesStay
  <2>1. /\ hba' \in [Controllers -> Registers] /\ hba'[c] = g
        /\ \A d \in Controllers : d # c => hba'[d] = hba[d]
    BY <1>1, <1>3, <1>7 DEF TypeInv
  <2>2. Rules(AtDevice, hba[AtDevice])'
    BY <1>3, <1>7, <2>1 DEF Rules
  <2> QED
    BY <1>1, <1>2, <1>3, <1>7, <2>1, <2>2, DriverRules
<1> HIDE DEF Fits
<1>8. CASE EnableDma
  <2>0. PICK v : v = TRUE
    OBVIOUS
  <2>1. PICK g : g = [h EXCEPT !["dma"] = v]
    OBVIOUS
  <2>2. /\ pc = "command" /\ pc' = IF adapters[c].handoff THEN "claim" ELSE "reset"
        /\ hba' = [hba EXCEPT ![c] = g]
    BY <1>8, <1>2, <1>4, <2>0, <2>1 DEF EnableDma, Ctrl, Goto
  <2>3. /\ g \in Registers /\ g["dma"] = v
        /\ \A f \in {"dma", "bios", "busy", "claimed", "reset", "ahci", "irqs"} \ {"dma"} : g[f] = h[f]
    BY <1>5, <2>0, <2>1 DEF Registers
  <2>4. Rules(c, g)'
    BY <1>1, <1>3, <1>5, <1>6, <2>2, <2>0, <2>3 DEF Rules, Taken, Switched, Early
  <2> QED
    BY <1>5, <1>7, <2>1, <2>2, <2>3, <2>4 DEF Fits, Early, Late
<1>9. CASE Claim
  <2>0. PICK v : v = TRUE
    OBVIOUS
  <2>1. PICK g : g = [h EXCEPT !["claimed"] = v]
    OBVIOUS
  <2>2. /\ pc = "claim" /\ pc' = "owned"
        /\ hba' = [hba EXCEPT ![c] = g]
    BY <1>9, <1>2, <1>4, <2>0, <2>1 DEF Claim, Ctrl, Goto
  <2>3. /\ g \in Registers /\ g["claimed"] = v
        /\ \A f \in {"dma", "bios", "busy", "claimed", "reset", "ahci", "irqs"} \ {"claimed"} : g[f] = h[f]
    BY <1>5, <2>0, <2>1 DEF Registers
  <2>5. c \notin Taken' /\ c \notin Switched'
    BY <1>3, <2>2 DEF Taken, Switched, Early
  <2>6. UNCHANGED adapters
    BY <1>1
  <2>4. Rules(c, g)'
    BY <1>2, <1>3, <1>5, <1>6, <2>2, <2>5, <2>6, <2>0, <2>3 DEF Rules, Early
  <2> QED
    BY <1>5, <1>7, <2>1, <2>2, <2>3, <2>4 DEF Fits, Early, Late
<1>10. CASE BiosDisowned
  <2>2. /\ pc = "owned" /\ pc' = "busy" /\ ~ h.bios
        /\ UNCHANGED hba
    BY <1>10, <1>2, <1>4 DEF BiosDisowned, Goto
  <2>1. hba' = [hba EXCEPT ![c] = h]
    BY <1>1, <1>4, <2>2 DEF TypeInv
  <2>5. c \notin Taken' /\ c \notin Switched'
    BY <1>3, <2>2 DEF Taken, Switched, Early
  <2>6. UNCHANGED adapters
    BY <1>1
  <2>4. Rules(c, h)'
    BY <1>2, <1>3, <1>5, <1>6, <2>2, <2>5, <2>6 DEF Rules, Early
  <2> QED
    BY <1>5, <1>7, <2>1, <2>2, <2>4 DEF Fits, Early, Late
<1>11. CASE BiosStopped
  <2>2. /\ pc = "busy" /\ pc' = "reset" /\ ~ h.busy
        /\ UNCHANGED hba
    BY <1>11, <1>2, <1>4 DEF BiosStopped, Goto
  <2>1. hba' = [hba EXCEPT ![c] = h]
    BY <1>1, <1>4, <2>2 DEF TypeInv
  <2>5. c \notin Taken' /\ c \notin Switched'
    BY <1>3, <2>2 DEF Taken, Switched, Early
  <2>6. UNCHANGED adapters
    BY <1>1
  <2>4. Rules(c, h)'
    BY <1>2, <1>3, <1>5, <1>6, <2>2, <2>5, <2>6 DEF Rules, Early
  <2> QED
    BY <1>5, <1>7, <2>1, <2>2, <2>4 DEF Fits, Early, Late
<1>12. CASE Reset
  <2>0. PICK v : v = TRUE
    OBVIOUS
  <2>1. PICK g : g = [h EXCEPT !["reset"] = v]
    OBVIOUS
  <2>2. /\ pc = "reset" /\ pc' = "resetting"
        /\ hba' = [hba EXCEPT ![c] = g]
    BY <1>12, <1>2, <1>4, <2>0, <2>1 DEF Reset, Ctrl, Goto
  <2>3. /\ g \in Registers /\ g["reset"] = v
        /\ \A f \in {"dma", "bios", "busy", "claimed", "reset", "ahci", "irqs"} \ {"reset"} : g[f] = h[f]
    BY <1>5, <2>0, <2>1 DEF Registers
  <2>5. c \notin Taken' /\ c \notin Switched'
    BY <1>3, <2>2 DEF Taken, Switched, Early
  <2>6. UNCHANGED adapters
    BY <1>1
  <2>4. Rules(c, g)'
    BY <1>2, <1>3, <1>5, <1>6, <2>2, <2>5, <2>6, <2>0, <2>3 DEF Rules, Early
  <2> QED
    BY <1>5, <1>7, <2>1, <2>2, <2>3, <2>4 DEF Fits, Early, Late
<1>13. CASE ResetOver
  <2>2. /\ pc = "resetting" /\ pc' = "mode" /\ ~ h.reset
        /\ UNCHANGED hba
    BY <1>13, <1>2, <1>4 DEF ResetOver, Goto
  <2>1. hba' = [hba EXCEPT ![c] = h]
    BY <1>1, <1>4, <2>2 DEF TypeInv
  <2>5. c \notin Switched'
    BY <1>3, <2>2 DEF Taken, Switched, Early
  <2>6. UNCHANGED adapters
    BY <1>1
  <2>4. Rules(c, h)'
    BY <1>2, <1>3, <1>5, <1>6, <2>2, <2>5, <2>6 DEF Rules, Early
  <2> QED
    BY <1>5, <1>7, <2>1, <2>2, <2>4 DEF Fits, Early, Late
<1>14. CASE EnableAhciMode
  <2>0. PICK v : v = TRUE
    OBVIOUS
  <2>1. PICK g : g = [h EXCEPT !["ahci"] = v]
    OBVIOUS
  <2>2. /\ pc = "mode" /\ pc' = "irqs"
        /\ hba' = [hba EXCEPT ![c] = g]
    BY <1>14, <1>2, <1>4, <2>0, <2>1 DEF EnableAhciMode, Ctrl, Goto
  <2>3. /\ g \in Registers /\ g["ahci"] = v
        /\ \A f \in {"dma", "bios", "busy", "claimed", "reset", "ahci", "irqs"} \ {"ahci"} : g[f] = h[f]
    BY <1>5, <2>0, <2>1 DEF Registers
  <2>4. Rules(c, g)'
    BY <1>1, <1>3, <1>5, <1>6, <2>2, <2>0, <2>3 DEF Rules, Taken, Switched, Early
  <2> QED
    BY <1>5, <1>7, <2>1, <2>2, <2>3, <2>4 DEF Fits, Early, Late
<1>15. CASE EnableHbaIrqs
  <2>0. PICK v : v = TRUE
    OBVIOUS
  <2>1. PICK g : g = [h EXCEPT !["irqs"] = v]
    OBVIOUS
  <2>2. /\ pc = "irqs" /\ pc' \in {"ports", "next"}
        /\ hba' = [hba EXCEPT ![c] = g]
    BY <1>15, <1>2, <1>4, <2>0, <2>1 DEF EnableHbaIrqs, Ctrl, Goto
  <2>3. /\ g \in Registers /\ g["irqs"] = v
        /\ \A f \in {"dma", "bios", "busy", "claimed", "reset", "ahci", "irqs"} \ {"irqs"} : g[f] = h[f]
    BY <1>5, <2>0, <2>1 DEF Registers
  <2>4. Rules(c, g)'
    BY <1>1, <1>3, <1>5, <1>6, <2>2, <2>0, <2>3 DEF Rules, Taken, Switched, Early
  <2> QED
    BY <1>5, <1>7, <2>1, <2>2, <2>3, <2>4 DEF Fits, Early, Late
<1> QED
  BY <1>8, <1>9, <1>10, <1>11, <1>12, <1>13, <1>14, <1>15 DEF ControllerStep

\* The registers after a reset, and as the BIOS leaves them.
LEMMA IdleIs ==
  /\ Idle \in PortRegisters /\ Idle.list = "none" /\ Idle.fis = "none" /\ Idle.issue = {}
  /\ Running \in PortRegisters /\ Running.list = "bios" /\ Running.fis = "bios"
  /\ Running.issue = {}
<1>1. /\ Idle \in PortRegisters /\ Idle.list = "none" /\ Idle.fis = "none" /\ Idle.issue = {}
  BY DEF Idle, PortRegisters, Owners
<1>2. PICK i : i = Idle
  OBVIOUS
<1>3. PICK r : r = [i EXCEPT !.st = TRUE, !.cr = TRUE, !.fre = TRUE, !.fr = TRUE,
                            !.list = "bios", !.fis = "bios"]
  OBVIOUS
<1>4. /\ r \in PortRegisters /\ r.list = "bios" /\ r.fis = "bios" /\ r.issue = {}
  BY <1>1, <1>2, <1>3 DEF PortRegisters, Owners
<1> QED
  BY <1>1, <1>2, <1>3, <1>4 DEF Running

\* The BIOS only sets up ports of controllers that the driver has not taken over.
LEMMA BiosUsesInv ==
  ASSUME AhciInv, NEW c \in Controllers, NEW p \in Ports, BiosUses(c, p), UNCHANGED devices
  PROVE  AhciInv' /\ BasesStay
<1>1. c \notin Taken
  BY DEF AhciInv, HbaInv, Rules, BiosUses
<1>2. PICK r : r = Running
  OBVIOUS
<1>3. /\ r \in PortRegisters /\ r.list = "bios" /\ r.fis = "bios" /\ r.issue = {}
  BY <1>2, IdleIs
<1>4. Changed(c, p, r) /\ UNCHANGED <<adapters, pc, item, port, slot, hba>>
  BY <1>2, <1>3, ChangedIs DEF BiosUses, AhciInv
<1>5. BasesOf(c, p, regs[c][p], r)
  BY <1>1, <1>3 DEF BasesOf, AhciInv, RegsInv
<1> QED
  BY <1>1, <1>3, <1>4, <1>5, HardwareWrites

\* It gives a controller up before the driver takes it over.
LEMMA BiosStepsInv ==
  ASSUME AhciInv, NEW c \in Controllers, BiosLetsGo(c) \/ BiosFinishes(c), UNCHANGED devices
  PROVE  AhciInv' /\ BasesStay
<1>1. PICK h : h = hba[c]
  OBVIOUS
<1>2. h \in Registers /\ Rules(c, h) /\ hba \in [Controllers -> Registers]
  BY <1>1 DEF AhciInv, HbaInv, TypeInv
<1>3. UNCHANGED <<adapters, pc, item, port, slot, regs, devices>>
  BY DEF BiosLetsGo, BiosFinishes
<1>4. c \notin Taken
  BY <1>1, <1>2 DEF Rules, BiosLetsGo, BiosFinishes
<1>5. ASSUME NEW g \in Registers, Rules(c, g), hba' = [hba EXCEPT ![c] = g]
      PROVE  AhciInv' /\ BasesStay
  <2>1. /\ hba' \in [Controllers -> Registers] /\ hba'[c] = g
        /\ \A d \in Controllers : d # c => hba'[d] = hba[d]
    BY <1>2, <1>5
  <2>2. Rules(c, hba'[c])
    BY <1>5, <2>1
  <2> QED
    BY <1>3, <2>1, <2>2, HardwareRules
<1>6. CASE BiosLetsGo(c)
  <2>1. PICK b \in BOOLEAN : hba' = [hba EXCEPT ![c].bios = FALSE, ![c].busy = b]
    BY <1>6 DEF BiosLetsGo
  <2>2. PICK g : g = [h EXCEPT !.bios = FALSE, !.busy = b]
    OBVIOUS
  <2>3. /\ g \in Registers /\ g.bios = FALSE
        /\ g.dma = h.dma /\ g.ahci = h.ahci /\ g.reset = h.reset
    BY <1>2, <2>2 DEF Registers
  <2>4. hba' = [hba EXCEPT ![c] = g]
    BY <1>1, <1>2, <2>1, <2>2
  <2>5. h.bios /\ h.bios \in BOOLEAN
    BY <1>1, <1>2, <1>6 DEF BiosLetsGo, Registers
  <2>6. Rules(c, g)
    BY <1>2, <1>4, <2>3, <2>5 DEF Rules
  <2> QED
    BY <1>5, <2>3, <2>4, <2>6
<1>7. CASE BiosFinishes(c)
  <2>1. hba' = [hba EXCEPT ![c].busy = FALSE]
    BY <1>7 DEF BiosFinishes
  <2>2. PICK g : g = [h EXCEPT !.busy = FALSE]
    OBVIOUS
  <2>3. /\ g \in Registers /\ g.bios = h.bios /\ g.busy = FALSE
        /\ g.dma = h.dma /\ g.ahci = h.ahci /\ g.reset = h.reset
    BY <1>2, <2>2 DEF Registers
  <2>4. hba' = [hba EXCEPT ![c] = g]
    BY <1>1, <1>2, <2>1, <2>2
  <2>6. Rules(c, g)
    BY <1>2, <1>4, <2>3 DEF Rules
  <2> QED
    BY <1>5, <2>3, <2>4, <2>6
<1> QED
  BY <1>6, <1>7

\* A reset ends while the driver waits for it.
LEMMA ResetDoneInv ==
  ASSUME AhciInv, NEW c \in Controllers, ResetDone(c), UNCHANGED devices
  PROVE  AhciInv' /\ BasesStay
<1>1. PICK h : h = hba[c]
  OBVIOUS
<1>2. h \in Registers /\ Rules(c, h) /\ hba \in [Controllers -> Registers]
  BY <1>1 DEF AhciInv, HbaInv, TypeInv
<1>3. /\ UNCHANGED <<adapters, pc, item, port, slot, devices>>
      /\ h.reset /\ pc = "resetting" /\ c = AtDevice
      /\ regs' = [regs EXCEPT ![c] = [p \in Ports |-> Idle]]
      /\ hba' = [hba EXCEPT ![c].reset = FALSE, ![c].ahci = adapters[c].sam, ![c].irqs = FALSE]
  BY <1>1, <1>2 DEF ResetDone, Rules
<1>4. /\ ItemInv /\ pc \in AtController /\ pc \in Early /\ pc \notin Setup \cup Sending
  BY <1>3 DEF AhciInv, ItemInv, AtController, Early, Setup, Sending
<1>5. c \notin Before(item - 1) /\ Taken = Before(item - 1) /\ Switched = Before(item - 1)
  BY <1>3, <1>4, AtDeviceTaken DEF Taken, Switched
<1>6. /\ Controllers' = Controllers /\ AtDevice' = AtDevice
      /\ Taken' = Taken /\ Switched' = Switched
  BY <1>3 DEF Taken, Switched, Before, AtDevice, Controllers
<1>7. adapters[c].sam \in BOOLEAN
  BY <1>4, ControllerIs DEF ItemInv
<1>8. PICK g : g = [h EXCEPT !.reset = FALSE, !.ahci = adapters[c].sam, !.irqs = FALSE]
  OBVIOUS
<1>9. /\ g \in Registers /\ g.reset = FALSE
      /\ g.bios = h.bios /\ g.busy = h.busy /\ g.dma = h.dma
  BY <1>2, <1>7, <1>8 DEF Registers
<1>10. hba' = [hba EXCEPT ![c] = g]
  BY <1>1, <1>2, <1>3, <1>8
<1>11. /\ hba' \in [Controllers -> Registers] /\ hba'[c] = g
       /\ \A d \in Controllers : d # c => hba'[d] = hba[d]
  BY <1>2, <1>9, <1>10
<1>12. PICK idle : idle = [p \in Ports |-> Idle]
  OBVIOUS
<1>13. /\ idle \in [Ports -> PortRegisters]
       /\ \A p \in Ports : idle[p].list = "none" /\ idle[p].fis = "none" /\ idle[p].issue = {}
  BY <1>12, IdleIs
<1>14. /\ regs' \in [Controllers -> [Ports -> PortRegisters]] /\ regs'[c] = idle
       /\ \A d \in Controllers : d # c => regs'[d] = regs[d]
  BY <1>3, <1>12, <1>13 DEF AhciInv, TypeInv
<1>15. ItemInv'
  BY <1>3, <1>4, <1>6 DEF ItemInv
<1>16. TypeInv'
  BY <1>6, <1>11, <1>14 DEF TypeInv
<1>17. HbaInv'
  <2>1. Rules(c, g)
    BY <1>2, <1>5, <1>9 DEF Rules
  <2>2. ASSUME NEW d \in Controllers
        PROVE  Rules(d, hba'[d])
    BY <1>11, <2>1 DEF AhciInv, HbaInv
  <2> QED
    BY <1>3, <1>6, <2>2 DEF HbaInv, Rules
<1>18. RegsInv'
  <2>1. ASSUME NEW d \in Controllers \ Taken, NEW q \in Ports
        PROVE  regs'[d][q].list # "kernel" /\ regs'[d][q].fis # "kernel"
    BY <1>13, <1>14 DEF AhciInv, RegsInv
  <2>2. ASSUME NEW d \in Controllers, NEW q \in Ports
        PROVE  regs'[d][q].issue = {}
    BY <1>3, <1>13, <1>14 DEF AhciInv, RegsInv
  <2> QED
    BY <1>3, <1>4, <1>6, <2>1, <2>2 DEF RegsInv
<1>19. BasesStay
  <2>1. ASSUME NEW d \in Controllers, NEW q \in Ports
        PROVE  BasesOf(d, q, regs[d][q], regs'[d][q])
    <3>1. CASE d = c
      BY <1>5, <1>13, <1>14, <3>1 DEF BasesOf, AhciInv, RegsInv
    <3>2. CASE d # c
      BY <1>14, <3>2 DEF BasesOf
    <3> QED
      BY <3>1, <3>2
  <2> QED
    BY <2>1 DEF BasesStay
<1> QED
  BY <1>15, <1>16, <1>17, <1>18, <1>19 DEF AhciInv

\* The engines of a port follow the bits that control them, and commands are carried out.
LEMMA PortHardwareInv ==
  ASSUME AhciInv, NEW c \in Controllers, NEW p \in Ports, UNCHANGED devices,
         CommandEngine(c, p) \/ FisEngine(c, p) \/ \E s \in Slots : Complete(c, p, s)
  PROVE  AhciInv' /\ BasesStay
<1>1. PICK h : h = regs[c][p]
  OBVIOUS
<1>2. h \in PortRegisters /\ UNCHANGED <<adapters, pc, item, port, slot, hba, devices>>
  BY <1>1 DEF AhciInv, TypeInv, CommandEngine, FisEngine, Complete
<1>3. ASSUME NEW r \in PortRegisters, regs' = [regs EXCEPT ![c][p] = r],
             r.list = h.list, r.fis = h.fis, r.issue \subseteq h.issue,
             PortAt(h) => PortAt(r)
      PROVE  AhciInv' /\ BasesStay
  <2>1. Changed(c, p, r)
    BY <1>3, ChangedIs DEF AhciInv
  <2>2. BasesOf(c, p, regs[c][p], r)
    BY <1>1, <1>3 DEF BasesOf
  <2>3. c \notin Taken => r.list # "kernel" /\ r.fis # "kernel"
    BY <1>1, <1>3 DEF AhciInv, RegsInv
  <2> QED
    BY <1>1, <1>2, <1>3, <2>1, <2>2, <2>3, HardwareWrites
<1>4. CASE CommandEngine(c, p)
  <2>1. PICK v : v = h.st
    OBVIOUS
  <2>2. PICK r : r = [h EXCEPT !.cr = v]
    OBVIOUS
  <2>3. regs' = [regs EXCEPT ![c][p] = r]
    BY <1>4, <1>1, <2>1, <2>2 DEF CommandEngine
  <2>4. r \in PortRegisters /\ r.cr = v /\ Differs(h, r, "cr")
    BY <1>2, <2>1, <2>2 DEF PortRegisters, Differs
  <2>5. PortAt(h) => PortAt(r)
    BY <2>1, <2>4 DEF PortAt, Stopped, Based, Differs, Sending
  <2> QED
    BY <1>3, <2>3, <2>4, <2>5 DEF Differs
<1>5. CASE FisEngine(c, p)
  <2>1. PICK v : v = h.fre
    OBVIOUS
  <2>2. PICK r : r = [h EXCEPT !.fr = v]
    OBVIOUS
  <2>3. regs' = [regs EXCEPT ![c][p] = r]
    BY <1>5, <1>1, <2>1, <2>2 DEF FisEngine
  <2>4. r \in PortRegisters /\ r.fr = v /\ Differs(h, r, "fr")
    BY <1>2, <2>1, <2>2 DEF PortRegisters, Differs
  <2>5. PortAt(h) => PortAt(r)
    BY <2>1, <2>4 DEF PortAt, Stopped, Based, Differs, Sending
  <2> QED
    BY <1>3, <2>3, <2>4, <2>5 DEF Differs
<1>6. CASE \E s \in Slots : Complete(c, p, s)
  <2>1. PICK s \in Slots : Complete(c, p, s)
    BY <1>6
  <2>2. PICK v : v = h.issue \ {s}
    OBVIOUS
  <2>3. PICK r : r = [h EXCEPT !.issue = v]
    OBVIOUS
  <2>4. regs' = [regs EXCEPT ![c][p] = r]
    BY <1>1, <2>1, <2>2, <2>3 DEF Complete
  <2>5. r \in PortRegisters /\ r.issue = v /\ Differs(h, r, "issue")
    BY <1>2, <2>2, <2>3 DEF PortRegisters, Differs
  <2>6. PortAt(h) => PortAt(r)
    BY <2>5 DEF PortAt, Stopped, Based, Differs, Sending
  <2> QED
    BY <1>3, <2>2, <2>4, <2>5, <2>6 DEF Differs
<1> QED
  BY <1>4, <1>5, <1>6

\* Every step of the BIOS and the controllers keeps the invariant.
LEMMA EnvironmentInv ==
  ASSUME AhciInv, Environment, UNCHANGED devices
  PROVE  AhciInv' /\ BasesStay
<1>1. PICK c \in Controllers : Controls(c) \/ \E p \in Ports : BiosUses(c, p)
  BY DEF Environment
<1>2. CASE \E p \in Ports : BiosUses(c, p)
  BY <1>2, BiosUsesInv
<1>3. CASE BiosLetsGo(c) \/ BiosFinishes(c)
  BY <1>3, BiosStepsInv
<1>4. CASE ResetDone(c)
  BY <1>4, ResetDoneInv
<1>5. CASE \E p \in Ports : CommandEngine(c, p) \/ FisEngine(c, p) \/ \E s \in Slots : Complete(c, p, s)
  BY <1>5, PortHardwareInv
<1> QED
  BY <1>1, <1>2, <1>3, <1>4, <1>5 DEF Controls

\* So does every step of the driver.
LEMMA DriverInv ==
  ASSUME AhciInv, Driver, UNCHANGED devices
  PROVE  AhciInv' /\ BasesStay
<1>1. NextController \/ ControllerStep \/ PortWait \/ PortWrite
  BY DEF Driver, ControllerStep, PortWait, PortWrite
<1> QED
  BY <1>1, NextControllerInv, ControllerStepInv, PortWaitInv, PortWriteInv

-----------------------------------------------------------------------------
(* The kernel's start, one after the other.                                *)

\* The list is built before the driver goes through it.
StageInv == stage \in {"interrupts", "pci"} => pc = "next" /\ item = 0

DriversInv == IntInv /\ WalkInv /\ AhciInv /\ StageInv

ListInv ==
  /\ devices \in Seq(Locations)
  /\ \A i, j \in 1 .. Len(devices) : devices[i] = devices[j] => i = j

\* The list that the driver goes through has no repetitions.
LEMMA WalkList == WalkInv => ListInv
BY DEF WalkInv, MetDevices, ListInv

\* At first no controller is the driver's.
LEMMA AhciInitInv ==
  ASSUME NEW m, \A c \in DOMAIN m : m[c] \in Controller, AhciInit(m), devices = << >>
  PROVE  AhciInv
<1>1. /\ adapters = m /\ pc = "next" /\ item = 0 /\ port = 0 /\ slot = 0 /\ Controllers = DOMAIN m
      /\ devices \in Seq(Locations) /\ Len(devices) = 0
      /\ hba = [c \in DOMAIN m |->
                  [dma |-> m[c].handoff, bios |-> m[c].handoff, busy |-> FALSE, claimed |-> FALSE,
                   reset |-> FALSE, ahci |-> m[c].sam, irqs |-> FALSE]]
      /\ regs \in [DOMAIN m -> {[p \in Ports |-> Idle], [p \in Ports |-> Running]}]
  BY DEF AhciInit, Controllers
<1>2. \A c \in Controllers : m[c].handoff \in BOOLEAN /\ m[c].sam \in BOOLEAN
  BY <1>1, ControllerIs
<1>3. pc \notin AtController /\ pc \notin Setup \cup Sending /\ pc \notin Early \cup {"mode"}
  BY <1>1 DEF AtController, Early, Late, Setup, Sending
<1>4. Taken = {} /\ Switched = {}
  BY <1>1, <1>3 DEF Taken, Switched, Before
<1>5. ItemInv
  BY <1>1, <1>3 DEF ItemInv
<1>6. hba \in [Controllers -> Registers]
  BY <1>1, <1>2 DEF Registers
<1>7. ASSUME NEW c \in Controllers, NEW p \in Ports
      PROVE  regs[c][p] = Idle \/ regs[c][p] = Running
  BY <1>1
<1>8. TypeInv
  <2>1. /\ [p \in Ports |-> Idle] \in [Ports -> PortRegisters]
        /\ [p \in Ports |-> Running] \in [Ports -> PortRegisters]
    BY IdleIs
  <2> QED
    BY <1>1, <1>6, <2>1 DEF TypeInv
<1>9. ASSUME NEW c \in Controllers
      PROVE  Rules(c, hba[c])
  <2>1. /\ hba[c].bios = m[c].handoff /\ hba[c].busy = FALSE /\ hba[c].reset = FALSE
    BY <1>1
  <2> QED
    BY <1>1, <1>4, <2>1 DEF Rules, Early
<1>10. RegsInv
  <2>1. \A c \in Controllers, p \in Ports :
          regs[c][p].list # "kernel" /\ regs[c][p].fis # "kernel" /\ regs[c][p].issue = {}
    BY <1>7, IdleIs
  <2> QED
    BY <1>3, <2>1 DEF RegsInv
<1> QED
  BY <1>5, <1>8, <1>9, <1>10 DEF AhciInv, HbaInv

\* While the driver has not begun, the list may grow.
LEMMA AhciIdleInv ==
  ASSUME AhciInv, pc = "next", item = 0, UNCHANGED ahcivars, ListInv'
  PROVE  AhciInv'
<1>1. /\ pc' = "next" /\ item' = 0
      /\ UNCHANGED <<adapters, pc, item, port, slot, hba, regs>> /\ Controllers' = Controllers
  BY DEF ahcivars, Controllers
<1>2. pc \notin AtController /\ pc \notin Setup \cup Sending /\ pc \notin Early \cup {"mode"}
  BY DEF AtController, Early, Late, Setup, Sending
<1>3. Taken = {} /\ Switched = {} /\ Taken' = {} /\ Switched' = {}
  BY <1>1, <1>2 DEF Taken, Switched, Before
<1>4. ItemInv'
  BY <1>1, <1>2, LenProperties DEF AhciInv, ItemInv, ListInv
<1>5. TypeInv'
  BY <1>1 DEF AhciInv, TypeInv
<1>6. ASSUME NEW c \in Controllers
      PROVE  Rules(c, hba[c])'
  <2>1. Rules(c, hba[c])
    BY DEF AhciInv, HbaInv
  <2> QED
    BY <1>1, <1>3, <2>1 DEF Rules, Early
<1>7. RegsInv'
  BY <1>1, <1>2, <1>3 DEF AhciInv, RegsInv
<1> QED
  BY <1>1, <1>4, <1>5, <1>6, <1>7 DEF AhciInv, HbaInv

\* A step of something else.
LEMMA AhciStutterInv ==
  ASSUME AhciInv, UNCHANGED <<ahcivars, devices>>
  PROVE  AhciInv' /\ BasesStay
<1>1. /\ UNCHANGED <<adapters, pc, item, port, slot, hba, regs, devices>>
      /\ Controllers' = Controllers
  BY DEF ahcivars, Controllers
<1>2. /\ AtDevice' = AtDevice /\ Taken' = Taken /\ Switched' = Switched
  BY <1>1 DEF Taken, Switched, Before, AtDevice
<1>3. ItemInv' /\ TypeInv'
  BY <1>1, <1>2 DEF AhciInv, ItemInv, TypeInv
<1>4. HbaInv'
  BY <1>1, <1>2 DEF AhciInv, HbaInv, Rules
<1>5. RegsInv'
  BY <1>1, <1>2 DEF AhciInv, RegsInv, PortAt, Stopped, Based, Here
<1>6. BasesStay
  BY <1>1 DEF BasesStay, BasesOf
<1> QED
  BY <1>3, <1>4, <1>5, <1>6 DEF AhciInv

\* The same for the interrupts.
LEMMA IntStutterInv == ASSUME IntInv, UNCHANGED intvars PROVE IntInv'
<1>1. UNCHANGED <<intpc, outs, pic, interrupts, gates, loaded, vector, room>>
  BY DEF intvars
<1>2. PicInv'
  BY <1>1 DEF IntInv, PicInv, Expecting, Shaped
<1>3. GateInv'
  BY <1>1 DEF IntInv, GateInv
<1> QED
  BY <1>2, <1>3 DEF IntInv

\* Every machine starts as the invariant says.
LEMMA DriversInitInv == ASSUME Init PROVE DriversInv
<1>1. PICK m \in Machines :
        /\ stage = "interrupts" /\ IntInit(m.masked, m.room) /\ PciInit(m.topology)
        /\ AhciInit(m.adapters)
  BY DEF Init
<1>2. /\ SoundTopology(m.topology)
      /\ \A c \in DOMAIN m.adapters : m.adapters[c] \in Controller
  BY MachineAssumption
<1>3. IntInv
  BY <1>1, IntInitInv
<1>4. WalkInv
  BY <1>1, <1>2, PciInitInv
<1>5. devices = << >>
  BY <1>1 DEF PciInit
<1>6. AhciInv
  BY <1>1, <1>2, <1>5, AhciInitInv
<1>7. StageInv
  BY <1>1 DEF StageInv, AhciInit
<1> QED
  BY <1>3, <1>4, <1>6, <1>7 DEF DriversInv

\* Every step keeps the invariant, and changes the base registers only as it may.
LEMMA DriversNextInv == ASSUME DriversInv, [Next]_vars PROVE DriversInv' /\ (BasesStay \/ UNCHANGED ahcivars)
<1>1. IntInv /\ WalkInv /\ AhciInv /\ StageInv
  BY DEF DriversInv
<1>2. CASE InterruptsStep
  <2>1. stage = "interrupts" /\ IntNext /\ UNCHANGED <<pcivars, ahcivars>>
    BY <1>2 DEF InterruptsStep
  <2>2. IntInv' /\ WalkInv'
    BY <1>1, <2>1, IntStepInv, PciStutterInv
  <2>3. UNCHANGED <<ahcivars, devices>>
    BY <2>1 DEF pcivars
  <2>4. AhciInv'
    BY <1>1, <2>3, AhciStutterInv
  <2>5. StageInv'
    BY <1>1, <2>1 DEF StageInv, ahcivars
  <2> QED
    BY <2>1, <2>2, <2>4, <2>5 DEF DriversInv
<1>3. CASE PciStep
  <2>1. stage = "pci" /\ PciNext /\ UNCHANGED <<intvars, ahcivars>>
    BY <1>3 DEF PciStep
  <2>2. IntInv' /\ WalkInv'
    BY <1>1, <2>1, IntStutterInv, PciNextInv
  <2>3. (WalkInv => ListInv)'
    BY WalkList, PTL
  <2>4. pc = "next" /\ item = 0
    BY <1>1, <2>1 DEF StageInv
  <2>5. AhciInv'
    BY <1>1, <2>1, <2>2, <2>3, <2>4, AhciIdleInv
  <2>6. StageInv'
    BY <2>1, <2>4 DEF StageInv, ahcivars
  <2> QED
    BY <2>1, <2>2, <2>5, <2>6 DEF DriversInv
<1>4. CASE DiskStep
  <2>1. /\ Driver /\ UNCHANGED <<intvars, pcivars>> /\ stage' \notin {"interrupts", "pci"}
    BY <1>4 DEF DiskStep
  <2>2. IntInv' /\ WalkInv'
    BY <1>1, <2>1, IntStutterInv, PciStutterInv
  <2>3. UNCHANGED devices
    BY <2>1 DEF pcivars
  <2>4. AhciInv' /\ BasesStay
    BY <1>1, <2>1, <2>3, DriverInv
  <2>5. StageInv'
    BY <2>1 DEF StageInv
  <2> QED
    BY <2>2, <2>4, <2>5 DEF DriversInv
<1>5. CASE Hardware
  <2>1. Environment /\ UNCHANGED <<stage, intvars, pcivars>>
    BY <1>5 DEF Hardware, Around
  <2>2. IntInv' /\ WalkInv'
    BY <1>1, <2>1, IntStutterInv, PciStutterInv
  <2>3. UNCHANGED devices
    BY <2>1 DEF pcivars
  <2>4. AhciInv' /\ BasesStay
    BY <1>1, <2>1, <2>3, EnvironmentInv
  <2>5. pc' = pc /\ item' = item
    BY <2>1 DEF Environment, Controls, BiosUses, BiosLetsGo, BiosFinishes, ResetDone,
                CommandEngine, FisEngine, Complete
  <2>6. StageInv'
    BY <1>1, <2>1, <2>5 DEF StageInv
  <2> QED
    BY <2>2, <2>4, <2>6 DEF DriversInv
<1>6. CASE UNCHANGED vars
  <2>1. UNCHANGED <<stage, intvars, pcivars, ahcivars, devices>>
    BY <1>6 DEF vars, pcivars
  <2>2. IntInv' /\ WalkInv' /\ AhciInv'
    BY <1>1, <2>1, IntStutterInv, PciStutterInv, AhciStutterInv
  <2>3. StageInv'
    BY <1>1, <2>1 DEF StageInv, ahcivars
  <2> QED
    BY <2>1, <2>2, <2>3 DEF DriversInv
<1> QED
  BY <1>2, <1>3, <1>4, <1>5, <1>6 DEF Next, Kmain

\* A command is issued last, by the driver that then waits.
LEMMA AhciInvComplete == ASSUME AhciInv PROVE CommandComplete
<1>1. SUFFICES ASSUME NEW c \in Controllers, NEW p \in Ports, NEW s \in regs[c][p].issue,
                      regs[c][p].cr
               PROVE  /\ hba[c].dma /\ hba[c].ahci
                      /\ regs[c][p].list = "kernel" /\ regs[c][p].fis = "kernel" /\ regs[c][p].fr
                      /\ regs[c][p].built[s] = {"header", "table", "prdt"}
  BY DEF CommandComplete
<1>2. pc = "wait" /\ c = AtDevice /\ p = port /\ s = slot
  BY DEF AhciInv, RegsInv
<1>3. pc \in Sending /\ pc \in AtController /\ pc \notin Early \cup {"mode"}
  BY <1>2 DEF Sending, AtController, Early
<1>4. /\ c \in Taken /\ c \in Switched
  BY <1>2, <1>3, AtDeviceTaken DEF Taken, Switched, AhciInv
<1>5. hba[c].dma /\ hba[c].ahci
  BY <1>4 DEF AhciInv, HbaInv, Rules
<1>6. PortAt(regs[c][p])
  BY <1>2, <1>3 DEF AhciInv, RegsInv, Here
<1>7. /\ regs[c][p] \in PortRegisters /\ s \in Slots
  BY <1>2, <1>3 DEF AhciInv, TypeInv, ItemInv
<1>8. regs[c][p].built[s] = Parts
  BY <1>2, <1>6, <1>7 DEF PortAt, PortRegisters
<1> QED
  BY <1>2, <1>3, <1>5, <1>6, <1>8 DEF PortAt, Based, Parts

\* The invariant holds in every state of every machine.
THEOREM DriversInvariant == Spec => []DriversInv
<1>1. Init => DriversInv
  BY DriversInitInv
<1>2. DriversInv /\ [Next]_vars => DriversInv'
  BY DriversNextInv
<1> QED
  BY <1>1, <1>2, PTL DEF Spec

\* No device can interrupt the kernel at a vector without a gate, and exceptions are
\* reported under their own numbers: whatever lines the BIOS masked, and however much
\* memory there is for the wrappers (init_interrupts).
THEOREM NoStrayInterruptAlways == Spec => []NoStrayInterrupt
<1>1. DriversInv => NoStrayInterrupt
  BY IntInvStray DEF DriversInv
<1> QED
  BY <1>1, DriversInvariant, PTL

\* The PCI list never holds a device twice, nor one that cannot be reached, however the
\* buses are nested (init_pci).
THEOREM FoundOnceAlways == Spec => []FoundOnce
<1>1. DriversInv => FoundOnce
  BY WalkInvFound DEF DriversInv
<1> QED
  BY <1>1, DriversInvariant, PTL

\* A command that a controller may take is complete, and the controller set up for it,
\* whenever the BIOS and the engines of the ports act (__send_cmd).
THEOREM CommandCompleteAlways == Spec => []CommandComplete
<1>1. DriversInv => CommandComplete
  BY AhciInvComplete DEF DriversInv
<1> QED
  BY <1>1, DriversInvariant, PTL

\* The base registers of a port are written while its engines stand still and nobody else
\* uses the controller, and stay (__init_port).
THEOREM BasesStableAlways == Spec => BasesStable
<1>1. DriversInv /\ [Next]_vars =>
        [\A c \in Controllers, p \in Ports :
           LET old == regs[c][p]
               new == regs'[c][p]
           IN  /\ old.list # "kernel" /\ new.list = "kernel" => Quiet(c, p)
               /\ old.fis # "kernel" /\ new.fis = "kernel" => Quiet(c, p)
               /\ old.list = "kernel" => new.list = "kernel"
               /\ old.fis = "kernel" => new.fis = "kernel"]_ahcivars
  <2>1. BasesStay =>
          \A c \in Controllers, p \in Ports :
           LET old == regs[c][p]
               new == regs'[c][p]
           IN  /\ old.list # "kernel" /\ new.list = "kernel" => Quiet(c, p)
               /\ old.fis # "kernel" /\ new.fis = "kernel" => Quiet(c, p)
               /\ old.list = "kernel" => new.list = "kernel"
               /\ old.fis = "kernel" => new.fis = "kernel"
    BY DEF BasesStay, BasesOf
  <2> QED
    BY <2>1, DriversNextInv
<1> QED
  BY <1>1, DriversInvariant, PTL DEF Spec, BasesStable
=============================================================================
