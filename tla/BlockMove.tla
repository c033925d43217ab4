------------------------------ MODULE BlockMove ------------------------------
(***************************************************************************)
(* kernel/core/mem.asm: memset and memcpy.                                  *)
(*                                                                         *)
(* Both routines first move the count modulo 16 byte by byte and then whole  *)
(* chunks of 16 bytes through xmm0.  One step here is one turn of a loop;    *)
(* the variables have the registers' names.  r9 and r10 say whether the       *)
(* chunk loop was entered with an aligned destination (movdqa) and source;   *)
(* movdqa faults on an address that is not a multiple of 16.                 *)
(***************************************************************************)
EXTENDS Integers

CONSTANTS
  Addr,      \* the addresses
  Byte,      \* what a byte can hold
  Memories,  \* what memory may hold when the routine is called
  Fills,     \* the calls of memset: [dest, byte, count]
  Copies     \* the calls of memcpy: [dest, src, count]

Chunk == 16

\* The n addresses from a on.
From(a, n) == a .. a + n - 1

\* memcpy's contract: it copies upwards, so a destination that overlaps the source
\* must not start behind it.
ASSUME CallAssumption ==
  /\ Addr \subseteq Nat
  /\ Memories \subseteq [Addr -> Byte]
  /\ \A f \in Fills :
       /\ f.dest \in Nat /\ f.byte \in Byte /\ f.count \in Nat
       /\ From(f.dest, f.count) \subseteq Addr
  /\ \A c \in Copies :
       /\ c.dest \in Nat /\ c.src \in Nat /\ c.count \in Nat
       /\ From(c.dest, c.count) \cup From(c.src, c.count) \subseteq Addr
       /\ c.dest <= c.src \/ c.src + c.count <= c.dest

VARIABLES
  pc,          \* the loop that runs, "bytes" or "chunks"; "ret" at the end
  mem,
  rdi, rsi,    \* where the loop writes and, in memcpy, reads
  rdx, r8,     \* bytes left for the byte loop and for the chunk loop
  r9, r10,     \* destination and source were aligned when the chunk loop began
  call, before \* the call's arguments, and memory when it was made

vars == <<pc, mem, rdi, rsi, rdx, r8, r9, r10, call, before>>

Copying == call \in Copies

Aligned(a) == a % Chunk = 0

\* The entry of either routine, up to its first loop.
Init ==
  /\ call \in Fills \cup Copies
  /\ before \in Memories
  /\ mem = before
  /\ rdi = call.dest
  /\ rsi = IF Copying THEN call.src ELSE 0
  /\ rdx = call.count % Chunk
  /\ r8 = call.count - (call.count % Chunk)
  /\ r9 = FALSE /\ r10 = FALSE
  /\ pc = "bytes"

\* What the routine stores at address a, when it writes at rdi.
Moved(a) == IF Copying THEN mem[rsi + (a - rdi)] ELSE call.byte

\* Store n bytes at rdi and advance the pointers.  A chunk is read as a whole
\* before it is written.
Store(n) ==
  /\ mem' = [a \in Addr |-> IF a \in From(rdi, n) THEN Moved(a) ELSE mem[a]]
  /\ rdi' = rdi + n
  /\ rsi' = IF Copying THEN rsi + n ELSE rsi

\* One turn of .fill.
MoveByte ==
  /\ pc = "bytes"
  /\ rdx # 0
  /\ Store(1)
  /\ rdx' = rdx - 1
  /\ UNCHANGED <<pc, r8, r9, r10, call, before>>

\* Mutant: memcpy looks at the destination's alignment only.
SelectLoopByDest ==
  /\ pc = "bytes"
  /\ rdx = 0
  /\ r9' = Aligned(rdi)
  /\ r10' = (Copying /\ Aligned(rdi))
  /\ pc' = "chunks"
  /\ UNCHANGED <<mem, rdi, rsi, rdx, r8, call, before>>

\* The alignment checks and the choice of the chunk loop.
SelectLoop ==
  /\ pc = "bytes"
  /\ rdx = 0
  /\ r9' = Aligned(rdi)
  /\ r10' = (Copying /\ Aligned(rsi))
  /\ pc' = "chunks"
  /\ UNCHANGED <<mem, rdi, rsi, rdx, r8, call, before>>

\* Mutant: the destination pointer advances by 8.
MoveChunkHalf ==
  /\ pc = "chunks"
  /\ r8 # 0
  /\ mem' = [a \in Addr |-> IF a \in From(rdi, Chunk) THEN Moved(a) ELSE mem[a]]
  /\ rdi' = rdi + 8
  /\ rsi' = IF Copying THEN rsi + Chunk ELSE rsi
  /\ r8' = r8 - Chunk
  /\ UNCHANGED <<pc, rdx, r9, r10, call, before>>

\* Mutant: the count of the chunk loop does not change.
MoveChunkForever ==
  /\ pc = "chunks"
  /\ r8 # 0
  /\ mem' = [a \in Addr |-> IF a \in From(rdi, Chunk) THEN Moved(a) ELSE mem[a]]
  /\ UNCHANGED <<pc, rdi, rsi, rdx, r8, r9, r10, call, before>>

\* One turn of the chunk loop that was chosen.
MoveChunk ==
  /\ pc = "chunks"
  /\ r8 # 0
  /\ Store(Chunk)
  /\ r8' = r8 - Chunk
  /\ UNCHANGED <<pc, rdx, r9, r10, call, before>>

Return ==
  /\ pc = "chunks"
  /\ r8 = 0
  /\ pc' = "ret"
  /\ UNCHANGED <<mem, rdi, rsi, rdx, r8, r9, r10, call, before>>

Next == MoveByte \/ SelectLoop \/ MoveChunk \/ Return

Spec == Init /\ [][Next]_vars /\ WF_vars(Next)

-----------------------------------------------------------------------------
(* Properties.                                                             *)

\* What address a holds once the whole call has been carried out on `before`.
Wanted(a) ==
  IF a \in From(call.dest, call.count)
    THEN IF Copying THEN before[call.src + (a - call.dest)] ELSE call.byte
    ELSE before[a]

\* When the routine returns, memory is what the call asks for and nothing else has
\* changed, whatever the count, the alignments, and (downwards) the overlap.
MovesExactly == pc = "ret" => \A a \in Addr : mem[a] = Wanted(a)

\* movdqa never meets an address that is not a multiple of 16.
NoFault ==
  pc = "chunks" /\ r8 # 0 =>
    /\ r9 => Aligned(rdi)
    /\ r10 => Aligned(rsi)

\* Every call returns.
Returns == <>(pc = "ret")

\* The inductive invariant: the bytes left are those behind rdi; below rdi the
\* destination holds its final bytes, everywhere else memory is as before.
Left == rdx + r8

TypeOK ==
  /\ pc \in {"bytes", "chunks", "ret"}
  /\ mem \in [Addr -> Byte]
  /\ rdi \in Nat /\ rsi \in Nat
  /\ rdx \in 0 .. Chunk - 1
  /\ r8 \in Nat
  /\ r9 \in BOOLEAN /\ r10 \in BOOLEAN
  /\ call \in Fills \cup Copies
  /\ before \in Memories

Progress ==
  /\ Left <= call.count
  /\ rdi = call.dest + (call.count - Left)
  /\ Copying => rsi = call.src + (call.count - Left)
  /\ r8 % Chunk = 0
  /\ pc # "bytes" => rdx = 0
  /\ pc = "ret" => r8 = 0

Written ==
  \A a \in Addr :
    mem[a] = IF call.dest <= a /\ a < rdi THEN Wanted(a) ELSE before[a]

LoopAligned ==
  pc = "chunks" => /\ r9 => Aligned(rdi)
                   /\ r10 => Copying /\ Aligned(rsi)

MoveInv == TypeOK /\ Progress /\ Written /\ LoopAligned
=============================================================================
