--------------------------- MODULE BlockMoveProofs ---------------------------
(***************************************************************************)
(* Proofs about BlockMove, for every memory, call and count: memset and     *)
(* memcpy move exactly what they are asked to and never touch another byte.  *)
(***************************************************************************)
EXTENDS BlockMove, TLAPS

\* The facts about the call that the steps use.
LEMMA CallFacts ==
  ASSUME call \in Fills \cup Copies
  PROVE  /\ call.dest \in Nat /\ call.count \in Nat
         /\ \A a \in Int : call.dest <= a /\ a < call.dest + call.count => a \in Addr
         /\ Copying =>
              /\ call.src \in Nat
              /\ \A a \in Int : call.src <= a /\ a < call.src + call.count => a \in Addr
              /\ call.dest <= call.src \/ call.src + call.count <= call.dest
         /\ ~ Copying => call.byte \in Byte
<1>1. CASE Copying
  BY <1>1, CallAssumption DEF Copying, From
<1>2. CASE ~ Copying
  BY <1>2, CallAssumption DEF Copying, From
<1> QED BY <1>1, <1>2

\* Storing n of the bytes left brings the destination n bytes further and leaves
\* everything else alone: what is read has not been overwritten yet.
LEMMA StoreFurther ==
  ASSUME MoveInv, NEW n \in Nat, n <= Left, Store(n), UNCHANGED <<call, before>>
  PROVE  /\ mem' \in [Addr -> Byte]
         /\ Written'
         /\ rdi' = rdi + n /\ rdi' \in Nat
         /\ rsi' = (IF Copying THEN rsi + n ELSE rsi) /\ rsi' \in Nat
         /\ Copying' = Copying
<1> USE DEF MoveInv
<1>1. /\ rdi \in Nat /\ rsi \in Nat /\ rdx \in Nat /\ r8 \in Nat
      /\ mem \in [Addr -> Byte] /\ before \in [Addr -> Byte]
      /\ \A a \in Addr : a \in Nat
  BY CallAssumption DEF TypeOK, Chunk
<1>2. /\ call.dest \in Nat /\ call.count \in Nat
      /\ \A a \in Int : call.dest <= a /\ a < call.dest + call.count => a \in Addr
      /\ Copying =>
           /\ call.src \in Nat
           /\ \A a \in Int : call.src <= a /\ a < call.src + call.count => a \in Addr
           /\ call.dest <= call.src \/ call.src + call.count <= call.dest
      /\ ~ Copying => call.byte \in Byte
  BY CallFacts DEF TypeOK
<1>3. PICK k \in Nat : /\ k + Left = call.count
                       /\ rdi = call.dest + k
                       /\ Copying => rsi = call.src + k
  BY <1>1, <1>2 DEF Progress, Left
<1>4. Left \in Nat
  BY <1>1 DEF Left
<1>5. Copying' = Copying
  BY DEF Copying
<1>6. ASSUME NEW a \in From(rdi, n)
      PROVE  a \in Addr /\ Moved(a) = Wanted(a) /\ Moved(a) \in Byte
  <2>1. a \in Int /\ rdi <= a /\ a < rdi + n
    BY <1>1 DEF From
  <2>2. call.dest <= a /\ a < call.dest + call.count
    BY <2>1, <1>2, <1>3, <1>4
  <2>3. a \in From(call.dest, call.count) /\ a \in Addr
    BY <2>1, <2>2, <1>2 DEF From
  <2>4. CASE ~ Copying
    BY <2>3, <2>4, <1>2 DEF Moved, Wanted
  <2>5. CASE Copying
    <3> DEFINE s == rsi + (a - rdi)
    <3>1. s \in Int /\ s = call.src + (a - call.dest)
      BY <2>1, <2>5, <1>1, <1>2, <1>3
    <3>2. call.src <= s /\ s < call.src + call.count
      BY <3>1, <2>1, <2>2, <2>5, <1>2
    <3>3. s \in Addr
      BY <3>1, <3>2, <2>5, <1>2
    <3>4. rdi <= s \/ s < call.dest
      BY <3>1, <3>2, <2>1, <2>5, <1>2, <1>3
    <3>5. mem[s] = before[s]
      BY <3>1, <3>3, <3>4, <1>1, <1>2 DEF Written
    <3>6. Moved(a) = mem[s]
      BY <2>5 DEF Moved
    <3>7. Wanted(a) = before[s]
      BY <2>3, <2>5, <3>1 DEF Wanted
    <3> QED BY <2>3, <3>3, <3>5, <3>6, <3>7, <1>1
  <2> QED BY <2>4, <2>5
<1>7. mem' = [a \in Addr |-> IF a \in From(rdi, n) THEN Moved(a) ELSE mem[a]]
  BY DEF Store
<1>8. mem' \in [Addr -> Byte]
  BY <1>6, <1>7, <1>1
<1>9. rdi' = rdi + n /\ rdi' \in Nat
  BY <1>1 DEF Store
<1>10. Written'
  <2>1. ASSUME NEW a \in Addr
        PROVE  mem'[a] = IF call.dest <= a /\ a < rdi' THEN Wanted(a) ELSE before[a]
    <3>1. a \in Nat
      BY <1>1
    <3>2. CASE a \in From(rdi, n)
      <4>1. rdi <= a /\ a < rdi + n
        BY <3>2, <1>1 DEF From
      <4>2. call.dest <= a /\ a < rdi'
        BY <4>1, <3>1, <1>2, <1>3, <1>9
      <4>3. mem'[a] = Moved(a)
        BY <3>2, <1>7
      <4> QED BY <4>2, <4>3, <3>2, <1>6
    <3>3. CASE a \notin From(rdi, n)
      <4>1. mem'[a] = mem[a]
        BY <3>3, <1>7
      <4>2. a < rdi \/ rdi + n <= a
        BY <3>1, <3>3, <1>1 DEF From
      <4>3. (call.dest <= a /\ a < rdi) <=> (call.dest <= a /\ a < rdi')
        BY <4>2, <3>1, <1>1, <1>2, <1>9
      <4>4. mem[a] = IF call.dest <= a /\ a < rdi THEN Wanted(a) ELSE before[a]
        BY DEF Written
      <4> QED BY <4>1, <4>3, <4>4
    <3> QED BY <3>2, <3>3
  <2>2. \A a \in Addr : Wanted(a)' = Wanted(a)
    BY <1>5 DEF Wanted
  <2> QED BY <2>1, <2>2 DEF Written
<1>11. rsi' = (IF Copying THEN rsi + n ELSE rsi) /\ rsi' \in Nat
  BY <1>1 DEF Store
<1> QED BY <1>5, <1>8, <1>9, <1>10, <1>11

\* The entry of either routine establishes the invariant.
LEMMA EntryInv == Init => MoveInv
<1> SUFFICES ASSUME Init PROVE MoveInv
  OBVIOUS
<1> USE DEF Init
<1>1. /\ call.dest \in Nat /\ call.count \in Nat
      /\ Copying => call.src \in Nat
  BY CallFacts
<1>2. /\ call.count % Chunk \in 0 .. Chunk - 1
      /\ call.count - (call.count % Chunk) \in Nat
      /\ (call.count - (call.count % Chunk)) % Chunk = 0
  BY <1>1 DEF Chunk
<1>3. TypeOK
  BY <1>1, <1>2, CallAssumption DEF TypeOK
<1>4. Progress
  <2>1. PICK q \in Nat : q = call.count % Chunk /\ q <= call.count
    BY <1>1 DEF Chunk
  <2>2. rdx = q /\ r8 = call.count - q
    BY <2>1
  <2>3. Left = call.count /\ call.count - Left = 0
    BY <2>1, <2>2, <1>1 DEF Left
  <2>4. rdi = call.dest /\ (Copying => rsi = call.src)
    OBVIOUS
  <2>5. rdi = call.dest + 0 /\ (Copying => rsi = call.src + 0)
    BY <2>4, <1>1
  <2> QED BY <2>3, <2>5, <1>1, <1>2 DEF Progress
<1>5. Written
  BY <1>1, CallAssumption DEF Written
<1>6. LoopAligned
  BY DEF LoopAligned
<1> QED BY <1>3, <1>4, <1>5, <1>6 DEF MoveInv

\* Every step of the loops keeps it.
LEMMA StepInv == MoveInv /\ [Next]_vars => MoveInv'
<1> SUFFICES ASSUME MoveInv, [Next]_vars PROVE MoveInv'
  OBVIOUS
<1>t. /\ call \in Fills \cup Copies /\ before \in Memories
      /\ rdi \in Nat /\ rsi \in Nat /\ rdx \in 0 .. 15 /\ r8 \in Nat
      /\ r9 \in BOOLEAN /\ r10 \in BOOLEAN
  BY DEF MoveInv, TypeOK, Chunk
<1>c. /\ call.dest \in Nat /\ call.count \in Nat
      /\ Copying => call.src \in Nat
  BY <1>t, CallFacts
<1>p. /\ rdx + r8 <= call.count
      /\ rdi = call.dest + (call.count - (rdx + r8))
      /\ Copying => rsi = call.src + (call.count - (rdx + r8))
      /\ r8 % 16 = 0
      /\ pc # "bytes" => rdx = 0
      /\ pc = "ret" => r8 = 0
  BY DEF MoveInv, Progress, Left, Chunk
<1>1. CASE MoveByte
  <2>1. /\ pc = "bytes" /\ rdx # 0 /\ Store(1) /\ rdx' = rdx - 1
        /\ UNCHANGED <<pc, r8, r9, r10, call, before>>
    BY <1>1 DEF MoveByte
  <2>2. 1 <= Left
    BY <2>1, <1>t DEF Left
  <2>3. /\ mem' \in [Addr -> Byte] /\ Written'
        /\ rdi' = rdi + 1 /\ rdi' \in Nat
        /\ rsi' = (IF Copying THEN rsi + 1 ELSE rsi) /\ rsi' \in Nat
        /\ Copying' = Copying
    BY <2>1, <2>2, StoreFurther
  <2>4. TypeOK'
    BY <2>1, <2>3, <1>t DEF TypeOK, Chunk
  <2>5. Progress'
    <3>1. /\ Left' <= call'.count
          /\ rdi' = call'.dest + (call'.count - Left')
      BY <2>1, <2>3, <1>t, <1>c, <1>p DEF Left
    <3>2. Copying' => rsi' = call'.src + (call'.count - Left')
      <4>1. CASE Copying
        BY <4>1, <2>1, <2>3, <1>t, <1>c, <1>p DEF Left
      <4> QED BY <4>1, <2>3
    <3> QED BY <3>1, <3>2, <2>1, <1>p DEF Progress, Chunk
  <2>6. LoopAligned'
    BY <2>1 DEF LoopAligned
  <2> QED BY <2>3, <2>4, <2>5, <2>6 DEF MoveInv
<1>2. CASE SelectLoop
  <2>1. TypeOK'
    BY <1>2 DEF SelectLoop, MoveInv, TypeOK, Aligned
  <2>2. Progress'
    BY <1>2, <1>p DEF SelectLoop, Progress, Left, Copying, Chunk
  <2>3. Written'
    <3>1. Copying' = Copying
      BY <1>2 DEF SelectLoop, Copying
    <3>2. \A a \in Addr : Wanted(a)' = Wanted(a)
      BY <1>2, <3>1 DEF SelectLoop, Wanted
    <3> QED BY <1>2, <3>2 DEF SelectLoop, MoveInv, Written
  <2>4. LoopAligned'
    BY <1>2 DEF SelectLoop, LoopAligned, Aligned, Copying
  <2> QED BY <2>1, <2>2, <2>3, <2>4 DEF MoveInv
<1>3. CASE MoveChunk
  <2>1. /\ pc = "chunks" /\ r8 # 0 /\ Store(16) /\ r8' = r8 - 16
        /\ UNCHANGED <<pc, rdx, r9, r10, call, before>>
    BY <1>3 DEF MoveChunk, Chunk
  <2>2. 16 <= r8
    BY <2>1, <1>t, <1>p
  <2>3. 16 <= Left
    BY <2>2, <1>t DEF Left
  <2>4. /\ mem' \in [Addr -> Byte] /\ Written'
        /\ rdi' = rdi + 16 /\ rdi' \in Nat
        /\ rsi' = (IF Copying THEN rsi + 16 ELSE rsi) /\ rsi' \in Nat
        /\ Copying' = Copying
    BY <2>1, <2>3, StoreFurther
  <2>5. TypeOK'
    BY <2>1, <2>2, <2>4, <1>t DEF TypeOK, Chunk, MoveInv
  <2>6. Progress'
    BY <2>1, <2>2, <2>4, <1>t, <1>c, <1>p DEF Progress, Left, Chunk
  <2>7. LoopAligned'
    <3>1. (r9 => rdi % 16 = 0) /\ (r10 => Copying /\ rsi % 16 = 0)
      BY <2>1 DEF MoveInv, LoopAligned, Aligned, Chunk
    <3>2. (rdi + 16) % 16 = rdi % 16 /\ (rsi + 16) % 16 = rsi % 16
      BY <1>t
    <3> QED BY <3>1, <3>2, <2>1, <2>4 DEF LoopAligned, Aligned, Chunk
  <2> QED BY <2>4, <2>5, <2>6, <2>7 DEF MoveInv
<1>4. CASE Return
  <2>1. TypeOK'
    BY <1>4 DEF Return, MoveInv, TypeOK
  <2>2. Progress'
    BY <1>4, <1>p DEF Return, Progress, Left, Copying, Chunk
  <2>3. Written'
    <3>1. Copying' = Copying
      BY <1>4 DEF Return, Copying
    <3>2. \A a \in Addr : Wanted(a)' = Wanted(a)
      BY <1>4, <3>1 DEF Return, Wanted
    <3> QED BY <1>4, <3>2 DEF Return, MoveInv, Written
  <2>4. LoopAligned'
    BY <1>4 DEF Return, LoopAligned
  <2> QED BY <2>1, <2>2, <2>3, <2>4 DEF MoveInv
<1>5. CASE UNCHANGED vars
  <2>1. Copying' = Copying
    BY <1>5 DEF vars, Copying
  <2>2. \A a \in Addr : Wanted(a)' = Wanted(a)
    BY <1>5, <2>1 DEF vars, Wanted
  <2>3. Written'
    BY <1>5, <2>2 DEF vars, MoveInv, Written
  <2>4. TypeOK' /\ Progress' /\ LoopAligned'
    BY <1>5, <2>1 DEF vars, MoveInv, TypeOK, Progress, Left, LoopAligned, Aligned
  <2> QED BY <2>3, <2>4 DEF MoveInv
<1> QED BY <1>1, <1>2, <1>3, <1>4, <1>5 DEF Next

\* The invariant of both routines, for every call.
THEOREM MoveInvariant == Spec => []MoveInv
<1> QED BY EntryInv, StepInv, PTL DEF Spec

\* memset and memcpy leave exactly the bytes the call asks for, for every count,
\* every alignment and every overlap that the contract allows.
THEOREM MovesExactlyAlways == Spec => []MovesExactly
<1>1. MoveInv => MovesExactly
  <2> SUFFICES ASSUME MoveInv, pc = "ret", NEW a \in Addr
               PROVE  mem[a] = Wanted(a)
    BY DEF MovesExactly
  <2>1. call.dest \in Nat /\ call.count \in Nat /\ a \in Nat
    BY CallFacts, CallAssumption DEF MoveInv, TypeOK
  <2>2. rdi = call.dest + call.count
    BY <2>1 DEF MoveInv, Progress, Left
  <2>3. a \in From(call.dest, call.count) <=> (call.dest <= a /\ a < rdi)
    BY <2>1, <2>2 DEF From
  <2> QED BY <2>3 DEF MoveInv, Written, Wanted
<1> QED BY <1>1, MoveInvariant, PTL

\* The aligned instructions are only used on aligned addresses.
THEOREM NoFaultAlways == Spec => []NoFault
<1>1. MoveInv => NoFault
  BY DEF MoveInv, LoopAligned, NoFault
<1> QED BY <1>1, MoveInvariant, PTL
=============================================================================
