----------------------------- MODULE MCBlockMove -----------------------------
(***************************************************************************)
(* BlockMove on 112 bytes of memory that all differ: every alignment of     *)
(* destination and source that matters, counts around 0, 1 and 2 chunks,     *)
(* overlapping copies downwards by less and by more than a chunk.            *)
(***************************************************************************)
EXTENDS BlockMove

MCAddr == 0 .. 111
MCByte == 0 .. 112
MCMemories == {[a \in MCAddr |-> a]}

Counts == {0, 1, 15, 16, 17, 31, 32, 47}
Places == {0, 1, 8, 15, 16, 48, 56, 64}

MCFills == {[dest |-> d, byte |-> 112, count |-> n] : d \in Places, n \in Counts}
MCCopies ==
  {c \in [dest : Places, src : Places, count : Counts] :
     c.dest <= c.src \/ c.src + c.count <= c.dest}
=============================================================================
