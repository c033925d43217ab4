-------------------------- MODULE AllocatorPromise --------------------------
(***************************************************************************)
(* What a memory allocator of this kernel promises to its clients, whatever *)
(* its bookkeeping: at any time the client holds a set of byte ranges, a    *)
(* range is granted only inside an arena the allocator manages and clear of *)
(* every range still held, a range stays where it is until the client gives *)
(* it back, and the arenas and reserved ranges never move.  Ranges are [addr, len] records, so  *)
(* the len of a granted range is the number of bytes the client asked for.  *)
(***************************************************************************)
EXTENDS Integers

VARIABLES
  granted,   \* the ranges clients hold
  arenas,    \* the ranges the allocator may hand out from
  reserved   \* ranges inside the arenas that are never handed out

promiseVars == <<granted, arenas, reserved>>

\* Two ranges share no byte, and are not the same (possibly empty) range.
Apart(r, s) ==
  /\ r.addr # s.addr
  /\ r.addr + r.len <= s.addr \/ s.addr + s.len <= r.addr

Within(r, a) == a.addr <= r.addr /\ r.addr + r.len <= a.addr + a.len

Init == granted = {}

\* A request is served: one new range appears, inside an arena and apart from
\* everything granted before.
Grant ==
  /\ \E r \in granted' :
       /\ granted' = granted \cup {r}
       /\ \E a \in arenas : Within(r, a)
       /\ \A s \in granted \cup reserved : Apart(r, s)
  /\ UNCHANGED <<arenas, reserved>>

\* The client gives one range back.
Release ==
  /\ \E r \in granted : granted' = granted \ {r}
  /\ UNCHANGED <<arenas, reserved>>

Next == Grant \/ Release

Spec == Init /\ [][Next]_promiseVars
=============================================================================
