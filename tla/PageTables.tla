----------------------------- MODULE PageTables -----------------------------
(***************************************************************************)
(* boot/second_stage.asm, enter_lmode: long mode is entered with one page of *)
(* 2 MiB mapped to itself, and from there the first 64 GiB are mapped to      *)
(* themselves: the new page directories are filled beside the old one, then  *)
(* the page directory pointer table is rewritten under the running code.     *)
(*                                                                         *)
(* Pages and frames are counted in 2 MiB.  The code, its stack and all        *)
(* tables are in page 0.  The translation lookaside buffer is never flushed.  *)
(***************************************************************************)
EXTENDS Integers

CONSTANTS
  Dirs,       \* new page directories (64)
  PerTable    \* entries of a table (512)

ASSUME TableAssumption ==
  /\ PerTable \in Nat \ {0}
  /\ Dirs \in 1 .. PerTable

None == -1    \* an entry that is not present
Junk == -2    \* an entry that nobody has written yet

VARIABLES
  pagepc,     \* "tables", "paging", "pds", "pdpt" or "kernel"
  pdpt,       \* the directory each entry points to: 0 is the first one, then the new
  pd,         \* the frame in each entry of each directory
  rcx         \* the entries written by the loop that runs

pagevars == <<pagepc, pdpt, pd, rcx>>

Entries == 0 .. PerTable - 1
Pages == 0 .. Dirs * PerTable - 1

\* Memory behind the loader may hold anything.
PageInit ==
  /\ pagepc = "tables"
  /\ pdpt = [i \in Entries |-> Junk]
  /\ pd = [d \in 0 .. Dirs |-> [i \in Entries |-> Junk]]
  /\ rcx = 0

\* The three tables are wiped, and page 0 is entered.
MakeTables ==
  /\ pagepc = "tables"
  /\ pdpt' = [i \in Entries |-> IF i = 0 THEN 0 ELSE None]
  /\ pd' = [pd EXCEPT ![0] = [i \in Entries |-> IF i = 0 THEN 0 ELSE None]]
  /\ pagepc' = "paging"
  /\ UNCHANGED rcx

EnablePaging ==
  /\ pagepc = "paging"
  /\ pagepc' = "pds"
  /\ UNCHANGED <<pdpt, pd, rcx>>

\* Mutant: the frames start at 1.
MakePdShifted ==
  /\ pagepc = "pds"
  /\ pd' = [pd EXCEPT ![1 + rcx \div PerTable][rcx % PerTable] = rcx + 1]
  /\ IF rcx + 1 < Dirs * PerTable
       THEN rcx' = rcx + 1 /\ UNCHANGED pagepc
       ELSE rcx' = 0 /\ pagepc' = "pdpt"
  /\ UNCHANGED pdpt

\* One entry of the new page directories, which are behind the old one.
MakePd ==
  /\ pagepc = "pds"
  /\ pd' = [pd EXCEPT ![1 + rcx \div PerTable][rcx % PerTable] = rcx]
  /\ IF rcx + 1 < Dirs * PerTable
       THEN rcx' = rcx + 1 /\ UNCHANGED pagepc
       ELSE rcx' = 0 /\ pagepc' = "pdpt"
  /\ UNCHANGED pdpt

\* Mutant: the old page directory is kept as the first one.
MakePdptKeepsOld ==
  /\ pagepc = "pdpt"
  /\ pdpt' = [pdpt EXCEPT ![rcx] = rcx]
  /\ IF rcx + 1 < Dirs
       THEN rcx' = rcx + 1 /\ UNCHANGED pagepc
       ELSE rcx' = 0 /\ pagepc' = "kernel"
  /\ UNCHANGED pd

\* One entry of the page directory pointer table, which is in use.
MakePdpt ==
  /\ pagepc = "pdpt"
  /\ pdpt' = [pdpt EXCEPT ![rcx] = rcx + 1]
  /\ IF rcx + 1 < Dirs
       THEN rcx' = rcx + 1 /\ UNCHANGED pagepc
       ELSE rcx' = 0 /\ pagepc' = "kernel"
  /\ UNCHANGED pd

PageNext == MakeTables \/ EnablePaging \/ MakePd \/ MakePdpt

PageSpec == PageInit /\ [][PageNext]_pagevars

-----------------------------------------------------------------------------

Paging == pagepc \in {"pds", "pdpt", "kernel"}

\* Where page p is mapped to, None if it is not mapped.
Translate(p) ==
  LET d == pdpt[p \div PerTable]
  IN  IF d = None THEN None ELSE pd[d][p % PerTable]

AllPages == 0 .. PerTable * PerTable - 1

Translation == [p \in AllPages |-> Translate(p)]

\* While paging is on the page with the running code is mapped to itself; every page
\* is mapped to itself or not at all; and when the kernel is entered all of the first
\* 64 GiB are mapped, and nothing else is.
IdentityMapped ==
  Paging =>
    /\ Translate(0) = 0
    /\ \A p \in AllPages : Translate(p) \in {p, None}
    /\ pagepc = "kernel" => \A p \in AllPages : Translate(p) = p <=> p \in Pages

\* A page that has been mapped stays mapped to the same frame, so that rewriting the
\* tables under the running code needs no flush of the lookaside buffer.
NoFlushNeeded ==
  [][\A p \in AllPages : Paging /\ Translation[p] # None =>
        Translation'[p] = Translation[p]]_pagevars
=============================================================================
