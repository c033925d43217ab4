----------------------------- MODULE BootRecords -----------------------------
(***************************************************************************)
(* boot/mbr and boot/vbr.  The master boot record lets the user type the      *)
(* number of a partition and runs the volume boot record of it, which loads   *)
(* the second stage, BOOT.BIN, to 0x7E00.                                     *)
(*                                                                         *)
(* Both are at 0x7C00 when they run, so that a volume boot record that could  *)
(* not be read means that the master boot record runs again.  What one stage  *)
(* tells the next is in dx, in si and on the stack, top first in `stack`.     *)
(***************************************************************************)
EXTENDS Fat32

MaxSectors == 32          \* larger clusters are refused
RecordStart == 31744      \* 0x7C00
SecondStage == 32256      \* 0x7E00
Word16 == 65536

\* A disk and the BIOS that boots from it: the drive's number, whether extended reads
\* are there and whether they may fail, the partitions, and whether a word behind the
\* partition table that is looked at as the size of one is not zero.
Slots == 1 .. 4
Disks == [drive : Nat, extensions : BOOLEAN, fails : BOOLEAN,
          partitions : [Slots -> [lba : Nat, size : Nat]], behind : BOOLEAN]

VARIABLES
  disk,
  recpc,      \* "start", "input", "probe", "select" or "halt" in the MBR, "record",
              \* "find", "read", "follow", "second" or "failed" in the VBR, or "lost"
  listed,     \* the numbers that the menu shows
  digit,      \* al: the digit that was typed
  dx,         \* the drive
  si,         \* the entry of the table that was booted
  stack,
  cx,         \* where the next cluster of the second stage goes
  part,       \* ebx: the cluster to read
  loaded      \* the cluster read to each address

recvars == <<disk, recpc, listed, digit, dx, si, stack, cx, part, loaded>>

RecordsInit(d) ==
  /\ disk = d
  /\ recpc = "start"
  /\ listed = {}
  /\ digit = 0
  /\ dx = d.drive
  /\ si = 0
  /\ stack = << >>
  /\ cx = 0
  /\ part = 0
  /\ loaded = << >>

Stray == 4

\* The digit is counted up from '0' and compared with 4, not '4': the walk goes on over
\* 208 entries behind the table.
ShowMenu ==
  /\ recpc = "start"
  /\ stack' = <<dx>>
  /\ listed' = {i - 1 : i \in {e \in Slots : disk.partitions[e].size # 0}}
               \cup (IF disk.behind THEN {Stray} ELSE {})
  /\ recpc' = "input"
  /\ UNCHANGED <<disk, digit, dx, si, cx, part, loaded>>

\* Other keys are read and ignored.
GetInput ==
  /\ recpc = "input"
  /\ digit' \in 0 .. 3
  /\ recpc' = "probe"
  /\ UNCHANGED <<disk, listed, dx, si, stack, cx, part, loaded>>

CheckExtensions ==
  /\ recpc = "probe"
  /\ dx' = Head(stack)
  /\ stack' = <<digit>> \o stack
  /\ recpc' = IF disk.extensions THEN "select" ELSE "halt"
  /\ UNCHANGED <<disk, listed, digit, si, cx, part, loaded>>

\* Interrupts are on: the next tick ends the hlt, and behind it is `print`, whose ret
\* takes the digit off the stack and runs the interrupt vectors at that address.
RunOverHlt ==
  /\ recpc = "halt"
  /\ stack' = Tail(stack)
  /\ recpc' = "lost"
  /\ UNCHANGED <<disk, listed, digit, dx, si, cx, part, loaded>>

Selected == Head(stack) + 1

\* The product that finds the entry clears dx.
RefuseEmpty ==
  /\ recpc = "select"
  /\ disk.partitions[Selected].size = 0
  /\ stack' = Tail(stack)
  /\ dx' = 0
  /\ recpc' = "input"
  /\ UNCHANGED <<disk, listed, digit, si, cx, part, loaded>>

\* Mutant: the product is left in dx.
LoadVbrFromZero ==
  /\ recpc = "select"
  /\ disk.partitions[Selected].size # 0
  /\ si' = Selected
  /\ dx' = 0
  /\ stack' = << >>
  /\ recpc' \in {"record"} \cup (IF disk.fails THEN {"start"} ELSE {})
  /\ UNCHANGED <<disk, listed, digit, cx, part, loaded>>

\* The result of the read is not looked at.
LoadVbr ==
  /\ recpc = "select"
  /\ disk.partitions[Selected].size # 0
  /\ si' = Selected
  /\ dx' = Head(Tail(stack))
  /\ stack' = Tail(Tail(stack))
  /\ recpc' \in {"record"} \cup (IF disk.fails THEN {"start"} ELSE {})
  /\ UNCHANGED <<disk, listed, digit, cx, part, loaded>>

\* The stack starts anew at 0x1000, under ebp.
StartVbr ==
  /\ recpc = "record"
  /\ stack' = <<disk.partitions[si].lba, dx>>
  /\ recpc' = IF volume.sectors > MaxSectors THEN "failed" ELSE "find"
  /\ UNCHANGED <<disk, listed, digit, dx, si, cx, part, loaded>>

\* Sizes are compared as signed numbers.
NotAbove(size) == size < Word16 \/ size > 2147483647

Bootable == Found("second") /\ NotAbove(volume.second.size)

FindSecond ==
  /\ recpc = "find"
  /\ Bootable
  /\ part' = volume.second.first
  /\ cx' = SecondStage
  /\ recpc' = "read"
  /\ UNCHANGED <<disk, listed, digit, dx, si, stack, loaded>>

NoSecond ==
  /\ recpc = "find"
  /\ ~ Bootable
  /\ recpc' = "failed"
  /\ UNCHANGED <<disk, listed, digit, dx, si, stack, cx, part, loaded>>

\* load_cluster, and the address of the next one, in 16 bits.
ReadSecond ==
  /\ recpc = "read"
  /\ loaded' = [a \in DOMAIN loaded \cup {cx} |-> IF a = cx THEN part ELSE loaded[a]]
  /\ cx' = (cx + ClusterBytes) % Word16
  /\ recpc' = "follow"
  /\ UNCHANGED <<disk, listed, digit, dx, si, stack, part>>

FollowSecond ==
  /\ recpc = "follow"
  /\ part' = volume.fat[part]
  /\ recpc' = IF part' < EndOfChain THEN "read" ELSE "second"
  /\ UNCHANGED <<disk, listed, digit, dx, si, stack, cx, loaded>>

RecordsNext ==
  \/ ShowMenu \/ CheckExtensions \/ RunOverHlt \/ RefuseEmpty \/ LoadVbr
  \/ StartVbr \/ FindSecond \/ NoSecond \/ ReadSecond \/ FollowSecond

-----------------------------------------------------------------------------

\* What the records rely on: the clusters of the second stage end below 64 KiB (its
\* size is compared with 65535, not with the 33280 bytes that there is room for).
SoundSecond(v) ==
  NotAbove(v.second.size) =>
    SecondStage + BytesPer(v) * Clusters(v, v.second) <= Word16

\* The second stage gets, on a stack that holds nothing else, the drive that the BIOS
\* booted from and the first sector of the partition that was chosen last, after any
\* number of refused choices and failed reads; it is there as a whole and in order;
\* that partition was on the menu; and the disk buffer, which holds a whole cluster of
\* the directory, never reaches the record that runs.
SecondStageReady ==
  /\ recpc = "second" =>
       /\ si = digit + 1 /\ digit \in listed
       /\ stack = <<disk.partitions[si].lba, disk.drive>>
       /\ loaded = [a \in {SecondStage + ClusterBytes * (i - 1) :
                             i \in 1 .. Clusters(volume, volume.second)} |->
                      Chain(volume, volume.second, (a - SecondStage) \div ClusterBytes + 1)]
  /\ recpc \in {"find", "read", "follow", "second"} =>
       DiskBuffer + ClusterBytes <= RecordStart
=============================================================================
