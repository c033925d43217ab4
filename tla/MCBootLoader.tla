---------------------------- MODULE MCBootLoader ----------------------------
(***************************************************************************)
(* BootLoader on machines that vary one part at a time.  Machines that vary a *)
(* part fail at the next one, except for those that enter the kernel.        *)
(***************************************************************************)
EXTENDS BootLoader, TLC

\* The A20 line: on or not, raised at once, just in time, just too late or never.
GoodA20 == [on |-> FALSE, delay |-> [m \in 1 .. 3 |-> 1], fastSet |-> FALSE,
            alike |-> FALSE, controller |-> TRUE, waiting |-> "nothing"]
A20s == [on : BOOLEAN, delay : [1 .. 3 -> {0, A20Timeout - 1, A20Timeout, Never}],
         fastSet : BOOLEAN, alike : {FALSE}, controller : {TRUE}, waiting : {"nothing"}]
        \cup {[GoodA20 EXCEPT !.alike = TRUE]}

\* A BIOS that does not know of the line: a key is waiting, or nobody answers.
HardA20 == [GoodA20 EXCEPT !.delay[1] = Never]
Keyboards == {[HardA20 EXCEPT !.waiting = w] : w \in Keys}
             \cup {[HardA20 EXCEPT !.waiting = w, !.delay[2] = Never] : w \in Keys}
             \cup {[a EXCEPT !.controller = FALSE] : a \in {GoodA20, HardA20}}

ARegion(a, n, u) == [address |-> a, length |-> n, usable |-> u]

\* A cluster of one sector, three clusters, in three sectors of the FAT; two
\* clusters of two sectors; a directory without the file.
File(first, size) == [first |-> first, size |-> size]
AVolume(spc, size, root, fat) ==
  [sectors |-> spc, root |-> Append(root, "second"), fat |-> fat,
   kernel |-> File(130, size), second |-> File(130, size)]
Three == (130 :> 300) @@ (300 :> 7) @@ (7 :> EndOfChain)
Two == (130 :> 131) @@ (131 :> 268435455)
GoodVolume == AVolume(1, 1500, <<"other", "lfn", "kernel">>, Three)
NoFile == AVolume(1, 1500, <<"lfn", "other">>, Three)
Volumes == {NoFile, GoodVolume, AVolume(1, 1025, <<"kernel">>, Three),
            AVolume(2, 2048, <<"kernel">>, Two), AVolume(32, 16385, <<"kernel">>, Two)}

\* Regions below 1 MiB, reserved, just large enough or just not, out of reach.
Low == ARegion(0, 654336, TRUE)
Layouts == {<<Low, ARegion(1048576, 100000, TRUE)>>,
            <<Low, ARegion(1048575, 4000, TRUE), ARegion(1100000, 4000, FALSE),
              ARegion(1200000, 2107, TRUE), ARegion(1300000, 2108, TRUE)>>,
            <<ARegion(2000000, 3168, TRUE), ARegion(1048576, 1633, TRUE)>>,
            <<ARegion(2000000, 1500, TRUE), Low>>,
            <<Low, ARegion(RelLimit + 1, 100000, TRUE)>>,
            <<Low, ARegion(RelLimit, 100000, TRUE)>>,
            <<Low, ARegion(65536 + EndSignature, 100, FALSE), ARegion(1048576, 100000, TRUE)>>}

ABios(entries, last, first) == [entries |-> entries, last |-> last, first |-> first]
GoodBios == ABios(<<Low, ARegion(1048576, 100000, TRUE)>>, "zero", "ok")
NoBios == ABios(<<Low>>, "carry", "unsigned")

\* Maps of n entries: 170 fill the area and 172 are refused.
Long(n) == [i \in 1 .. n |-> ARegion(1048576 * i, 1000, FALSE)]
Bioses ==
  {ABios(Long(n), last, "ok") : n \in {2, 3, 169, 170, 172, 173}, last \in {"zero", "carry"}}
  \cup {ABios(<<Low>>, "carry", f) : f \in {"ok", "carry", "unsigned"}}
  \cup {ABios(Long(171), "carry", "ok")}
  \cup {ABios(l, "zero", "ok") : l \in Layouts}

AMode(answer, bpp, x, y) == [answer |-> answer, bpp |-> bpp, x |-> x, y |-> y]
Modes == {AMode(79, 32, 640, 480), AMode(79, 32, 480, 640), AMode(79, 32, 800, 600),
          AMode(79, 24, 1024, 768), AMode(335, 32, 1024, 768)}
AVideo(modes, vbe, settable) == [vbe |-> vbe, settable |-> settable, modes |-> modes]
GoodVideo == AVideo(<<AMode(79, 32, 640, 480)>>, TRUE, TRUE)
NoVideo == AVideo(<<>>, FALSE, TRUE)
Videos == {AVideo(l, TRUE, TRUE) : l \in UNION {[1 .. n -> Modes] : n \in 0 .. 3}}
          \cup {NoVideo, AVideo(<<AMode(79, 32, 640, 480)>>, TRUE, FALSE)}

\* The second stage in three and in two clusters, up to the last byte below 64 KiB and
\* too large; without it, and with clusters that are too large.
Rooms == {GoodVolume, AVolume(32, 32768, <<"lfn">>, Two),
          [AVolume(64, 65536, <<"kernel">>, Two) EXCEPT !.second = File(131, 100)],
          [GoodVolume EXCEPT !.root = <<"lfn", "kernel">>],
          [GoodVolume EXCEPT !.root = <<>>],
          [AVolume(32, 65536, <<>>, [c \in 130 .. 133 |-> IF c = 133 THEN EndOfChain ELSE c + 1])
             EXCEPT !.kernel = File(132, 32768)]}

\* A partition to boot, none, two; with and without extended reads, reads that fail and
\* something behind the table.
Parts(sizes) == [i \in Slots |-> [lba |-> 10 * i, size |-> sizes[i]]]
GoodDisk == [drive |-> 128, extensions |-> TRUE, fails |-> FALSE,
             partitions |-> Parts(<<65536, 0, 0, 0>>), behind |-> FALSE]
MCDisks == [drive : {129}, extensions : BOOLEAN, fails : BOOLEAN,
            partitions : {Parts(<<65536, 0, 0, 0>>), Parts(<<0, 9, 0, 1>>), Parts(<<0, 0, 0, 0>>)},
            behind : BOOLEAN]

AMachine(f, a, b, v, w) ==
  [features |-> f, a20 |-> a, bios |-> b, volume |-> v, video |-> w, disk |-> GoodDisk]

\* Machines that vary the records fail at the first check of the second stage.
RecordMachines ==
  {[AMachine({}, GoodA20, GoodBios, v, GoodVideo) EXCEPT !.disk = d] : d \in MCDisks, v \in Rooms}

MCMachines ==
  {AMachine(f, GoodA20, GoodBios, GoodVolume, GoodVideo) : f \in SUBSET Features}
  \cup {AMachine(Features, a, NoBios, GoodVolume, GoodVideo) : a \in A20s \cup Keyboards}
  \cup {AMachine(Features, GoodA20, b, NoFile, GoodVideo) : b \in Bioses}
  \cup {AMachine(Features, GoodA20, ABios(l, "carry", "ok"), v, NoVideo) :
          l \in Layouts, v \in Volumes}
  \cup {AMachine(Features, GoodA20, GoodBios, GoodVolume, w) : w \in Videos}
  \cup RecordMachines
=============================================================================
