-------------------------------- MODULE Fat32 --------------------------------
(***************************************************************************)
(* boot/util/fat32.asm, which the volume boot record and the second stage     *)
(* share: a file is looked up in the first cluster of the root directory of   *)
(* a FAT32 volume and followed through the FAT, cluster by cluster.  The      *)
(* directory and the sectors of the FAT are read to 0x2000.                   *)
(***************************************************************************)
EXTENDS Integers, Sequences

EndOfChain == 268435448   \* 0x0FFFFFF8
SectorSize == 512
FatEntries == 128         \* entries per FAT sector
DiskBuffer == 8192        \* 0x2000

VARIABLE
  volume      \* sectors per cluster, the kinds of the entries in the first cluster of
              \* the root directory, first cluster and size of each file, the FAT

BytesPer(v) == SectorSize * v.sectors

ClusterBytes == BytesPer(volume)

\* A file is found when an entry of the first cluster of the root directory has its
\* name; entries of long names are passed over.
Found(name) == \E i \in 1 .. Len(volume.root) : volume.root[i] = name

-----------------------------------------------------------------------------

\* The clusters that the size of a file calls for, and the n-th one of its chain.
Clusters(v, f) == (f.size + BytesPer(v) - 1) \div BytesPer(v)

Chain(v, f, n) ==
  LET nth[i \in Nat] == IF i <= 1 THEN f.first ELSE v.fat[nth[i - 1]]
  IN  nth[n]

\* A volume: clusters have a number below the marks for the end of a chain, and neither
\* file is empty.
SoundVolume(v) ==
  /\ v.sectors \in Nat \ {0}
  /\ \A f \in {v.kernel, v.second} : f.first \in Nat /\ f.size \in Nat \ {0}
  /\ \A c \in DOMAIN v.fat : c \in 0 .. EndOfChain - 1 /\ v.fat[c] \in Nat

\* What the loaders rely on: the chain of a file has no cycle and exactly the clusters
\* its size calls for.
SoundFile(v, f) ==
  LET count == Clusters(v, f)
  IN  /\ \A i \in 1 .. count : Chain(v, f, i) \in DOMAIN v.fat
      /\ \A i, j \in 1 .. count : Chain(v, f, i) = Chain(v, f, j) => i = j
      /\ Chain(v, f, count + 1) >= EndOfChain
=============================================================================
