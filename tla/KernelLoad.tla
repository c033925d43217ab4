----------------------------- MODULE KernelLoad -----------------------------
(***************************************************************************)
(* boot/second_stage.asm, load_kernel: KERNEL.BIN is looked up on the volume, *)
(* the first region of the stored E820 map that is large enough is picked,   *)
(* and the clusters of the file are copied there one after the other.        *)
(*                                                                         *)
(* Everything that is read from the disk, the clusters of the file and the   *)
(* sectors of the FAT, goes through the one buffer at 0x2000.               *)
(***************************************************************************)
EXTENDS MemoryMap, Fat32

CONSTANT RelLimit     \* 2 GiB: how far relative jumps reach

LowMemory == 1048576  \* 0x100000
KernelOffset == 96    \* room for two memory block headers

VARIABLES
  loadpc,     \* "find", "scan", "read", "copy", "follow", "loaded" or "failed"
  index,      \* ebx: the entry of the map that is looked at
  location,   \* where the kernel begins; 0 before a region is picked
  dest,       \* where the next cluster is copied to
  cluster,    \* ebx: the cluster of the file to read
  buffer,     \* what the disk buffer holds
  image       \* the cluster copied to each address

loadvars == <<volume, loadpc, index, location, dest, cluster, buffer, image>>

Holds(kind, number) == [kind |-> kind, number |-> number]

LoadInit(v) ==
  /\ volume = v
  /\ loadpc = "find"
  /\ index = 1
  /\ location = 0
  /\ dest = 0
  /\ cluster = 0
  /\ buffer = Holds("nothing", 0)
  /\ image = << >>

\* The bytes the kernel may need: its size, a cluster more because whole clusters
\* are copied (a 16-bit product), and the room for the headers.
KernelSize == volume.kernel.size + (ClusterBytes % 65536) + KernelOffset

FindKernel ==
  /\ loadpc = "find"
  /\ Found("kernel")
  /\ cluster' = volume.kernel.first
  /\ buffer' = Holds("directory", 0)
  /\ loadpc' = "scan"
  /\ UNCHANGED <<volume, index, location, dest, image>>

NoKernel ==
  /\ loadpc = "find"
  /\ ~ Found("kernel")
  /\ buffer' = Holds("directory", 0)
  /\ loadpc' = "failed"
  /\ UNCHANGED <<volume, index, location, dest, cluster, image>>

\* Only the low word of an entry is compared with the end signature.
AtEnd(i) ==
  i \in 1 .. Len(table) => table[i].address % 65536 = EndSignature

Suitable(e) ==
  /\ e.usable
  /\ LowMemory <= e.address /\ e.address <= RelLimit
  /\ KernelSize <= e.length

NoRegion ==
  /\ loadpc = "scan"
  /\ AtEnd(index)
  /\ loadpc' = "failed"
  /\ UNCHANGED <<volume, index, location, dest, cluster, buffer, image>>

PassRegion ==
  /\ loadpc = "scan"
  /\ ~ AtEnd(index) /\ ~ Suitable(table[index])
  /\ index' = index + 1
  /\ UNCHANGED <<volume, loadpc, location, dest, cluster, buffer, image>>

PickRegion ==
  /\ loadpc = "scan"
  /\ ~ AtEnd(index) /\ Suitable(table[index])
  /\ location' = table[index].address + KernelOffset
  /\ dest' = location'
  /\ loadpc' = "read"
  /\ UNCHANGED <<volume, index, cluster, buffer, image>>

\* load_cluster
ReadCluster ==
  /\ loadpc = "read"
  /\ buffer' = Holds("cluster", cluster)
  /\ loadpc' = "copy"
  /\ UNCHANGED <<volume, index, location, dest, cluster, image>>

\* Copied in protected mode, as the destination is above 1 MiB.
CopyCluster ==
  /\ loadpc = "copy"
  /\ image' = [a \in DOMAIN image \cup {dest} |-> IF a = dest THEN buffer ELSE image[a]]
  /\ dest' = dest + ClusterBytes
  /\ loadpc' = "follow"
  /\ UNCHANGED <<volume, index, location, cluster, buffer>>

\* Mutant: the last cluster of the chain is not read.
FollowChainShort ==
  /\ loadpc = "follow"
  /\ buffer' = Holds("fat", cluster \div FatEntries)
  /\ cluster' = volume.fat[cluster]
  /\ loadpc' = IF cluster' < EndOfChain /\ volume.fat[cluster'] < EndOfChain
                 THEN "read" ELSE "loaded"
  /\ UNCHANGED <<volume, index, location, dest, image>>

\* load_fat_entry: the FAT sector goes to the buffer, and the entry is taken from it.
FollowChain ==
  /\ loadpc = "follow"
  /\ buffer' = Holds("fat", cluster \div FatEntries)
  /\ cluster' = volume.fat[cluster]
  /\ loadpc' = IF cluster' < EndOfChain THEN "read" ELSE "loaded"
  /\ UNCHANGED <<volume, index, location, dest, image>>

LoadNext ==
  \/ FindKernel \/ NoKernel
  \/ NoRegion \/ PassRegion \/ PickRegion
  \/ ReadCluster \/ CopyCluster \/ FollowChain

-----------------------------------------------------------------------------

\* No byte is ever copied outside the region that was picked, nor to its first 96
\* bytes, where the memory manager's headers go; and when loading is over the image
\* is the whole file, contiguous and in order, although the buffer it is copied from
\* is also the one the FAT is read into.
ImageLoaded ==
  /\ \A a \in DOMAIN image :
       /\ table[index].usable
       /\ table[index].address + KernelOffset <= a
       /\ a + ClusterBytes <= table[index].address + table[index].length
  /\ loadpc = "loaded" =>
       image = [a \in {location + ClusterBytes * (i - 1) :
                         i \in 1 .. Clusters(volume, volume.kernel)} |->
                  Holds("cluster", Chain(volume, volume.kernel,
                                         (a - location) \div ClusterBytes + 1))]
=============================================================================
