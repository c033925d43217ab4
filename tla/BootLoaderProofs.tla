-------------------------- MODULE BootLoaderProofs --------------------------
(***************************************************************************)
(* Proofs about the boot loader on every machine: the files it reads, that    *)
(* is the chain of a file in the FAT, the second stage and the kernel, for     *)
(* every volume and every size of cluster; then an inductive invariant for     *)
(* each of the other parts, and their composition.                           *)
(***************************************************************************)
EXTENDS BootLoader, NaturalsFacts, SequenceTheorems, FunctionTheorems, FiniteSetTheorems

-----------------------------------------------------------------------------
(* A file.                                                                 *)

\* The number that ends a chain is a natural.
LEMMA EndOfChainNatural == EndOfChain \in Nat
BY SMT DEF EndOfChain

\* The first cluster of a chain, and each next one: the recursion unfolds.
LEMMA ChainFacts ==
  ASSUME NEW v, NEW f
  PROVE  /\ Chain(v, f, 1) = f.first
         /\ \A n \in Nat \ {0} : Chain(v, f, n + 1) = v.fat[Chain(v, f, n)]
<1> DEFINE nth == CHOOSE g : g = [i \in Nat |-> IF i <= 1 THEN f.first ELSE v.fat[g[i - 1]]]
<1>1. nth = [i \in Nat |-> IF i <= 1 THEN f.first ELSE v.fat[nth[i - 1]]]
  <2>1. \E g : g = [i \in Nat |-> IF i <= 1 THEN f.first ELSE v.fat[g[i - 1]]]
    <3>1. PICK g : IsLinked(f.first, v.fat, g)
      BY LinkedFunction
    <3> QED
      BY <3>1 DEF IsLinked
  <2> QED
    BY <2>1
<1>2. \A n \in Nat : Chain(v, f, n) = nth[n]
  BY DEF Chain
<1> HIDE DEF nth
<1>3. \A n \in Nat : nth[n] = IF n <= 1 THEN f.first ELSE v.fat[nth[n - 1]]
  BY <1>1
<1>4. ASSUME NEW n \in Nat \ {0}
      PROVE  nth[n + 1] = v.fat[nth[n]]
  BY <1>3
<1> QED
  BY <1>2, <1>3, <1>4

\* The chain of a file goes from cluster to cluster of the FAT, exactly as many as its
\* size calls for.
LEMMA FileFacts ==
  ASSUME NEW v, NEW f \in {v.kernel, v.second}, SoundVolume(v), SoundFile(v, f)
  PROVE  /\ BytesPer(v) \in Nat \ {0}
         /\ f.size \in Nat
         /\ Clusters(v, f) \in Nat \ {0}
         /\ BytesPer(v) * Clusters(v, f) < f.size + BytesPer(v)
         /\ Chain(v, f, 1) = f.first
         /\ \A n \in 1 .. Clusters(v, f) :
              /\ Chain(v, f, n) \in 0 .. EndOfChain - 1
              /\ Chain(v, f, n + 1) = v.fat[Chain(v, f, n)]
              /\ Chain(v, f, n + 1) \in Nat
         /\ Chain(v, f, Clusters(v, f) + 1) >= EndOfChain
<1>1. BytesPer(v) \in Nat \ {0}
  BY DEF BytesPer, SectorSize, SoundVolume
<1>2. f.size \in Nat \ {0}
  BY DEF SoundVolume
<1> DEFINE bytes == BytesPer(v)
           whole == f.size + bytes - 1
<1> HIDE DEF bytes
<1>3. bytes \in Nat \ {0} /\ whole \in Nat /\ whole >= bytes
  BY <1>1, <1>2 DEF bytes
<1>4. /\ whole \div bytes \in Nat
      /\ whole % bytes \in 0 .. bytes - 1
      /\ whole = bytes * (whole \div bytes) + (whole % bytes)
  BY <1>3, Division
<1>5. Clusters(v, f) = whole \div bytes
  BY DEF Clusters, bytes
<1>6. Clusters(v, f) \in Nat \ {0}
  <2>1. whole \div bytes = 0 => whole < bytes
    BY <1>3, <1>4
  <2> QED
    BY <2>1, <1>3, <1>4, <1>5
<1>7. bytes * Clusters(v, f) < f.size + bytes
  <2>1. bytes * (whole \div bytes) \in Int
    BY <1>3, <1>4, ProductNatural
  <2> HIDE DEF whole
  <2>2. bytes * (whole \div bytes) <= whole
    BY <2>1, <1>3, <1>4
  <2> QED
    BY <2>1, <2>2, <1>2, <1>3, <1>5 DEF whole
<1>8. ASSUME NEW n \in 1 .. Clusters(v, f)
      PROVE  /\ Chain(v, f, n) \in 0 .. EndOfChain - 1
             /\ Chain(v, f, n + 1) = v.fat[Chain(v, f, n)]
             /\ Chain(v, f, n + 1) \in Nat
  <2>1. Chain(v, f, n) \in DOMAIN v.fat
    BY <1>6 DEF SoundFile
  <2>2. n \in Nat \ {0}
    BY <1>6
  <2>3. Chain(v, f, n + 1) = v.fat[Chain(v, f, n)]
    BY <2>2, ChainFacts
  <2> QED
    BY <2>1, <2>3 DEF SoundVolume
<1>9. Chain(v, f, Clusters(v, f) + 1) >= EndOfChain
  BY DEF SoundFile
<1> QED
  BY <1>1, <1>2, <1>6, <1>7, <1>8, <1>9, ChainFacts DEF bytes

-----------------------------------------------------------------------------
(* What was copied.                                                        *)

\* The first k items, `size` bytes apart, from `start` on.
Placed(start, size, k, items) ==
  [a \in {start + size * (i - 1) : i \in 1 .. k} |-> items[(a - start) \div size + 1]]

\* Nothing is placed before the first cluster.
LEMMA PlacedNone ==
  ASSUME NEW start, NEW size, NEW items
  PROVE  << >> = Placed(start, size, 0, items)
BY DEF Placed

\* Putting the next item behind them.
Extended(f, to, item) == [a \in DOMAIN f \cup {to} |-> IF a = to THEN item ELSE f[a]]

\* One more cluster is placed behind those that are there.
LEMMA PlacedNext ==
  ASSUME NEW start \in Nat, NEW size \in Nat \ {0}, NEW k \in Nat, NEW items,
         NEW f, f = Placed(start, size, k, items), NEW to, to = start + size * k,
         NEW item, item = items[k + 1]
  PROVE  Extended(f, to, item) = Placed(start, size, k + 1, items)
<1> DEFINE at(i) == start + size * (i - 1)
<1>1. \A i \in 1 .. k + 1 : at(i) \in Nat
  BY ProductNatural
<1>2. DOMAIN f = {at(i) : i \in 1 .. k}
  BY DEF Placed
<1>3. to = at(k + 1)
  OBVIOUS
<1>4. DOMAIN f \cup {to} = {at(i) : i \in 1 .. k + 1}
  <2> HIDE DEF at
  <2>1. \A i \in 1 .. k + 1 : i \in 1 .. k \/ i = k + 1
    OBVIOUS
  <2> QED
    BY <1>2, <1>3, <2>1
<1>5. to \notin DOMAIN f
  <2> SUFFICES ASSUME NEW i \in 1 .. k, to = at(i)
               PROVE  FALSE
    BY <1>2
  <2>1. size * (i - 1) + size <= size * k
    BY MultiplesApart
  <2>2. size * (i - 1) \in Nat /\ size * k \in Nat
    BY ProductNatural
  <2> QED
    BY <2>1, <2>2
<1>6. (to - start) \div size + 1 = k + 1
  <2>1. to - start = size * k + 0
    BY ProductNatural
  <2>2. (size * k + 0) \div size = k
    BY QuotientUnique
  <2> QED
    BY <2>1, <2>2
<1>7. ASSUME NEW a \in DOMAIN f
      PROVE  f[a] = items[(a - start) \div size + 1]
  BY DEF Placed
<1>8. Extended(f, to, item) = [a \in {at(i) : i \in 1 .. k + 1} |-> items[(a - start) \div size + 1]]
  <2> HIDE DEF at
  <2> QED
    BY <1>4, <1>5, <1>6, <1>7 DEF Extended
<1> QED
  BY <1>8 DEF Placed

-----------------------------------------------------------------------------
(* The kernel.                                                             *)

TableTyped ==
  \A i \in 1 .. Len(table) : table[i].address \in Nat /\ table[i].length \in Nat

KernelItems(v) == [n \in Nat |-> Holds("cluster", Chain(v, v.kernel, n))]

\* With k clusters of the kernel copied.
LoadProgress(k) ==
  /\ image = Placed(location, ClusterBytes, k, KernelItems(volume))
  /\ dest = location + ClusterBytes * k
  /\ \/ /\ loadpc \in {"read", "copy"}
        /\ k < Clusters(volume, volume.kernel)
        /\ cluster = Chain(volume, volume.kernel, k + 1)
        /\ loadpc = "copy" => buffer = Holds("cluster", cluster)
     \/ /\ loadpc = "follow"
        /\ k >= 1
        /\ cluster = Chain(volume, volume.kernel, k)
     \/ /\ loadpc = "loaded"
        /\ k = Clusters(volume, volume.kernel)

\* The inductive invariant of load_kernel: from the pick of a region on, the first
\* clusters of the file are there, one after the other.
LoadInv ==
  /\ index \in Nat
  /\ loadpc \in {"find", "scan", "failed", "read", "copy", "follow", "loaded"}
  /\ loadpc \in {"find", "scan", "failed"} => image = << >>
  /\ loadpc = "scan" => cluster = volume.kernel.first
  /\ loadpc \in {"read", "copy", "follow", "loaded"} =>
       /\ index \in 1 .. Len(table)
       /\ Suitable(table[index])
       /\ location = table[index].address + KernelOffset
       /\ \E k \in 0 .. Clusters(volume, volume.kernel) : LoadProgress(k)

SoundKernel == SoundVolume(volume) /\ SoundFile(volume, volume.kernel)

\* What is known of the kernel file once find_file has found it.
LEMMA KernelFacts ==
  ASSUME SoundKernel
  PROVE  LET count == Clusters(volume, volume.kernel)
         IN  /\ ClusterBytes \in Nat \ {0}
             /\ volume.kernel.size \in Nat
             /\ count \in Nat \ {0}
             /\ ClusterBytes * count < volume.kernel.size + ClusterBytes
             /\ Chain(volume, volume.kernel, 1) = volume.kernel.first
             /\ \A n \in 1 .. count :
                  /\ Chain(volume, volume.kernel, n) \in 0 .. EndOfChain - 1
                  /\ Chain(volume, volume.kernel, n + 1)
                       = volume.fat[Chain(volume, volume.kernel, n)]
                  /\ Chain(volume, volume.kernel, n + 1) \in Nat
             /\ Chain(volume, volume.kernel, count + 1) >= EndOfChain
BY FileFacts DEF SoundKernel, ClusterBytes

\* load_kernel starts with nothing loaded.
LEMMA LoadInitInv ==
  ASSUME NEW v, LoadInit(v)
  PROVE  LoadInv
BY DEF LoadInit, LoadInv

\* Each step of load_kernel preserves the invariant of the load.
LEMMA LoadStepInv ==
  ASSUME LoadInv, SoundKernel, TableTyped, Len(table) \in Nat, LoadNext, UNCHANGED table
  PROVE  LoadInv'
<1> DEFINE count == Clusters(volume, volume.kernel)
<1>1. volume' = volume
  BY DEF LoadNext, FindKernel, NoKernel, NoRegion, PassRegion, PickRegion, ReadCluster,
         CopyCluster, FollowChain
<1>2. /\ ClusterBytes' = ClusterBytes
      /\ Suitable(table[index])' <=> Suitable(table'[index'])
      /\ KernelSize' = KernelSize
      /\ KernelItems(volume)' = KernelItems(volume)
      /\ Clusters(volume, volume.kernel)' = count
  BY <1>1 DEF ClusterBytes, Suitable, KernelSize
<1>a. ClusterBytes \in Nat \ {0} /\ count \in Nat \ {0}
  BY KernelFacts
<1>b. /\ Chain(volume, volume.kernel, 1) = volume.kernel.first
      /\ \A n \in 1 .. count :
           /\ Chain(volume, volume.kernel, n) \in 0 .. EndOfChain - 1
           /\ Chain(volume, volume.kernel, n + 1) = volume.fat[Chain(volume, volume.kernel, n)]
           /\ Chain(volume, volume.kernel, n + 1) \in Nat
      /\ Chain(volume, volume.kernel, count + 1) >= EndOfChain
  BY KernelFacts
<1>3. CASE FindKernel
  BY <1>1, <1>3 DEF FindKernel, LoadInv
<1>4. CASE NoKernel
  BY <1>4 DEF NoKernel, LoadInv
<1>5. CASE NoRegion
  BY <1>5 DEF NoRegion, LoadInv
<1>6. CASE PassRegion
  BY <1>1, <1>6 DEF PassRegion, LoadInv
<1>7. CASE PickRegion
  <2>1. index \in 1 .. Len(table) /\ Suitable(table[index])
    BY <1>7 DEF PickRegion, AtEnd
  <2>2. LoadProgress(0)'
    <3>1. image' = Placed(location', ClusterBytes, 0, KernelItems(volume))
      BY <1>7, PlacedNone DEF PickRegion, LoadInv
    <3>2. cluster' = Chain(volume, volume.kernel, 0 + 1) /\ 0 < count
      BY <1>7, <1>a, <1>b DEF PickRegion, LoadInv
    <3>3. dest' = location' + ClusterBytes * 0
      <4> DEFINE here == table[index].address + KernelOffset
      <4>1. here \in Nat /\ dest' = here /\ location' = here
        BY <1>7, <2>1 DEF PickRegion, TableTyped, KernelOffset
      <4> HIDE DEF here
      <4>2. here = here + ClusterBytes * 0
        BY <4>1, <1>a
      <4> QED
        BY <4>1, <4>2
    <3> QED
      BY <3>1, <3>2, <3>3, <1>1, <1>2, <1>7 DEF PickRegion, LoadProgress
  <2>3. 0 \in 0 .. count
    BY <1>a
  <2>4. Suitable(table[index])'
    BY <1>1, <1>2, <1>7, <2>1 DEF PickRegion, Suitable
  <2> QED
    BY <1>1, <1>2, <1>7, <2>1, <2>2, <2>3, <2>4 DEF PickRegion, LoadInv
<1>8. CASE ReadCluster \/ CopyCluster \/ FollowChain
  <2>1. /\ loadpc \in {"read", "copy", "follow"}
        /\ UNCHANGED <<volume, index, location>>
        /\ loadpc' \in {"read", "copy", "follow", "loaded"}
    BY <1>8 DEF ReadCluster, CopyCluster, FollowChain
  <2>2. /\ index \in 1 .. Len(table)
        /\ Suitable(table[index])
        /\ location = table[index].address + KernelOffset
        /\ location \in Nat
    BY <2>1 DEF LoadInv, TableTyped, KernelOffset
  <2>3. Suitable(table[index])'
    BY <2>1, <2>2, <1>2 DEF Suitable
  <2>4. PICK k \in 0 .. count : LoadProgress(k)
    BY <2>1 DEF LoadInv
  <2>5. \E j \in 0 .. count : LoadProgress(j)'
    <3>1. CASE ReadCluster
      <4>1. LoadProgress(k)'
        BY <1>1, <1>2, <2>4, <3>1 DEF ReadCluster, LoadProgress
      <4> QED
        BY <4>1
    <3>2. CASE CopyCluster
      <4>1. /\ k < count
            /\ cluster = Chain(volume, volume.kernel, k + 1)
            /\ buffer = Holds("cluster", cluster)
            /\ image = Placed(location, ClusterBytes, k, KernelItems(volume))
            /\ dest = location + ClusterBytes * k
        BY <2>4, <3>2 DEF CopyCluster, LoadProgress
      <4>2. k \in Nat /\ k + 1 \in 1 .. count
        BY <4>1, <1>a
      <4>3. buffer = KernelItems(volume)[k + 1]
        BY <4>1, <4>2 DEF KernelItems
      <4>4. image' = Placed(location, ClusterBytes, k + 1, KernelItems(volume))
        <5>1. image' = Extended(image, dest, buffer)
          BY <3>2 DEF CopyCluster, Extended
        <5>2. /\ location \in Nat /\ ClusterBytes \in Nat \ {0} /\ k \in Nat
              /\ image = Placed(location, ClusterBytes, k, KernelItems(volume))
              /\ dest = location + ClusterBytes * k
              /\ buffer = KernelItems(volume)[k + 1]
          BY <4>1, <4>2, <4>3, <2>2, <1>a
        <5>3. Extended(image, dest, buffer)
                = Placed(location, ClusterBytes, k + 1, KernelItems(volume))
          BY <5>2, PlacedNext
        <5> QED
          BY <5>1, <5>3
      <4>5. dest' = location + ClusterBytes * (k + 1)
        <5>1. ClusterBytes * (k + 1) = ClusterBytes * k + ClusterBytes
              /\ ClusterBytes * k \in Nat
          BY <4>2, <1>a
        <5> QED
          BY <5>1, <4>1, <2>2, <3>2, <1>a DEF CopyCluster
      <4>6. LoadProgress(k + 1)'
        BY <1>1, <1>2, <2>1, <3>2, <4>1, <4>2, <4>4, <4>5 DEF CopyCluster, LoadProgress
      <4>7. k + 1 \in 0 .. count
        BY <4>2
      <4> QED
        BY <4>6, <4>7
    <3>3. CASE FollowChain
      <4>1. /\ k >= 1
            /\ cluster = Chain(volume, volume.kernel, k)
            /\ image = Placed(location, ClusterBytes, k, KernelItems(volume))
            /\ dest = location + ClusterBytes * k
        BY <2>4, <3>3 DEF FollowChain, LoadProgress
      <4>2. cluster' = Chain(volume, volume.kernel, k + 1)
        BY <4>1, <3>3, <1>b DEF FollowChain
      <4>3. ASSUME k < count
            PROVE  cluster' < EndOfChain
        <5>1. k + 1 \in 1 .. count
          BY <4>3, <1>a
        <5> QED
          BY <5>1, <4>2, <1>b, EndOfChainNatural
      <4>4. ASSUME k = count
            PROVE  ~ (cluster' < EndOfChain)
        BY <4>4, <4>1, <4>2, <1>b, EndOfChainNatural
      <4>5. k < count \/ k = count
        BY <1>a
      <4>6. LoadProgress(k)'
        BY <1>1, <1>2, <2>1, <3>3, <4>1, <4>2, <4>3, <4>4, <4>5 DEF FollowChain, LoadProgress
      <4> QED
        BY <4>6
    <3> QED
      BY <1>8, <3>1, <3>2, <3>3
  <2> QED
    BY <1>1, <1>2, <2>1, <2>2, <2>3, <2>5 DEF LoadInv
<1> QED
  BY <1>3, <1>4, <1>5, <1>6, <1>7, <1>8 DEF LoadNext

\* A cluster of at most 32 KiB (the size of one is a 16-bit product in the code): the
\* invariant says what ImageLoaded promises.
LEMMA LoadInvImage ==
  ASSUME LoadInv, SoundKernel, TableTyped,
         loadpc \in {"read", "copy", "follow", "loaded"} => ClusterBytes < 65536
  PROVE  ImageLoaded
<1> DEFINE count == Clusters(volume, volume.kernel)
<1>a. ClusterBytes \in Nat \ {0} /\ count \in Nat \ {0} /\ volume.kernel.size \in Nat
  BY KernelFacts
<1>b. ClusterBytes * count < volume.kernel.size + ClusterBytes
  BY KernelFacts
<1>1. CASE loadpc \in {"find", "scan", "failed"}
  BY <1>1 DEF LoadInv, ImageLoaded
<1>2. CASE loadpc \in {"read", "copy", "follow", "loaded"}
  <2>1. /\ index \in 1 .. Len(table)
        /\ table[index].usable
        /\ KernelSize <= table[index].length
        /\ location = table[index].address + KernelOffset
    BY <1>2 DEF LoadInv, Suitable
  <2>2. table[index].address \in Nat /\ table[index].length \in Nat
    BY <2>1 DEF TableTyped
  <2>3. PICK k \in 0 .. count : LoadProgress(k)
    BY <1>2 DEF LoadInv
  <2>4. KernelSize = volume.kernel.size + ClusterBytes + KernelOffset
    BY <1>2, <1>a DEF KernelSize
  <2>5. ASSUME NEW a \in DOMAIN image
        PROVE  /\ table[index].address + KernelOffset <= a
               /\ a + ClusterBytes <= table[index].address + table[index].length
    <3>1. PICK i \in 1 .. k : a = location + ClusterBytes * (i - 1)
      BY <2>3 DEF LoadProgress, Placed
    <3>2. ClusterBytes * (i - 1) + ClusterBytes <= ClusterBytes * count
      <4>1. i - 1 \in Nat /\ count \in Nat /\ i - 1 < count
        BY <2>3, <1>a
      <4> HIDE DEF count
      <4> QED
        BY <4>1, <1>a, MultiplesApart
    <3>3. ClusterBytes * (i - 1) \in Nat /\ ClusterBytes * count \in Nat
      BY <3>1, <2>3, <1>a, ProductNatural
    <3> DEFINE before == ClusterBytes * (i - 1)
               all == ClusterBytes * count
    <3> HIDE DEF before, all
    <3>4. /\ before \in Nat /\ all \in Nat
          /\ a = location + before
          /\ before + ClusterBytes <= all
          /\ all < volume.kernel.size + ClusterBytes
      BY <3>1, <3>2, <3>3, <1>b DEF before, all
    <3> DEFINE address == table[index].address
               length == table[index].length
    <3>5. /\ address \in Nat /\ length \in Nat
          /\ location = address + KernelOffset
          /\ volume.kernel.size + ClusterBytes + KernelOffset <= length
      BY <2>1, <2>2, <2>4
    <3> HIDE DEF address, length
    <3>6. address + KernelOffset <= a /\ a + ClusterBytes <= address + length
      BY <3>4, <3>5, <1>a DEF KernelOffset
    <3> QED
      BY <3>6 DEF address, length
  <2>6. ASSUME loadpc = "loaded"
        PROVE  image = [a \in {location + ClusterBytes * (i - 1) : i \in 1 .. count} |->
                          Holds("cluster", Chain(volume, volume.kernel,
                                                 (a - location) \div ClusterBytes + 1))]
    <3>1. image = Placed(location, ClusterBytes, count, KernelItems(volume))
      BY <2>3, <2>6 DEF LoadProgress
    <3>2. ASSUME NEW a \in {location + ClusterBytes * (i - 1) : i \in 1 .. count}
          PROVE  KernelItems(volume)[(a - location) \div ClusterBytes + 1]
                   = Holds("cluster", Chain(volume, volume.kernel,
                                            (a - location) \div ClusterBytes + 1))
      <4>1. PICK i \in 1 .. count : a = location + ClusterBytes * (i - 1)
        OBVIOUS
      <4>2. ClusterBytes * (i - 1) \in Nat /\ location \in Nat
        <5>1. location \in Nat
          BY <2>1, <2>2 DEF KernelOffset
        <5>2. i - 1 \in Nat
          BY <4>1, <1>a
        <5> QED
          BY <5>1, <5>2, <1>a, ProductNatural
      <4>3. a - location \in Nat
        BY <4>1, <4>2
      <4>4. (a - location) \div ClusterBytes + 1 \in Nat
        BY <4>3, <1>a, Division
      <4> QED
        BY <4>4 DEF KernelItems
    <3> QED
      BY <3>1, <3>2 DEF Placed
  <2> QED
    BY <2>1, <2>5, <2>6 DEF ImageLoaded
<1> QED
  BY <1>1, <1>2 DEF LoadInv

-----------------------------------------------------------------------------
(* The second stage.                                                       *)

SecondItems(v) == [n \in Nat |-> Chain(v, v.second, n)]

SoundRecords ==
  SoundVolume(volume) /\ SoundFile(volume, volume.second) /\ SoundSecond(volume)

\* With k clusters of the second stage read.  The address of the next one has wrapped
\* around after the last one, if that ends at 64 KiB.
ReadProgress(k) ==
  /\ loaded = Placed(SecondStage, ClusterBytes, k, SecondItems(volume))
  /\ k < Clusters(volume, volume.second) /\ recpc # "second" =>
       cx = SecondStage + ClusterBytes * k
  /\ \/ /\ recpc = "read"
        /\ k < Clusters(volume, volume.second)
        /\ part = Chain(volume, volume.second, k + 1)
     \/ /\ recpc = "follow"
        /\ k >= 1
        /\ part = Chain(volume, volume.second, k)
     \/ /\ recpc = "second"
        /\ k = Clusters(volume, volume.second)

\* The inductive invariant of the two records: what is on the stack and in dx at each
\* point, through refused choices and failed reads.
RecordsInv ==
  /\ disk \in Disks
  /\ recpc \in {"start", "input", "probe", "select", "halt", "lost", "record", "find",
                "read", "follow", "second", "failed"}
  /\ digit \in 0 .. 3
  /\ recpc # "start" => {e - 1 : e \in {i \in Slots : disk.partitions[i].size # 0}} \subseteq listed
  /\ recpc \in {"start", "input", "probe", "select", "halt", "record", "find"} => loaded = << >>
  /\ recpc \in {"start", "record"} => dx = disk.drive
  /\ recpc \in {"input", "probe"} => stack = <<disk.drive>>
  /\ recpc \in {"select", "halt"} => stack = <<digit, disk.drive>>
  /\ recpc \in {"record", "find", "read", "follow", "second"} =>
       si = digit + 1 /\ digit \in listed
  /\ recpc \in {"find", "read", "follow", "second"} =>
       /\ stack = <<disk.partitions[si].lba, disk.drive>>
       /\ volume.sectors <= MaxSectors
  /\ recpc \in {"read", "follow", "second"} =>
       /\ NotAbove(volume.second.size)
       /\ \E k \in 0 .. Clusters(volume, volume.second) : ReadProgress(k)

\* What is known of the file of the second stage.
LEMMA SecondFacts ==
  ASSUME SoundRecords
  PROVE  /\ ClusterBytes \in Nat \ {0}
         /\ Clusters(volume, volume.second) \in Nat \ {0}
         /\ Chain(volume, volume.second, 1) = volume.second.first
         /\ \A n \in 1 .. Clusters(volume, volume.second) :
              /\ Chain(volume, volume.second, n) \in 0 .. EndOfChain - 1
              /\ Chain(volume, volume.second, n + 1)
                   = volume.fat[Chain(volume, volume.second, n)]
              /\ Chain(volume, volume.second, n + 1) \in Nat
         /\ Chain(volume, volume.second, Clusters(volume, volume.second) + 1) >= EndOfChain
         /\ NotAbove(volume.second.size) =>
              SecondStage + ClusterBytes * Clusters(volume, volume.second) <= Word16
BY FileFacts DEF SoundRecords, ClusterBytes, SoundSecond

\* The boot records start with nothing read.
LEMMA RecordsInitInv ==
  ASSUME NEW d \in Disks, RecordsInit(d)
  PROVE  RecordsInv
BY DEF RecordsInit, RecordsInv

\* Two pushes, as the sequence they leave.
LEMMA PushedSeq ==
  ASSUME NEW a, NEW b
  PROVE  <<a>> \o <<b>> = <<a, b>>
<1> DEFINE s == <<a>> \o <<b>>
<1>1. <<a>> \in Seq({a, b}) /\ <<b>> \in Seq({a, b}) /\ <<a, b>> \in Seq({a, b})
  OBVIOUS
<1>2. Len(<<a>>) = 1 /\ Len(<<b>>) = 1 /\ Len(<<a, b>>) = 2
  OBVIOUS
<1>3. s \in Seq({a, b}) /\ Len(s) = 2
  BY <1>1, <1>2, ConcatProperties
<1>4. s[1] = a /\ s[2] = b
  BY <1>1, <1>2, ConcatProperties
<1>5. \A i \in 1 .. Len(s) : s[i] = <<a, b>>[i]
  BY <1>3, <1>4
<1> HIDE DEF s
<1>6. s = <<a, b>>
  BY <1>1, <1>2, <1>3, <1>5, SeqEqual
<1> QED
  BY <1>6 DEF s

\* The menu and the choice.
LEMMA ChooseInv ==
  ASSUME RecordsInv, ShowMenu \/ GetInput \/ CheckExtensions \/ RunOverHlt \/ RefuseEmpty,
         UNCHANGED volume
  PROVE  RecordsInv'
<1>1. CASE ShowMenu
  <2>1. {e - 1 : e \in {i \in Slots : disk.partitions[i].size # 0}} \subseteq listed'
    BY <1>1 DEF ShowMenu
  <2> QED
    BY <1>1, <2>1 DEF ShowMenu, RecordsInv
<1>2. CASE GetInput
  BY <1>2 DEF GetInput, RecordsInv
<1>3. CASE CheckExtensions
  <2>1. stack' = <<digit, disk.drive>>
    <3>1. stack' = <<digit>> \o <<disk.drive>>
      BY <1>3 DEF CheckExtensions, RecordsInv
    <3> QED
      BY <3>1, PushedSeq
  <2> QED
    BY <1>3, <2>1 DEF CheckExtensions, RecordsInv
<1>4. CASE RunOverHlt
  BY <1>4 DEF RunOverHlt, RecordsInv
<1>5. CASE RefuseEmpty
  <2>1. stack' = <<disk.drive>>
    <3>1. stack' = Tail(<<digit, disk.drive>>)
      BY <1>5 DEF RefuseEmpty, RecordsInv
    <3> QED
      BY <3>1
  <2> QED
    BY <1>5, <2>1 DEF RefuseEmpty, RecordsInv
<1> QED
  BY <1>1, <1>2, <1>3, <1>4, <1>5

\* From the master boot record to the volume boot record, and to its first cluster.
LEMMA RecordInv ==
  ASSUME RecordsInv, SoundRecords, LoadVbr \/ StartVbr \/ FindSecond \/ NoSecond,
         UNCHANGED volume
  PROVE  RecordsInv'
<1>1. CASE LoadVbr
  <2>1. Head(stack) = digit /\ Head(Tail(stack)) = disk.drive
    <3>1. stack = <<digit, disk.drive>>
      BY <1>1 DEF LoadVbr, RecordsInv
    <3>2. Head(<<digit, disk.drive>>) = digit /\ Tail(<<digit, disk.drive>>) = <<disk.drive>>
      OBVIOUS
    <3> QED
      BY <3>1, <3>2
  <2>2. dx' = disk.drive /\ si' = digit + 1
    BY <1>1, <2>1 DEF LoadVbr, Selected
  <2>3. digit \in listed
    <3>1. digit + 1 \in Slots /\ disk.partitions[digit + 1].size # 0
      BY <1>1, <2>1 DEF LoadVbr, Selected, Slots, RecordsInv
    <3>2. (digit + 1) - 1 \in listed
      BY <1>1, <3>1 DEF LoadVbr, RecordsInv
    <3> QED
      BY <3>2 DEF RecordsInv
  <2> QED
    BY <1>1, <2>2, <2>3 DEF LoadVbr, RecordsInv
<1>2. CASE StartVbr
  <2>1. volume.sectors \in Nat
    BY DEF SoundRecords, SoundVolume
  <2>2. recpc' = "find" => volume'.sectors <= MaxSectors
    BY <1>2, <2>1 DEF StartVbr, MaxSectors
  <2> QED
    BY <1>2, <2>2 DEF StartVbr, RecordsInv
<1>3. CASE FindSecond
  <2>1. NotAbove(volume'.second.size)
    BY <1>3 DEF FindSecond, Bootable
  <2>2. ReadProgress(0)'
    <3>1. loaded' = Placed(SecondStage, ClusterBytes, 0, SecondItems(volume))
      BY <1>3, PlacedNone DEF FindSecond, RecordsInv
    <3>2. SecondStage = SecondStage + ClusterBytes * 0
      BY SecondFacts DEF SecondStage
    <3>3. 0 < Clusters(volume, volume.second)
          /\ volume.second.first = Chain(volume, volume.second, 0 + 1)
      BY SecondFacts
    <3> QED
      BY <1>3, <3>1, <3>2, <3>3 DEF FindSecond, ReadProgress, ClusterBytes
  <2>3. 0 \in 0 .. Clusters(volume', volume'.second)
    BY SecondFacts
  <2> QED
    BY <1>3, <2>1, <2>2, <2>3 DEF FindSecond, RecordsInv
<1>4. CASE NoSecond
  BY <1>4 DEF NoSecond, RecordsInv
<1> QED
  BY <1>1, <1>2, <1>3, <1>4

\* The clusters of the second stage.
LEMMA ReadInv ==
  ASSUME RecordsInv, SoundRecords, ReadSecond \/ FollowSecond, UNCHANGED volume
  PROVE  RecordsInv'
<1> DEFINE count == Clusters(volume, volume.second)
<1>a. ClusterBytes \in Nat \ {0} /\ count \in Nat \ {0}
  BY SecondFacts
<1>b. /\ \A n \in 1 .. count :
           /\ Chain(volume, volume.second, n) \in 0 .. EndOfChain - 1
           /\ Chain(volume, volume.second, n + 1) = volume.fat[Chain(volume, volume.second, n)]
           /\ Chain(volume, volume.second, n + 1) \in Nat
      /\ Chain(volume, volume.second, count + 1) >= EndOfChain
  BY SecondFacts
<1>1. /\ recpc \in {"read", "follow"}
      /\ recpc' \in {"read", "follow", "second"}
      /\ UNCHANGED <<disk, listed, digit, dx, si, stack>>
  BY DEF ReadSecond, FollowSecond
<1>2. PICK k \in 0 .. count : ReadProgress(k)
  BY <1>1 DEF RecordsInv
<1>3. NotAbove(volume.second.size)
  BY <1>1 DEF RecordsInv
<1>4. \E j \in 0 .. count : ReadProgress(j)'
  <2>1. CASE ReadSecond
    <3>1. /\ k < count /\ k \in Nat
          /\ part = Chain(volume, volume.second, k + 1)
          /\ cx = SecondStage + ClusterBytes * k
          /\ loaded = Placed(SecondStage, ClusterBytes, k, SecondItems(volume))
      BY <1>2, <2>1, <1>a DEF ReadSecond, ReadProgress
    <3>2. part = SecondItems(volume)[k + 1]
      BY <3>1 DEF SecondItems
    <3>3. loaded' = Placed(SecondStage, ClusterBytes, k + 1, SecondItems(volume))
      <4>1. loaded' = Extended(loaded, cx, part)
        BY <2>1 DEF ReadSecond, Extended
      <4>2. SecondStage \in Nat
        BY DEF SecondStage
      <4>3. Extended(loaded, cx, part)
              = Placed(SecondStage, ClusterBytes, k + 1, SecondItems(volume))
        <5>1. /\ ClusterBytes \in Nat \ {0} /\ k \in Nat
              /\ loaded = Placed(SecondStage, ClusterBytes, k, SecondItems(volume))
              /\ cx = SecondStage + ClusterBytes * k
          BY <3>1, <1>a
        <5> QED
          BY <5>1, <3>2, <4>2, PlacedNext
      <4> QED
        BY <4>1, <4>3
    <3>4. ASSUME k + 1 < count
          PROVE  cx' = SecondStage + ClusterBytes * (k + 1)
      <4> DEFINE this == ClusterBytes * k
                 then == ClusterBytes * (k + 1)
                 all == ClusterBytes * count
      <4>1. then + ClusterBytes <= all
        BY <3>4, <3>1, <1>a, MultiplesApart
      <4>2. then = this + ClusterBytes /\ this \in Nat /\ then \in Nat /\ all \in Nat
        BY <3>1, <1>a, ProductNatural
      <4>3. SecondStage + all <= Word16
        BY <1>3, SecondFacts
      <4>4. cx = SecondStage + this /\ cx' = (cx + ClusterBytes) % Word16
        BY <2>1, <3>1 DEF ReadSecond
      <4> HIDE DEF this, then, all
      <4>5. cx + ClusterBytes = SecondStage + then
        <5>1. ClusterBytes \in Nat /\ cx = SecondStage + this
          BY <4>4, <1>a
        <5> QED
          BY <5>1, <4>2 DEF SecondStage
      <4>6. SecondStage + then \in Nat /\ SecondStage + then < Word16
        <5>1. ClusterBytes \in Nat \ {0}
          BY <1>a
        <5> QED
          BY <5>1, <4>1, <4>2, <4>3 DEF SecondStage, Word16
      <4>7. (SecondStage + then) % Word16 = SecondStage + then
        BY <4>6 DEF Word16
      <4> QED
        BY <4>4, <4>5, <4>7 DEF then
    <3>5. ReadProgress(k + 1)'
      BY <1>a, <2>1, <3>1, <3>3, <3>4 DEF ReadSecond, ReadProgress, ClusterBytes
    <3>6. k + 1 \in 0 .. count
      BY <3>1, <1>a
    <3> QED
      BY <3>5, <3>6
  <2>2. CASE FollowSecond
    <3>1. /\ k >= 1
          /\ part = Chain(volume, volume.second, k)
          /\ k < count => cx = SecondStage + ClusterBytes * k
          /\ loaded = Placed(SecondStage, ClusterBytes, k, SecondItems(volume))
      BY <1>2, <2>2 DEF FollowSecond, ReadProgress
    <3>2. part' = Chain(volume, volume.second, k + 1)
      BY <3>1, <2>2, <1>b DEF FollowSecond
    <3>3. ASSUME k < count
          PROVE  part' < EndOfChain
      <4>1. k + 1 \in 1 .. count
        BY <3>3, <1>a
      <4> QED
        BY <4>1, <3>2, <1>b, EndOfChainNatural
    <3>4. ASSUME k = count
          PROVE  ~ (part' < EndOfChain)
      BY <3>4, <3>1, <3>2, <1>b, EndOfChainNatural
    <3>5. k < count \/ k = count
      BY <1>a
    <3>6. ReadProgress(k)'
      BY <2>2, <3>1, <3>2, <3>3, <3>4, <3>5 DEF FollowSecond, ReadProgress, ClusterBytes
    <3> QED
      BY <3>6
  <2> QED
    BY <2>1, <2>2
<1> QED
  BY <1>1, <1>3, <1>4 DEF RecordsInv

\* Each step of the boot records preserves their invariant.
LEMMA RecordsStepInv ==
  ASSUME RecordsInv, SoundRecords, RecordsNext \/ GetInput, UNCHANGED volume
  PROVE  RecordsInv'
BY ChooseInv, RecordInv, ReadInv DEF RecordsNext

\* The invariant of the boot records gives what the second stage needs.
LEMMA RecordsInvReady ==
  ASSUME RecordsInv, SoundRecords
  PROVE  SecondStageReady
<1>1. ASSUME recpc = "second"
      PROVE  loaded = [a \in {SecondStage + ClusterBytes * (i - 1) :
                                i \in 1 .. Clusters(volume, volume.second)} |->
                         Chain(volume, volume.second, (a - SecondStage) \div ClusterBytes + 1)]
  <2> DEFINE count == Clusters(volume, volume.second)
  <2>a. ClusterBytes \in Nat \ {0} /\ count \in Nat \ {0}
    BY SecondFacts
  <2>1. loaded = Placed(SecondStage, ClusterBytes, count, SecondItems(volume))
    BY <1>1 DEF RecordsInv, ReadProgress
  <2>2. ASSUME NEW a \in {SecondStage + ClusterBytes * (i - 1) : i \in 1 .. count}
        PROVE  (a - SecondStage) \div ClusterBytes + 1 \in Nat
    <3>1. PICK i \in 1 .. count : a = SecondStage + ClusterBytes * (i - 1)
      OBVIOUS
    <3>2. i - 1 \in Nat
      BY <3>1, <2>a
    <3>3. ClusterBytes * (i - 1) \in Nat
      BY <3>2, <2>a, ProductNatural
    <3>4. a - SecondStage \in Nat
      BY <3>1, <3>3 DEF SecondStage
    <3> QED
      BY <3>4, <2>a, Division
  <2> QED
    BY <2>1, <2>2 DEF Placed, SecondItems
<1>2. ASSUME recpc \in {"find", "read", "follow", "second"}
      PROVE  DiskBuffer + ClusterBytes <= RecordStart
  <2>1. volume.sectors \in Nat /\ volume.sectors <= MaxSectors
    BY <1>2 DEF RecordsInv, SoundRecords, SoundVolume
  <2> QED
    BY <2>1 DEF DiskBuffer, RecordStart, ClusterBytes, BytesPer, SectorSize, MaxSectors
<1> QED
  BY <1>1, <1>2 DEF SecondStageReady, RecordsInv

-----------------------------------------------------------------------------
(* The A20 line.                                                           *)

Handshake == {"disable", "ask", "take", "announce", "write", "enable", "finish"}

\* A method that is fast enough has raised the line by the last of the checks that
\* follow it.  A timeout of the BIOS and of the keyboard controller is remembered.
A20Inv ==
  /\ a20 \in A20Hardware
  /\ a20pc \in {"check", "enabled", "failed", "reset"} \cup Handshake
  /\ due \in 0 .. Never
  /\ tried \in 0 .. 3
  /\ checks \in 0 .. A20Timeout - 1
  /\ a20.on => line
  /\ outbuf \in {"nothing", "port", a20.waiting}
  /\ al \in {"nothing", "port", a20.waiting}
  /\ inbuf = "write" => a20pc \in {"enable", "reset"}
  /\ a20pc \in Handshake => tried = 1 /\ checks = 0
  /\ a20pc = "enable" /\ inbuf # "write" => due <= a20.delay[2]
  /\ a20pc = "finish" => due <= a20.delay[2]
  /\ a20pc = "check" /\ tried > 0 => TooSlow(tried) \/ line \/ due + checks <= a20.delay[tried]
  /\ tried > 0 => a20.alike \/ ~ a20.on
  /\ tried > 1 \/ a20pc \in Handshake \cup {"reset"} => a20.alike \/ TooSlow(1)
  /\ tried > 2 => a20.alike \/ TooSlow(2)
  /\ A20Decided

\* enable_A20 starts with no method tried.
LEMMA A20InitInv ==
  ASSUME NEW hardware \in A20Hardware, A20Init(hardware)
  PROVE  A20Inv
BY A20Assumption DEF A20Init, A20Inv, A20Hardware, Handshake, A20Decided, line, TooSlow

\* What is known of the numbers.
LEMMA A20Facts ==
  ASSUME A20Inv
  PROVE  /\ A20Timeout \in Nat \ {0} /\ Never \in Nat /\ Never > 3 * A20Timeout + 1
         /\ due \in 0 .. Never
         /\ tried \in 0 .. 3
         /\ checks \in 0 .. A20Timeout - 1
         /\ a20 \in A20Hardware
         /\ \A m \in 1 .. 3 : a20.delay[m] \in 0 .. Never
BY A20Assumption DEF A20Inv, A20Hardware

\* A method that had the time to raise the line has raised it when time is up.
LEMMA TimedOutSlow ==
  ASSUME A20Inv, TimedOut
  PROVE  /\ a20.alike \/ ~ line
         /\ a20.alike \/ ~ a20.on
         /\ tried > 0 => a20.alike \/ TooSlow(tried)
<1>1. a20.alike \/ ~ line
  BY DEF TimedOut, Wraparound
<1>2. a20.alike \/ ~ a20.on
  BY <1>1 DEF A20Inv
<1>3. ASSUME tried > 0, ~ a20.alike
      PROVE  TooSlow(tried)
  <2>1. TooSlow(tried) \/ due + checks <= a20.delay[tried]
    BY <1>1, <1>3 DEF A20Inv, TimedOut
  <2>2. checks + 1 = A20Timeout /\ ~ (due = 0)
    BY <1>1, <1>3 DEF TimedOut, line
  <2>3. tried \in 1 .. 3 /\ due \in Nat /\ checks \in Nat /\ A20Timeout \in Nat
    BY <1>3, A20Facts
  <2>4. a20.delay[tried] \in Nat
    BY <2>3, A20Facts
  <2>5. due + checks <= a20.delay[tried] => a20.delay[tried] >= A20Timeout
    BY <2>2, <2>3, <2>4
  <2> QED
    BY <2>1, <2>5 DEF TooSlow
<1> QED
  BY <1>1, <1>2, <1>3

\* The checks of the line and their timeout preserve the invariant.
LEMMA A20CheckInv ==
  ASSUME A20Inv, SeeEnabled \/ CheckAgain \/ TryNextMethod \/ GiveUpA20 \/ StartHandshake
  PROVE  A20Inv'
<1>1. CASE SeeEnabled
  BY <1>1 DEF SeeEnabled, A20Inv, A20Decided, Wraparound, line, kbdvars, TooSlow, Handshake
<1>2. CASE CheckAgain
  <2>1. /\ checks' = checks + 1 /\ checks + 1 < A20Timeout
        /\ due' = Elapsed(due)
        /\ a20pc = "check"
        /\ UNCHANGED <<a20, a20pc, tried, kbdvars>>
    BY <1>2 DEF CheckAgain
  <2>2. due' \in 0 .. Never /\ (line => line') /\ (due = Never \/ line' \/ due' + 1 = due)
    BY <2>1, A20Facts DEF Elapsed, line
  <2>3. checks' \in 0 .. A20Timeout - 1
    BY <2>1, A20Facts
  <2>4. ASSUME tried > 0
        PROVE  TooSlow(tried) \/ line' \/ due' + checks' <= a20.delay[tried]
    <3>1. CASE TooSlow(tried) \/ line
      BY <3>1, <2>2
    <3>2. CASE ~ TooSlow(tried) /\ due + checks <= a20.delay[tried]
      <4>1. tried \in 1 .. 3 /\ a20.delay[tried] \in Nat
        BY <2>4, A20Facts
      <4>2. a20.delay[tried] < A20Timeout
        BY <3>2, <4>1, A20Facts DEF TooSlow
      <4>3. due # Never
        BY <3>2, <4>1, <4>2, A20Facts
      <4> QED
        BY <2>1, <2>2, <3>2, <4>1, <4>3, A20Facts
    <3> QED
      BY <2>1, <2>4, <3>1, <3>2 DEF A20Inv
  <2> QED
    BY <2>1, <2>2, <2>3, <2>4 DEF A20Inv, A20Decided, Handshake, TooSlow, kbdvars, line
<1>3. CASE TryNextMethod
  <2>1. /\ TimedOut /\ tried \in {0, 2} /\ tried' = tried + 1
        /\ checks' = 0
        /\ a20pc = "check"
        /\ UNCHANGED <<a20, a20pc, kbdvars>>
    BY <1>3 DEF TryNextMethod, TimedOut
  <2>2. /\ due' \in 0 .. Never /\ (line => line')
        /\ TooSlow(tried + 1) \/ line' \/ due' + 0 <= a20.delay[tried + 1]
    <3>1. tried + 1 \in 1 .. 3 /\ a20.delay[tried + 1] \in 0 .. Never
      BY <2>1, A20Facts
    <3> QED
      BY <1>3, <3>1, A20Facts DEF TryNextMethod, AskFor, Sooner, Elapsed, line, TooSlow
  <2>3. checks' \in 0 .. A20Timeout - 1 /\ tried' \in {1, 3}
    BY <2>1, A20Facts
  <2>4. /\ a20.alike \/ ~ a20.on
        /\ tried' > 1 => (a20.alike \/ TooSlow(1)) /\ (a20.alike \/ TooSlow(2))
    BY <2>1, TimedOutSlow DEF A20Inv
  <2> QED
    BY <2>1, <2>2, <2>3, <2>4 DEF A20Inv, A20Decided, Handshake, TooSlow, kbdvars, line
<1>4. CASE GiveUpA20
  <2>1. /\ TimedOut /\ tried = 3 /\ a20pc' = "failed" /\ a20pc = "check"
        /\ UNCHANGED <<a20, due, tried, checks, kbdvars>>
    BY <1>4 DEF GiveUpA20, TimedOut
  <2>2. a20.alike \/ (~ a20.on /\ \A m \in 1 .. 3 : TooSlow(m))
    <3>1. a20.alike \/ (~ a20.on /\ TooSlow(1) /\ TooSlow(2) /\ TooSlow(3))
      BY <2>1, TimedOutSlow DEF A20Inv
    <3>2. \A m \in 1 .. 3 : m = 1 \/ m = 2 \/ m = 3
      OBVIOUS
    <3> QED
      BY <3>1, <3>2
  <2> QED
    BY <2>1, <2>2 DEF A20Inv, A20Decided, Handshake, TooSlow, kbdvars, line
<1>5. CASE StartHandshake
  <2>1. /\ TimedOut /\ tried = 1 /\ a20pc' = "disable" /\ a20pc = "check"
        /\ due' = Elapsed(due) /\ checks' = 0
        /\ UNCHANGED <<a20, tried, kbdvars>>
    BY <1>5 DEF StartHandshake, TimedOut, Accesses
  <2>2. due' \in 0 .. Never /\ (line => line') /\ checks' \in 0 .. A20Timeout - 1
    BY <2>1, A20Facts DEF Elapsed, line
  <2>3. a20.alike \/ TooSlow(1)
    BY <2>1, TimedOutSlow
  <2> QED
    BY <2>1, <2>2, <2>3 DEF A20Inv, A20Decided, Handshake, TooSlow, kbdvars, line
<1> QED
  BY <1>1, <1>2, <1>3, <1>4, <1>5

\* The order of the accesses to the keyboard controller.
LEMMA AfterIs ==
  /\ After("disable") = "ask" /\ After("ask") = "take" /\ After("take") = "announce"
  /\ After("announce") = "write" /\ After("write") = "enable" /\ After("enable") = "finish"
<1>1. /\ Accesses[1] = "disable" /\ Accesses[2] = "ask" /\ Accesses[3] = "take"
      /\ Accesses[4] = "announce" /\ Accesses[5] = "write" /\ Accesses[6] = "enable"
      /\ Accesses[7] = "finish"
  BY DEF Accesses
<1>2. ASSUME NEW n \in 1 .. 6
      PROVE  (CHOOSE i \in 1 .. 6 : Accesses[i] = Accesses[n]) = n
  <2>1. \A i \in 1 .. 6 : i = 1 \/ i = 2 \/ i = 3 \/ i = 4 \/ i = 5 \/ i = 6
    OBVIOUS
  <2>2. \A i \in 1 .. 6 : Accesses[i] = Accesses[n] => i = n
    BY <1>1, <2>1
  <2> QED
    BY <2>2
<1>3. \A n \in 1 .. 6 : After(Accesses[n]) = Accesses[1 + n]
  BY <1>2 DEF After
<1>4. /\ After(Accesses[1]) = Accesses[2] /\ After(Accesses[2]) = Accesses[3]
      /\ After(Accesses[3]) = Accesses[4] /\ After(Accesses[4]) = Accesses[5]
      /\ After(Accesses[5]) = Accesses[6] /\ After(Accesses[6]) = Accesses[7]
  BY <1>3
<1> QED
  BY <1>1, <1>4

\* The accesses to the keyboard controller preserve the invariant.
LEMMA A20HandshakeInv ==
  ASSUME A20Inv,
         SendToController \/ TakeFromController \/ FinishHandshake \/ ControllerTakes
  PROVE  A20Inv'
<1>1. CASE SendToController
  <2>1. /\ a20pc \in {"disable", "ask", "announce", "write", "enable"}
        /\ inbuf = "nothing" /\ inbuf' = a20pc
        /\ UNCHANGED <<a20, due, tried, checks, outbuf, al>>
    BY <1>1 DEF SendToController, InputFree
  <2>2. /\ a20pc' \in Handshake
        /\ inbuf' = "write" => a20pc' = "enable"
        /\ a20pc' = "enable" => inbuf' = "write"
        /\ a20pc' = "finish" => a20pc = "enable"
    BY <1>1, <2>1, AfterIs DEF SendToController, Handshake
  <2>3. a20pc \in Handshake /\ a20pc' \notin {"check", "enabled", "failed", "reset"}
    BY <2>1, <2>2 DEF Handshake
  <2>4. a20pc' = "finish" => due' <= a20'.delay[2]
    BY <2>1, <2>2 DEF A20Inv
  <2>5. a20pc' = "enable" /\ inbuf' # "write" => due' <= a20'.delay[2]
    BY <2>2
  <2>6. A20Decided'
    BY <2>3 DEF A20Decided
  <2>7. a20.alike \/ TooSlow(1)
    BY <2>3 DEF A20Inv
  <2> QED
    BY <2>1, <2>2, <2>3, <2>4, <2>5, <2>6, <2>7 DEF A20Inv, TooSlow, line
<1>2. CASE TakeFromController
  <2>1. /\ a20pc = "take" /\ a20pc' = "announce"
        /\ al' = outbuf /\ outbuf' = "nothing"
        /\ UNCHANGED <<a20, due, tried, checks, inbuf>>
    BY <1>2, AfterIs DEF TakeFromController
  <2> QED
    BY <2>1 DEF A20Inv, A20Decided, Handshake, TooSlow, line
<1>3. CASE FinishHandshake
  <2>1. /\ a20pc = "finish" /\ inbuf = "nothing" /\ a20pc' = "check" /\ tried' = 2
        /\ UNCHANGED <<a20, due, checks, inbuf, outbuf, al>>
    BY <1>3 DEF FinishHandshake, InputFree, kbdvars
  <2>2. due + checks <= a20.delay[2] /\ tried = 1 /\ checks = 0
    <3>1. due <= a20.delay[2] /\ tried = 1 /\ checks = 0
      BY <2>1 DEF A20Inv, Handshake
    <3> QED
      BY <3>1, A20Facts
  <2> QED
    BY <2>1, <2>2 DEF A20Inv, A20Decided, Handshake, TooSlow, line
<1>4. CASE ControllerTakes
  <2>1. /\ inbuf # "nothing" /\ inbuf' = "nothing"
        /\ outbuf' \in {outbuf, "port"}
        /\ UNCHANGED <<a20, tried, checks, al>>
    BY <1>4 DEF ControllerTakes
  <2>2. CASE inbuf # "write"
    <3>1. due' = due /\ a20pc' = a20pc
      BY <1>4, <2>2 DEF ControllerTakes
    <3>2. A20Decided'
      BY <2>1, <3>1 DEF A20Inv, A20Decided, TooSlow, line
    <3>3. a20pc' = "enable" /\ inbuf' # "write" => due' <= a20'.delay[2]
      BY <2>1, <2>2, <3>1 DEF A20Inv
    <3> QED
      BY <2>1, <2>2, <3>1, <3>2, <3>3 DEF A20Inv, TooSlow, line
  <2>3. CASE inbuf = "write"
    <3>1. /\ due' = Sooner(due, a20.delay[2])
          /\ a20pc' = IF al = "even key" THEN "reset" ELSE a20pc
      BY <1>4, <2>3 DEF ControllerTakes
    <3>2. due' \in 0 .. Never /\ due' <= a20.delay[2] /\ (line => line')
      <4>1. a20.delay[2] \in 0 .. Never /\ due \in 0 .. Never
        BY A20Facts
      <4>2. due' = IF due < a20.delay[2] THEN due ELSE a20.delay[2]
        BY <3>1 DEF Sooner
      <4>3. due' \in 0 .. Never
        BY <4>1, <4>2
      <4>4. due' <= a20.delay[2]
        BY <4>1, <4>2
      <4>5. line => line'
        BY <4>1, <4>2 DEF line
      <4> QED
        BY <4>3, <4>4, <4>5
    <3>3. a20pc \in {"enable", "reset"} /\ a20pc' \in {"enable", "reset"}
          /\ (a20pc' = "enable" => a20pc = "enable")
      BY <2>3, <3>1 DEF A20Inv
    <3>4. (a20.alike \/ ~ a20.on) /\ (a20.alike \/ TooSlow(1))
      <4>1. CASE a20pc = "enable"
        <5>1. tried = 1 /\ a20pc \in Handshake
          BY <4>1 DEF A20Inv, Handshake
        <5> QED
          BY <5>1 DEF A20Inv
      <4>2. CASE a20pc = "reset"
        BY <4>2 DEF A20Inv, A20Decided
      <4> QED
        BY <3>3, <4>1, <4>2
    <3>5. a20pc' = "reset" => a20.waiting = "even key"
      BY <3>1 DEF A20Inv, A20Decided
    <3>6. A20Decided'
      BY <2>1, <3>3, <3>4, <3>5 DEF A20Decided, TooSlow
    <3> QED
      BY <2>1, <2>3, <3>2, <3>3, <3>4, <3>6 DEF A20Inv, TooSlow, line, Handshake
  <2> QED
    BY <2>2, <2>3
<1> QED
  BY <1>1, <1>2, <1>3, <1>4

\* Each step of enable_A20 preserves the invariant.
LEMMA A20StepInv ==
  ASSUME A20Inv, A20Next
  PROVE  A20Inv'
BY A20CheckInv, A20HandshakeInv DEF A20Next

-----------------------------------------------------------------------------
(* The memory map.                                                         *)

Region == [address : Nat, length : Nat, usable : BOOLEAN]

\* Each entry that was returned is at its place, and the area has room for the rest.
MapInv ==
  /\ SoundBios(bios)
  /\ mappc \in {"first", "more", "stored", "failed"}
  /\ mappc = "first" => di = MapStart /\ next = 0 /\ table = << >>
  /\ mappc = "more" =>
       /\ next \in 1 .. Len(bios.entries)
       /\ bios.last = "zero" => next < Len(bios.entries)
       /\ di = MapStart + EntrySize * (next - 1)
       /\ di < MapLimit
  /\ mappc \in {"more", "stored"} =>
       /\ table \in Seq(Region)
       /\ mappc = "more" => Len(table) = next
       /\ \A i \in 1 .. Len(table) : table[i] = bios.entries[i]
  /\ MapStored

\* What is known of the map that the BIOS has.
LEMMA BiosFacts ==
  ASSUME MapInv
  PROVE  /\ bios.entries \in Seq(Region)
         /\ Len(bios.entries) \in Nat \ {0}
         /\ \A i \in 1 .. Len(bios.entries) : bios.entries[i] \in Region
         /\ bios.last = "zero" => Len(bios.entries) # 1 /\ Len(bios.entries) # 171
<1>1. bios.entries \in Seq(Region) /\ Len(bios.entries) > 0
  BY DEF MapInv, SoundBios, Bios, Region
<1>2. bios.last = "zero" => Len(bios.entries) # 1 /\ Len(bios.entries) # 171
  BY DEF MapInv, SoundBios, MapLimit, MapStart, EntrySize
<1> QED
  BY <1>1, <1>2

\* get_memory_map starts with an empty table.
LEMMA MapInitInv ==
  ASSUME NEW b, SoundBios(b), MapInit(b)
  PROVE  MapInv
BY DEF MapInit, MapInv, MapStored

\* An answer adds the next entry.
LEMMA AnswerFacts ==
  ASSUME MapInv, Answer, mappc \in {"first", "more"}, next < Len(bios.entries)
  PROVE  /\ next \in Nat
         /\ table' \in Seq(Region)
         /\ Len(table') = next + 1
         /\ \A i \in 1 .. next + 1 : table'[i] = bios.entries[i]
         /\ next' = IF next + 1 = Len(bios.entries) /\ bios.last = "zero" THEN 0 ELSE next + 1
<1>1. next \in Nat /\ table \in Seq(Region) /\ Len(table) = next
  <2>1. CASE mappc = "first"
    <3>1. next = 0 /\ table = << >>
      BY <2>1 DEF MapInv
    <3> QED
      BY <3>1, EmptySeq
  <2>2. CASE mappc = "more"
    BY <2>2, BiosFacts DEF MapInv
  <2> QED
    BY <2>1, <2>2
<1>2. \A i \in 1 .. next : table[i] = bios.entries[i]
  BY <1>1 DEF MapInv
<1>3. bios.entries[next + 1] \in Region
  BY <1>1, BiosFacts
<1>4. table' = Append(table, bios.entries[next + 1])
  BY DEF Answer
<1>5. table' \in Seq(Region) /\ Len(table') = next + 1
  BY <1>1, <1>3, <1>4
<1>6. ASSUME NEW i \in 1 .. next + 1
      PROVE  table'[i] = bios.entries[i]
  <2>1. CASE i \in 1 .. next
    BY <1>1, <1>2, <1>4, <2>1
  <2>2. CASE i = next + 1
    BY <1>1, <1>4, <2>2
  <2> QED
    BY <1>1, <2>1, <2>2
<1>7. next' = IF next + 1 = Len(bios.entries) /\ bios.last = "zero" THEN 0 ELSE next + 1
  BY DEF Answer, Continuation
<1> QED
  BY <1>1, <1>5, <1>6, <1>7

\* The table that has as many entries as the map is the map.
LEMMA WholeMap ==
  ASSUME NEW S, NEW t \in Seq(S), NEW e \in Seq(S), Len(t) = Len(e),
         \A i \in 1 .. Len(t) : t[i] = e[i]
  PROVE  t = e
BY SeqEqual

\* Each step of get_memory_map preserves the invariant.
LEMMA MapStepInv ==
  ASSUME MapInv, MapNext
  PROVE  MapInv'
<1>1. CASE NoMap
  BY <1>1 DEF NoMap, MapInv, MapStored
<1>2. CASE FirstEntry
  <2>1. /\ next = 0 /\ next < Len(bios.entries) /\ mappc = "first" /\ di = MapStart
        /\ Answer /\ mappc' = "more" /\ UNCHANGED <<bios, di, sentinel>>
    BY <1>2, BiosFacts DEF FirstEntry, MapInv
  <2>2. next' = 1 /\ (bios.last = "zero" => 1 < Len(bios.entries))
    BY <2>1, AnswerFacts, BiosFacts
  <2>3. table' \in Seq(Region) /\ Len(table') = 1
        /\ \A i \in 1 .. 1 : table'[i] = bios.entries[i]
    BY <2>1, AnswerFacts
  <2>4. di' = MapStart + EntrySize * (1 - 1) /\ di' < MapLimit
    BY <2>1 DEF MapStart, EntrySize, MapLimit
  <2>5. 1 \in 1 .. Len(bios.entries)
    BY BiosFacts
  <2> QED
    BY <2>1, <2>2, <2>3, <2>4, <2>5 DEF MapInv, MapStored
<1>3. CASE TooManyEntries
  BY <1>3 DEF TooManyEntries, MapInv, MapStored
<1>4. CASE EndByCarry
  <2>1. /\ mappc = "more" /\ next = Len(bios.entries) /\ mappc' = "stored"
        /\ di + EntrySize < MapLimit
        /\ sentinel' = di + EntrySize
        /\ UNCHANGED <<bios, next, table>>
    BY <1>4 DEF EndByCarry, MoreRoom
  <2>2. /\ next \in Nat \ {0} /\ di = MapStart + EntrySize * (next - 1)
        /\ table \in Seq(Region) /\ Len(table) = next
        /\ \A i \in 1 .. Len(table) : table[i] = bios.entries[i]
    BY <2>1, BiosFacts DEF MapInv
  <2>3. table = bios.entries
    BY <2>1, <2>2, BiosFacts, WholeMap
  <2>4. sentinel' = MapStart + EntrySize * next /\ sentinel' + 4 <= MapLimit
    BY <2>1, <2>2 DEF MapStart, EntrySize, MapLimit
  <2> QED
    BY <2>1, <2>2, <2>3, <2>4 DEF MapInv, MapStored
<1>5. CASE NextEntry
  <2>1. /\ mappc = "more" /\ di + EntrySize < MapLimit /\ next < Len(bios.entries)
        /\ Answer /\ UNCHANGED bios
        /\ next' = 0 => /\ mappc' = "stored" /\ di' = di + 2 * EntrySize /\ sentinel' = di'
        /\ next' # 0 => di' = di + EntrySize /\ UNCHANGED <<sentinel, mappc>>
    BY <1>5 DEF NextEntry, MoreRoom
  <2>2. /\ next \in Nat \ {0} /\ di = MapStart + EntrySize * (next - 1)
    BY <2>1, BiosFacts DEF MapInv
  <2>3. /\ table' \in Seq(Region) /\ Len(table') = next + 1
        /\ \A i \in 1 .. next + 1 : table'[i] = bios.entries[i]
        /\ next' = IF next + 1 = Len(bios.entries) /\ bios.last = "zero" THEN 0 ELSE next + 1
    BY <2>1, AnswerFacts
  <2>4. CASE next + 1 = Len(bios.entries) /\ bios.last = "zero"
    <3>1. next' = 0 /\ mappc' = "stored" /\ sentinel' = di + 2 * EntrySize
      BY <2>1, <2>3, <2>4
    <3>2. table' = bios.entries
      BY <2>3, <2>4, BiosFacts, WholeMap
    <3>3. next + 1 # 171
      BY <2>4, BiosFacts
    <3>4. sentinel' = MapStart + EntrySize * (next + 1) /\ sentinel' + 4 <= MapLimit
      BY <2>1, <2>2, <3>1, <3>3 DEF MapStart, EntrySize, MapLimit
    <3> QED
      BY <2>1, <2>3, <3>1, <3>2, <3>4 DEF MapInv, MapStored
  <2>5. CASE ~ (next + 1 = Len(bios.entries) /\ bios.last = "zero")
    <3>1. next' = next + 1 /\ mappc' = "more" /\ di' = di + EntrySize
      BY <2>1, <2>2, <2>3, <2>5
    <3>2. di' = MapStart + EntrySize * (next + 1 - 1) /\ di' < MapLimit
      BY <2>1, <2>2, <3>1 DEF MapStart, EntrySize, MapLimit
    <3>3. next + 1 \in 1 .. Len(bios.entries)
          /\ (bios.last = "zero" => next + 1 < Len(bios.entries))
      BY <2>1, <2>2, <2>5, BiosFacts
    <3> QED
      BY <2>1, <2>3, <3>1, <3>2, <3>3 DEF MapInv, MapStored
  <2> QED
    BY <2>4, <2>5
<1> QED
  BY <1>1, <1>2, <1>3, <1>4, <1>5 DEF MapNext

\* What load_kernel needs to know of the table.
LEMMA MapInvTable ==
  ASSUME MapInv, mappc = "stored"
  PROVE  TableTyped /\ Len(table) \in Nat
<1>1. table \in Seq(Region)
  BY DEF MapInv
<1>2. \A i \in 1 .. Len(table) : table[i] \in Region
  BY <1>1
<1> QED
  BY <1>1, <1>2 DEF TableTyped, Region

-----------------------------------------------------------------------------
(* The video mode.                                                         *)

PixelsOf(i) == video.modes[i].x * video.modes[i].y

\* The modes on the list up to n, n included or not.
LookedAt == IF videopc \in {"info", "list"} \/ (videopc = "turn" /\ ax = FirstTurn)
              THEN {i \in 1 .. Len(video.modes) : i < mode}
            ELSE IF videopc = "turn" THEN {i \in 1 .. Len(video.modes) : i <= mode}
            ELSE 1 .. Len(video.modes)

VideoInv ==
  /\ SoundVideo(video)
  /\ videopc \in {"info", "turn", "list", "set", "done", "failed"}
  /\ mode \in Nat \ {0}
  /\ videopc = "info" => ax = FirstTurn
  /\ pixels \in Nat
  /\ chosen = NoMode => pixels = 0
  /\ chosen # NoMode =>
       chosen \in 1 .. Len(video.modes) /\ Usable(chosen) /\ pixels = PixelsOf(chosen)
  /\ videopc # "failed" =>
       \A i \in LookedAt : Usable(i) => chosen # NoMode /\ PixelsOf(i) <= pixels
  /\ videopc \in {"set", "done"} => chosen # NoMode
  /\ BestMode

\* get_vbe_modes starts with no mode looked at.
LEMMA VideoInitInv ==
  ASSUME NEW v, SoundVideo(v), VideoInit(v)
  PROVE  VideoInv
<1>1. /\ video = v /\ videopc = "info" /\ mode = 1 /\ pixels = 0 /\ chosen = NoMode
      /\ ax = FirstTurn
  BY DEF VideoInit
<1>2. LookedAt = {}
  BY <1>1 DEF LookedAt
<1> QED
  BY <1>1, <1>2 DEF VideoInv, BestMode

\* The modes on the list have a size and a depth.
LEMMA ModesTyped ==
  ASSUME VideoInv
  PROVE  /\ Len(video.modes) \in Nat /\ Len(video.modes) < NoMode
         /\ \A i \in 1 .. Len(video.modes) : PixelsOf(i) \in Nat
<1> DEFINE Mode == [answer : Nat, bpp : Nat, x : Nat, y : Nat]
<1>1. video.modes \in Seq(Mode) /\ Len(video.modes) < NoMode
  BY DEF VideoInv, SoundVideo, VideoBios
<1>2. ASSUME NEW i \in 1 .. Len(video.modes)
      PROVE  PixelsOf(i) \in Nat
  <2>1. video.modes[i] \in Mode
    <3> HIDE DEF Mode
    <3> QED
      BY <1>1, ElementOfSeq
  <2>2. video.modes[i].x \in Nat /\ video.modes[i].y \in Nat
    BY <2>1
  <2> QED
    BY <2>2, ProductNatural DEF PixelsOf
<1>3. Len(video.modes) \in Nat
  <2> HIDE DEF Mode
  <2> QED
    BY <1>1, LenProperties
<1> QED
  BY <1>1, <1>2, <1>3

\* The next mode on the list is looked at.
LEMMA LookedAtNext ==
  ASSUME VideoInv, InList, videopc' = "turn", UNCHANGED <<video, mode>>
  PROVE  /\ LookedAt = {i \in 1 .. Len(video.modes) : i < mode}
         /\ \A i \in LookedAt' : i \in LookedAt \/ i = mode
         /\ mode \in 1 .. Len(video.modes)
<1>1. mode \in 1 .. Len(video.modes)
  BY ModesTyped DEF VideoInv, InList
<1>2. LookedAt = {i \in 1 .. Len(video.modes) : i < mode}
  BY DEF LookedAt, InList
<1>3. LookedAt' \subseteq {i \in 1 .. Len(video.modes) : i <= mode}
  BY <1>1 DEF LookedAt
<1> QED
  BY <1>1, <1>2, <1>3

\* Each step of get_vbe_modes and set_vbe_mode preserves the invariant.
LEMMA VideoStepInv ==
  ASSUME VideoInv, VideoNext
  PROVE  VideoInv'
<1>1. CASE ControllerInfo
  <2>1. /\ videopc = "info" /\ UNCHANGED <<video, mode, ax, pixels, chosen, info>>
        /\ IF video.vbe THEN videopc' = "turn" ELSE videopc' = "failed"
    BY <1>1 DEF ControllerInfo
  <2>2. mode \in Nat
    BY DEF VideoInv
  <2>3. CASE videopc' = "turn"
    <3>1. LookedAt' = LookedAt
      BY <2>1, <2>3 DEF VideoInv, LookedAt
    <3> QED
      BY <2>1, <2>3, <3>1 DEF VideoInv, BestMode, Usable, PixelsOf
  <2>4. CASE videopc' = "failed"
    BY <2>1, <2>4 DEF VideoInv, BestMode, Usable, PixelsOf
  <2> QED
    BY <2>1, <2>3, <2>4
<1>2. CASE GotoNextMode
  <2>1. /\ videopc = "turn" /\ videopc' = "list"
        /\ UNCHANGED <<video, ax, pixels, chosen, info>>
        /\ mode' = IF ax = FirstTurn THEN mode ELSE mode + 1
    BY <1>2 DEF GotoNextMode
  <2>2. mode \in Nat \ {0} /\ mode' \in Nat \ {0}
    BY <2>1 DEF VideoInv
  <2>3. LookedAt' = LookedAt
    BY <2>1, <2>2, ModesTyped DEF LookedAt
  <2> QED
    BY <2>1, <2>2, <2>3 DEF VideoInv, BestMode, Usable, PixelsOf
<1>3. CASE PassMode
  <2>1. /\ InList /\ videopc' = "turn" /\ ~ Usable(mode)
        /\ UNCHANGED <<video, mode, pixels, chosen>>
    BY <1>3 DEF PassMode, Usable, This
  <2>2. \A i \in LookedAt' : i \in LookedAt \/ i = mode
    BY <2>1, LookedAtNext
  <2>3. \A i \in LookedAt' : Usable(i) => chosen # NoMode /\ PixelsOf(i) <= pixels
    BY <2>1, <2>2 DEF VideoInv, InList
  <2> QED
    BY <2>1, <2>3 DEF VideoInv, BestMode, Usable, PixelsOf
<1>4. CASE CheckMode
  <2>1. /\ InList /\ videopc = "list" /\ videopc' = "turn" /\ Usable(mode)
        /\ UNCHANGED <<video, mode>>
        /\ IF PixelsOf(mode) >= pixels THEN pixels' = PixelsOf(mode) /\ chosen' = mode
                                       ELSE UNCHANGED <<pixels, chosen>>
    BY <1>4 DEF CheckMode, Usable, This, InList, Resolution, PixelsOf
  <2>2. /\ mode \in 1 .. Len(video.modes) /\ mode # NoMode
        /\ PixelsOf(mode) \in Nat /\ pixels \in Nat
        /\ \A i \in LookedAt' : i \in LookedAt \/ i = mode
        /\ LookedAt \subseteq 1 .. Len(video.modes)
    BY <2>1, LookedAtNext, ModesTyped DEF VideoInv
  <2>3. \A i \in LookedAt : Usable(i) =>
           chosen # NoMode /\ PixelsOf(i) <= pixels /\ PixelsOf(i) \in Nat
    BY <2>1, <2>2, ModesTyped DEF VideoInv
  <2>4. /\ chosen' # NoMode
        /\ chosen' \in 1 .. Len(video.modes) /\ Usable(chosen') /\ pixels' = PixelsOf(chosen')
        /\ pixels' \in Nat /\ pixels <= pixels' /\ PixelsOf(mode) <= pixels'
    <3>1. CASE PixelsOf(mode) >= pixels
      BY <2>1, <2>2, <3>1
    <3>2. CASE ~ (PixelsOf(mode) >= pixels)
      <4>1. chosen' = chosen /\ pixels' = pixels /\ pixels # 0 /\ PixelsOf(mode) <= pixels
        BY <2>1, <2>2, <3>2
      <4> QED
        BY <4>1, <2>2 DEF VideoInv
    <3> QED
      BY <3>1, <3>2
  <2>5. ASSUME NEW i \in LookedAt', Usable(i)
        PROVE  PixelsOf(i) <= pixels'
    <3>1. CASE i = mode
      BY <2>4, <3>1
    <3>2. CASE i \in LookedAt
      <4>1. PixelsOf(i) <= pixels /\ PixelsOf(i) \in Nat
        BY <2>3, <2>5, <3>2
      <4> QED
        BY <4>1, <2>2, <2>4
    <3> QED
      BY <2>2, <3>1, <3>2
  <2> QED
    BY <2>1, <2>4, <2>5 DEF VideoInv, BestMode, Usable, PixelsOf
<1>5. CASE EndOfModes
  <2>1. /\ videopc = "list" /\ mode > Len(video.modes)
        /\ UNCHANGED <<video, mode, ax, pixels, chosen, info>>
        /\ videopc' = IF chosen = NoMode THEN "failed" ELSE "set"
    BY <1>5 DEF EndOfModes
  <2>2. LookedAt = 1 .. Len(video.modes)
    BY <2>1, ModesTyped DEF LookedAt, VideoInv
  <2>3. \A i \in 1 .. Len(video.modes) : Usable(i) => chosen # NoMode /\ PixelsOf(i) <= pixels
    BY <2>1, <2>2 DEF VideoInv
  <2>4. BestMode'
    BY <2>1, <2>3 DEF VideoInv, BestMode, Usable, PixelsOf
  <2>5. \A i \in LookedAt' : Usable(i) => chosen # NoMode /\ PixelsOf(i) <= pixels
    BY <2>1, <2>3 DEF LookedAt
  <2> QED
    BY <2>1, <2>4, <2>5 DEF VideoInv, Usable, PixelsOf
<1>6. CASE SetMode
  <2>1. /\ videopc = "set" /\ UNCHANGED <<video, mode, ax, pixels, chosen>>
        /\ info' = chosen /\ videopc' = IF video.settable THEN "done" ELSE "failed"
    BY <1>6 DEF SetMode
  <2>2. BestMode'
    BY <2>1 DEF VideoInv, BestMode, Usable, PixelsOf
  <2>3. videopc' = "done" => LookedAt' = LookedAt
    BY <2>1 DEF LookedAt
  <2> QED
    BY <2>1, <2>2, <2>3 DEF VideoInv, Usable, PixelsOf
<1> QED
  BY <1>1, <1>2, <1>3, <1>4, <1>5, <1>6 DEF VideoNext

-----------------------------------------------------------------------------
(* The page tables.                                                        *)

\* The entries that the loops have written are those they are meant to write; the
\* first directory is as it was made.
PageInv ==
  /\ pagepc \in {"tables", "paging", "pds", "pdpt", "kernel"}
  /\ rcx \in Nat
  /\ pagepc \in {"tables", "paging"} => rcx = 0
  /\ DOMAIN pdpt = Entries /\ DOMAIN pd = 0 .. Dirs
  /\ \A d \in 0 .. Dirs : DOMAIN pd[d] = Entries
  /\ pagepc # "tables" => \A i \in Entries : pd[0][i] = IF i = 0 THEN 0 ELSE None
  /\ pagepc \in {"paging", "pds"} => \A i \in Entries : pdpt[i] = IF i = 0 THEN 0 ELSE None
  /\ pagepc = "pds" =>
       /\ rcx < Dirs * PerTable
       /\ \A p \in 0 .. rcx - 1 : pd[1 + p \div PerTable][p % PerTable] = p
  /\ pagepc \in {"pdpt", "kernel"} =>
       \A p \in Pages : pd[1 + p \div PerTable][p % PerTable] = p
  /\ pagepc = "pdpt" =>
       /\ rcx < Dirs
       /\ \A i \in Entries : pdpt[i] = IF i < rcx THEN i + 1 ELSE IF i = 0 THEN 0 ELSE None
  /\ pagepc = "kernel" => \A i \in Entries : pdpt[i] = IF i < Dirs THEN i + 1 ELSE None

\* The number of a page is that of its directory and of the entry in it.
LEMMA PageFacts ==
  ASSUME NEW p \in AllPages
  PROVE  /\ p \in Nat
         /\ p \div PerTable \in Entries
         /\ p % PerTable \in Entries
         /\ p = PerTable * (p \div PerTable) + (p % PerTable)
         /\ p \in Pages <=> p \div PerTable < Dirs
<1>1. PerTable \in Nat \ {0} /\ Dirs \in 1 .. PerTable
  BY TableAssumption
<1>2. p \in Nat /\ p < PerTable * PerTable
  <2>1. PerTable * PerTable \in Nat
    BY <1>1, ProductNatural
  <2> QED
    BY <2>1 DEF AllPages
<1>3. /\ p \div PerTable \in Nat
      /\ p % PerTable \in 0 .. PerTable - 1
      /\ p = PerTable * (p \div PerTable) + (p % PerTable)
  BY <1>1, <1>2, Division
<1> DEFINE q == p \div PerTable
           r == p % PerTable
<1>4. \A n \in Nat : q < n => p < PerTable * n
  <2> SUFFICES ASSUME NEW n \in Nat, q < n
               PROVE  p < PerTable * n
    OBVIOUS
  <2>1. PerTable * q + PerTable <= PerTable * n
    BY <1>1, <1>3, MultiplesApart
  <2>2. PerTable * q \in Nat /\ PerTable * n \in Nat
    BY <1>1, <1>3, ProductNatural
  <2> QED
    BY <1>1, <1>3, <2>1, <2>2
<1>5. \A n \in Nat : q >= n => p >= PerTable * n
  <2> SUFFICES ASSUME NEW n \in Nat, q >= n
               PROVE  p >= PerTable * n
    OBVIOUS
  <2>1. PerTable * q >= PerTable * n
    <3>1. CASE q = n
      BY <3>1, <1>1, ProductNatural
    <3>2. CASE n < q
      <4>1. PerTable * n + PerTable <= PerTable * q
        BY <3>2, <1>1, <1>3, MultiplesApart
      <4>2. PerTable * q \in Nat /\ PerTable * n \in Nat
        BY <1>1, <1>3, ProductNatural
      <4> QED
        BY <4>1, <4>2, <1>1
    <3> QED
      BY <3>1, <3>2, <1>3
  <2>2. PerTable * q \in Nat /\ PerTable * n \in Nat
    BY <1>1, <1>3, ProductNatural
  <2> QED
    BY <1>3, <2>1, <2>2
<1>6. q < PerTable
  <2>1. q >= PerTable => p >= PerTable * PerTable
    BY <1>1, <1>5
  <2>2. PerTable * PerTable \in Nat
    BY <1>1, ProductNatural
  <2> QED
    BY <1>1, <1>2, <1>3, <2>1, <2>2
<1>7. p \in Pages <=> p < PerTable * Dirs
  <2>1. PerTable * Dirs \in Nat /\ PerTable * Dirs = Dirs * PerTable
    BY <1>1, ProductNatural
  <2> QED
    BY <1>2, <2>1 DEF Pages
<1>8. q < Dirs <=> p < PerTable * Dirs
  <2>1. PerTable * Dirs \in Nat /\ Dirs \in Nat
    BY <1>1, ProductNatural
  <2>2. q < Dirs \/ q >= Dirs
    BY <1>3, <2>1
  <2>3. p >= PerTable * Dirs => ~ (p < PerTable * Dirs)
    BY <1>2, <2>1
  <2> QED
    BY <1>3, <1>4, <1>5, <2>1, <2>2, <2>3
<1> QED
  BY <1>1, <1>2, <1>3, <1>6, <1>7, <1>8 DEF Entries

\* All pages of the new directories have a number below that of the entries of tables.
LEMMA PagesAreAll == Pages \subseteq AllPages
<1>1. PerTable \in Nat \ {0} /\ Dirs \in 1 .. PerTable
  BY TableAssumption
<1>2. Dirs * PerTable <= PerTable * PerTable
  <2>1. CASE Dirs = PerTable
    BY <2>1, <1>1, ProductNatural
  <2>2. CASE Dirs < PerTable
    <3>1. PerTable * Dirs + PerTable <= PerTable * PerTable
      BY <2>2, <1>1, MultiplesApart
    <3>2. PerTable * Dirs = Dirs * PerTable /\ PerTable * Dirs \in Nat
          /\ PerTable * PerTable \in Nat
      BY <1>1, ProductNatural
    <3> QED
      BY <3>1, <3>2, <1>1
  <2> QED
    BY <2>1, <2>2, <1>1
<1>3. Dirs * PerTable \in Nat /\ PerTable * PerTable \in Nat
  BY <1>1, ProductNatural
<1> QED
  BY <1>2, <1>3 DEF Pages, AllPages

\* enter_lmode starts with paging off.
LEMMA PageInitInv ==
  ASSUME PageInit
  PROVE  PageInv
BY DEF PageInit, PageInv

\* Each step of enter_lmode preserves the invariant.
LEMMA PageStepInv ==
  ASSUME PageInv, PageNext
  PROVE  PageInv'
<1>1. PerTable \in Nat \ {0} /\ Dirs \in 1 .. PerTable /\ Dirs * PerTable \in Nat \ {0}
  BY TableAssumption
<1>2. CASE MakeTables
  <2>1. /\ pagepc = "tables" /\ pagepc' = "paging" /\ rcx' = rcx
        /\ pdpt' = [i \in Entries |-> IF i = 0 THEN 0 ELSE None]
        /\ pd' = [pd EXCEPT ![0] = [i \in Entries |-> IF i = 0 THEN 0 ELSE None]]
    BY <1>2 DEF MakeTables
  <2>2. 0 \in 0 .. Dirs
    BY <1>1
  <2> QED
    BY <2>1, <2>2 DEF PageInv
<1>3. CASE EnablePaging
  <2>1. /\ pagepc = "paging" /\ pagepc' = "pds" /\ UNCHANGED <<pdpt, pd, rcx>>
    BY <1>3 DEF EnablePaging
  <2>2. rcx = 0 /\ rcx < Dirs * PerTable
    BY <2>1, <1>1 DEF PageInv
  <2> QED
    BY <2>1, <2>2 DEF PageInv
<1>4. CASE MakePd
  <2>1. /\ pagepc = "pds" /\ pdpt' = pdpt
        /\ pd' = [pd EXCEPT ![1 + rcx \div PerTable][rcx % PerTable] = rcx]
        /\ IF rcx + 1 < Dirs * PerTable THEN rcx' = rcx + 1 /\ pagepc' = "pds"
                                        ELSE rcx' = 0 /\ pagepc' = "pdpt"
    BY <1>4 DEF MakePd
  <2>2. rcx \in Nat /\ rcx < Dirs * PerTable
    BY <2>1 DEF PageInv
  <2>3. rcx \in Pages
    BY <1>1, <2>2 DEF Pages
  <2> DEFINE d == 1 + rcx \div PerTable
             i == rcx % PerTable
  <2>4. d \in 1 .. Dirs /\ i \in Entries
    BY <1>1, <2>3, PageFacts, PagesAreAll DEF Entries
  <2>5. d \in DOMAIN pd /\ i \in DOMAIN pd[d] /\ d # 0
    BY <2>1, <2>4, <1>1 DEF PageInv
  <2>6. /\ pd'[d][i] = rcx
        /\ DOMAIN pd' = DOMAIN pd /\ \A e \in DOMAIN pd : DOMAIN pd'[e] = DOMAIN pd[e]
        /\ \A e \in DOMAIN pd : \A j \in DOMAIN pd[e] : e # d \/ j # i => pd'[e][j] = pd[e][j]
    <3> HIDE DEF d, i
    <3>1. pd' = [pd EXCEPT ![d][i] = rcx]
      BY <2>1 DEF d, i
    <3> QED
      BY <3>1, <2>5
  <2>7. ASSUME NEW p \in 0 .. rcx
        PROVE  pd'[1 + p \div PerTable][p % PerTable] = p
    <3>1. CASE p = rcx
      BY <3>1, <2>6
    <3>2. CASE p # rcx
      <4>1. p \in 0 .. rcx - 1 /\ p \in Pages
        BY <3>2, <2>2, <1>1 DEF Pages
      <4>2. pd[1 + p \div PerTable][p % PerTable] = p
        BY <4>1, <2>1 DEF PageInv
      <4>3. /\ p \div PerTable \in Nat /\ 1 + p \div PerTable \in 1 .. Dirs
            /\ p % PerTable \in Entries
        BY <4>1, <1>1, PageFacts, PagesAreAll DEF Entries
      <4>4. 1 + p \div PerTable # d \/ p % PerTable # i
        <5> SUFFICES ASSUME 1 + p \div PerTable = d, p % PerTable = i
                     PROVE  FALSE
          OBVIOUS
        <5>1. rcx \div PerTable \in Nat
          BY <2>3, PageFacts, PagesAreAll DEF Entries
        <5>2. p \div PerTable = rcx \div PerTable
          BY <4>3, <5>1
        <5>3. p = rcx
          BY <5>2, <4>1, <2>3, PageFacts, PagesAreAll
        <5> QED
          BY <5>3, <3>2
      <4>5. 1 + p \div PerTable \in DOMAIN pd /\ p % PerTable \in DOMAIN pd[1 + p \div PerTable]
        BY <4>3, <1>1 DEF PageInv
      <4> QED
        BY <4>2, <4>4, <4>5, <2>6
    <3> QED
      BY <3>1, <3>2
  <2>8. \A j \in Entries : pd'[0][j] = pd[0][j]
    <3>1. 0 \in DOMAIN pd /\ DOMAIN pd[0] = Entries
      BY <1>1 DEF PageInv
    <3> QED
      BY <3>1, <2>5, <2>6
  <2>9. DOMAIN pd' = 0 .. Dirs /\ \A e \in 0 .. Dirs : DOMAIN pd'[e] = Entries
    BY <2>6 DEF PageInv
  <2>10. CASE rcx + 1 < Dirs * PerTable
    <3>1. \A p \in 0 .. rcx' - 1 : pd'[1 + p \div PerTable][p % PerTable] = p
      BY <2>1, <2>2, <2>7, <2>10
    <3> QED
      BY <2>1, <2>2, <2>8, <2>9, <2>10, <3>1 DEF PageInv
  <2>11. CASE ~ (rcx + 1 < Dirs * PerTable)
    <3>1. \A p \in Pages : pd'[1 + p \div PerTable][p % PerTable] = p
      <4>1. rcx = Dirs * PerTable - 1
        BY <2>2, <2>11, <1>1
      <4> QED
        BY <4>1, <2>7 DEF Pages
    <3>2. \A j \in Entries : ~ (j < 0)
      BY DEF Entries
    <3>3. 0 < Dirs
      BY <1>1
    <3> QED
      BY <2>1, <2>8, <2>9, <2>11, <3>1, <3>2, <3>3 DEF PageInv
  <2> QED
    BY <2>10, <2>11
<1>5. CASE MakePdpt
  <2>1. /\ pagepc = "pdpt" /\ pd' = pd
        /\ pdpt' = [pdpt EXCEPT ![rcx] = rcx + 1]
        /\ IF rcx + 1 < Dirs THEN rcx' = rcx + 1 /\ pagepc' = "pdpt"
                             ELSE rcx' = 0 /\ pagepc' = "kernel"
    BY <1>5 DEF MakePdpt
  <2>2. /\ rcx \in Nat /\ rcx < Dirs /\ DOMAIN pdpt = Entries
        /\ \A i \in Entries : pdpt[i] = IF i < rcx THEN i + 1 ELSE IF i = 0 THEN 0 ELSE None
    BY <2>1 DEF PageInv
  <2>3. \A i \in Entries :
          pdpt'[i] = IF i < rcx + 1 THEN i + 1 ELSE IF i = 0 THEN 0 ELSE None
    BY <2>1, <2>2 DEF Entries
  <2>4. DOMAIN pdpt' = Entries
    BY <2>1, <2>2
  <2>5. CASE rcx + 1 < Dirs
    BY <2>1, <2>2, <2>3, <2>4, <2>5 DEF PageInv
  <2>6. CASE ~ (rcx + 1 < Dirs)
    <3>1. rcx + 1 = Dirs
      BY <2>2, <2>6, <1>1
    <3>2. \A i \in Entries : pdpt'[i] = IF i < Dirs THEN i + 1 ELSE None
      BY <2>3, <3>1, <1>1 DEF Entries
    <3> QED
      BY <2>1, <2>2, <2>4, <2>6, <3>2 DEF PageInv
  <2> QED
    BY <2>5, <2>6
<1> QED
  BY <1>2, <1>3, <1>4, <1>5 DEF PageNext

\* Where a page is mapped to while paging is on.
Mapped(p) ==
  \/ pagepc = "kernel" /\ p \in Pages
  \/ pagepc = "pdpt" /\ (p \div PerTable < rcx \/ p = 0)
  \/ pagepc = "pds" /\ p = 0

TranslatesMapped == \A p \in AllPages : Translate(p) = IF Mapped(p) THEN p ELSE None

\* While paging is on, a page that is mapped is mapped to itself.
LEMMA TranslateIs == PageInv /\ Paging => TranslatesMapped
<1> SUFFICES ASSUME PageInv, Paging, NEW p \in AllPages
             PROVE  Translate(p) = IF Mapped(p) THEN p ELSE None
  BY DEF TranslatesMapped
<1>1. PerTable \in Nat \ {0} /\ Dirs \in 1 .. PerTable
  BY TableAssumption
<1> DEFINE q == p \div PerTable
           r == p % PerTable
<1>2. /\ p \in Nat /\ q \in Entries /\ r \in Entries
      /\ p = PerTable * q + r
      /\ p \in Pages <=> q < Dirs
  BY PageFacts
<1>3. p = 0 <=> q = 0 /\ r = 0
  <2>1. q \in Nat /\ r \in Nat
    BY <1>2, <1>1 DEF Entries
  <2>2. q = 0 /\ r = 0 => p = 0
    BY <1>1, <1>2
  <2>3. ASSUME p = 0
        PROVE  q = 0 /\ r = 0
    <3>1. PerTable * 0 + 0 = 0 /\ 0 \in 0 .. PerTable - 1
      BY <1>1
    <3> QED
      BY <2>3, <3>1, <1>1, QuotientUnique
  <2> QED
    BY <2>2, <2>3
<1>4. \A i \in Entries : pd[0][i] = IF i = 0 THEN 0 ELSE None
  BY DEF PageInv, Paging
<1> HIDE DEF q, r
<1>5. Translate(p) = IF pdpt[q] = None THEN None ELSE pd[pdpt[q]][r]
  BY DEF Translate, q, r
<1>6. q \in Nat /\ q + 1 # None /\ 0 # None
  BY <1>1, <1>2 DEF Entries, None
<1>7. CASE pagepc = "pds"
  <2>1. pdpt[q] = IF q = 0 THEN 0 ELSE None
    BY <1>2, <1>7 DEF PageInv
  <2> QED
    BY <2>1, <1>2, <1>3, <1>4, <1>5, <1>6, <1>7 DEF Mapped
<1>8. CASE pagepc = "pdpt"
  <2>1. pdpt[q] = IF q < rcx THEN q + 1 ELSE IF q = 0 THEN 0 ELSE None
    BY <1>2, <1>8 DEF PageInv
  <2>2. CASE q < rcx
    <3>1. p \in Pages
      BY <1>1, <1>2, <1>6, <1>8, <2>2 DEF PageInv
    <3>2. pd[1 + q][r] = p
      BY <1>8, <3>1 DEF PageInv, q, r
    <3>3. 1 + q = q + 1
      BY <1>6
    <3>4. Mapped(p)
      BY <1>8, <2>2 DEF Mapped, q
    <3> QED
      BY <2>1, <2>2, <3>2, <3>3, <3>4, <1>5, <1>6
  <2>3. CASE ~ (q < rcx)
    <3>1. Mapped(p) <=> p = 0
      BY <1>8, <2>3 DEF Mapped, q
    <3> QED
      BY <2>1, <2>3, <3>1, <1>2, <1>3, <1>4, <1>5, <1>6
  <2> QED
    BY <2>2, <2>3
<1>9. CASE pagepc = "kernel"
  <2>1. pdpt[q] = IF q < Dirs THEN q + 1 ELSE None
    BY <1>2, <1>9 DEF PageInv
  <2>2. p \in Pages => pd[1 + q][r] = p
    BY <1>9 DEF PageInv, q, r
  <2>3. 1 + q = q + 1
    BY <1>6
  <2>4. Mapped(p) <=> p \in Pages
    BY <1>9 DEF Mapped
  <2> QED
    BY <2>1, <2>2, <2>3, <2>4, <1>2, <1>5, <1>6
<1> QED
  BY <1>7, <1>8, <1>9 DEF Paging

\* The page the loader itself runs in.
LEMMA NullPage == 0 \in AllPages /\ 0 \in Pages
<1>1. PerTable \in Nat \ {0} /\ Dirs \in Nat \ {0}
  BY TableAssumption
<1>2. PerTable * PerTable \in Nat \ {0} /\ Dirs * PerTable \in Nat \ {0}
  BY <1>1
<1> QED
  BY <1>2 DEF AllPages, Pages

\* The invariant gives the identity map that the running code needs.
LEMMA PageInvMapped ==
  ASSUME PageInv
  PROVE  IdentityMapped
<1> SUFFICES ASSUME Paging
             PROVE  /\ Translate(0) = 0
                    /\ \A p \in AllPages : Translate(p) \in {p, None}
                    /\ pagepc = "kernel" => \A p \in AllPages : Translate(p) = p <=> p \in Pages
  BY DEF IdentityMapped
<1>1. Translate(0) = 0
  <2>1. Mapped(0)
    BY NullPage DEF Mapped, Paging
  <2> QED
    BY <2>1, NullPage, TranslateIs DEF TranslatesMapped
<1>2. \A p \in AllPages : Translate(p) \in {p, None}
  BY TranslateIs DEF TranslatesMapped
<1>3. ASSUME pagepc = "kernel", NEW p \in AllPages
      PROVE  Translate(p) = p <=> p \in Pages
  <2>1. Mapped(p) <=> p \in Pages
    BY <1>3 DEF Mapped
  <2>2. p # None
    BY PageFacts DEF None
  <2> QED
    BY <2>1, <2>2, TranslateIs DEF TranslatesMapped
<1> QED
  BY <1>1, <1>2, <1>3

\* A step of the loops maps what was mapped.
LEMMA PageStepMapped ==
  ASSUME PageInv, PageInv', PageNext, Paging, NEW p \in AllPages, Mapped(p)
  PROVE  Paging' /\ Mapped(p)'
<1>1. p \div PerTable \in Nat /\ PerTable \in Nat \ {0} /\ Dirs \in Nat
  BY TableAssumption, PageFacts DEF Entries
<1>2. ~ MakeTables /\ ~ EnablePaging
  BY DEF Paging, MakeTables, EnablePaging
<1>3. CASE MakePd
  <2>1. pagepc = "pds" /\ pagepc' \in {"pds", "pdpt"} /\ p = 0
    BY <1>3 DEF MakePd, Mapped
  <2> QED
    BY <2>1 DEF Paging, Mapped
<1>4. CASE MakePdpt
  <2>1. /\ pagepc = "pdpt" /\ rcx \in Nat /\ rcx < Dirs
        /\ p \div PerTable < rcx \/ p = 0
        /\ IF rcx + 1 < Dirs THEN rcx' = rcx + 1 /\ pagepc' = "pdpt"
                             ELSE rcx' = 0 /\ pagepc' = "kernel"
    BY <1>4 DEF MakePdpt, Mapped, PageInv
  <2>2. p \in Pages
    <3>1. CASE p = 0
      BY <3>1, NullPage
    <3>2. CASE p \div PerTable < rcx
      <4>1. p \div PerTable < Dirs
        BY <1>1, <2>1, <3>2
      <4> QED
        BY <4>1, PageFacts
    <3> QED
      BY <2>1, <3>1, <3>2
  <2>3. CASE rcx + 1 < Dirs
    <3>1. p \div PerTable < rcx' \/ p = 0
      BY <1>1, <2>1, <2>3
    <3> QED
      BY <2>1, <2>3, <3>1 DEF Paging, Mapped
  <2>4. CASE ~ (rcx + 1 < Dirs)
    BY <2>1, <2>2, <2>4 DEF Paging, Mapped
  <2> QED
    BY <2>3, <2>4
<1> QED
  BY <1>2, <1>3, <1>4 DEF PageNext

\* No step takes a page away, or maps it elsewhere.
LEMMA PageStepNoFlush ==
  ASSUME PageInv, PageInv', PageNext, NEW p \in AllPages, Paging, Translation[p] # None
  PROVE  Translation'[p] = Translation[p]
<1>1. Mapped(p) /\ Translation[p] = p
  BY TranslateIs DEF TranslatesMapped, Translation
<1>2. Paging' /\ Mapped(p)'
  BY <1>1, PageStepMapped
<1>3. Translate(p)' = p
  <2>1. (PageInv /\ Paging => TranslatesMapped)'
    BY TranslateIs, PTL
  <2> QED
    BY <2>1, <1>2 DEF TranslatesMapped
<1>4. Translation'[p] = Translate(p)'
  BY DEF Translation
<1> QED
  BY <1>1, <1>3, <1>4

-----------------------------------------------------------------------------
(* The parts together.                                                     *)

\* A part begins when those before it are done, and later parts leave it alone.
StageInv ==
  /\ features \subseteq Features
  /\ stage \in {"records", "check", "a20", "map", "load", "video", "paging", "kernel",
                "failed", "reset"}
  /\ stage = "records" => recpc \notin {"second", "failed"}
  /\ stage \in {"check", "a20", "map", "load", "video", "paging", "kernel"} => recpc = "second"
  /\ stage \in {"a20", "map", "load", "video", "paging", "kernel"} => features = Features
  /\ stage \in {"map", "load", "video", "paging", "kernel"} => a20pc = "enabled"
  /\ stage \in {"records", "check", "a20"} => mappc = "first"
  /\ stage \in {"load", "video", "paging", "kernel"} => mappc = "stored"
  /\ stage \in {"records", "check", "a20", "map"} => loadpc = "find"
  /\ stage \in {"video", "paging", "kernel"} => loadpc = "loaded"
  /\ loadpc # "find" => mappc = "stored" /\ recpc = "second"
  /\ stage \in {"paging", "kernel"} => videopc = "done"
  /\ stage = "kernel" => pagepc = "kernel"

LoaderInv ==
  /\ SoundKernel /\ SoundRecords
  /\ RecordsInv
  /\ A20Inv
  /\ MapInv
  /\ LoadInv
  /\ VideoInv
  /\ PageInv
  /\ StageInv

\* The parts start together.
LEMMA InitFacts ==
  ASSUME Init
  PROVE  LoaderInv
<1>1. PICK m \in Machines :
        /\ features = m.features
        /\ stage = "records"
        /\ RecordsInit(m.disk)
        /\ A20Init(m.a20)
        /\ MapInit(m.bios)
        /\ LoadInit(m.volume)
        /\ VideoInit(m.video)
        /\ PageInit
  BY DEF Init
<1>2. /\ m.features \subseteq Features /\ m.a20 \in A20Hardware
      /\ SoundBios(m.bios) /\ SoundVolume(m.volume)
      /\ SoundFile(m.volume, m.volume.kernel) /\ SoundFile(m.volume, m.volume.second)
      /\ SoundSecond(m.volume) /\ SoundVideo(m.video) /\ m.disk \in Disks
  BY MachineAssumption
<1>3. volume = m.volume
  BY <1>1 DEF LoadInit
<1>4. SoundKernel /\ SoundRecords
  BY <1>2, <1>3 DEF SoundKernel, SoundRecords
<1>5. RecordsInv
  BY <1>1, <1>2, RecordsInitInv
<1>6. A20Inv
  BY <1>1, <1>2, A20InitInv
<1>7. MapInv
  BY <1>1, <1>2, MapInitInv
<1>8. LoadInv
  BY <1>1, LoadInitInv
<1>9. VideoInv
  BY <1>1, <1>2, VideoInitInv
<1>10. PageInv
  BY <1>1, PageInitInv
<1>11. StageInv
  BY <1>1, <1>2 DEF StageInv, RecordsInit, MapInit, LoadInit
<1> QED
  BY <1>4, <1>5, <1>6, <1>7, <1>8, <1>9, <1>10, <1>11 DEF LoaderInv

\* A part whose variables stay keeps its invariant.
LEMMA RecordsStutter == ASSUME RecordsInv, UNCHANGED <<recvars, volume>> PROVE RecordsInv'
BY DEF RecordsInv, recvars, ReadProgress, ClusterBytes

\* The same, of the A20 line.
LEMMA A20Stutter == ASSUME A20Inv, UNCHANGED a20vars PROVE A20Inv'
<1>1. UNCHANGED <<a20, a20pc, due, tried, checks, inbuf, outbuf, al>>
  BY DEF a20vars, kbdvars
<1>2. A20Decided'
  BY <1>1 DEF A20Inv, A20Decided, TooSlow, line
<1> QED
  BY <1>1, <1>2 DEF A20Inv, TooSlow, line

\* The same, of the memory map.
LEMMA MapStutter == ASSUME MapInv, UNCHANGED mapvars PROVE MapInv'
BY DEF MapInv, mapvars, MapStored

\* The same, of the kernel load, which reads the table besides.
LEMMA LoadStutter == ASSUME LoadInv, UNCHANGED <<loadvars, table>> PROVE LoadInv'
BY DEF LoadInv, loadvars, LoadProgress, ClusterBytes, Suitable, KernelSize

\* The same, of the video mode.
LEMMA VideoStutter == ASSUME VideoInv, UNCHANGED videovars PROVE VideoInv'
<1>1. UNCHANGED <<video, videopc, mode, ax, pixels, chosen, info>>
  BY DEF videovars
<1>2. LookedAt' = LookedAt
  BY <1>1 DEF LookedAt
<1>3. BestMode'
  BY <1>1 DEF VideoInv, BestMode, Usable
<1> QED
  BY <1>1, <1>2, <1>3 DEF VideoInv, Usable, PixelsOf

\* The same, of the page tables.
LEMMA PageStutter == ASSUME PageInv, UNCHANGED pagevars PROVE PageInv'
BY DEF PageInv, pagevars

\* The files on the volume stay sound while the volume stays.
LEMMA VolumeStutter ==
  ASSUME SoundKernel, SoundRecords, UNCHANGED volume
  PROVE  SoundKernel' /\ SoundRecords'
BY DEF SoundKernel, SoundRecords

\* Each step of the second stage is a step of one part and leaves the others alone.
LEMMA StepFacts ==
  ASSUME LoaderInv, [Next]_vars
  PROVE  LoaderInv'
<1>1. CASE UNCHANGED vars
  BY <1>1, RecordsStutter, A20Stutter, MapStutter, LoadStutter, VideoStutter, PageStutter,
     VolumeStutter DEF vars, LoaderInv, StageInv, recvars, a20vars, mapvars, loadvars,
     videovars, pagevars
<1>2. CASE RecordsStep
  <2>1. /\ stage = "records" /\ RecordsNext /\ Goes(recpc', "second", "check", "failed")
        /\ UNCHANGED <<features, a20vars, mapvars, loadvars, videovars, pagevars, volume, table>>
    BY <1>2 DEF RecordsStep, loadvars, mapvars
  <2>2. RecordsInv'
    BY <2>1, RecordsStepInv DEF LoaderInv
  <2>3. StageInv'
    BY <2>1 DEF LoaderInv, StageInv, Goes, a20vars, mapvars, loadvars, videovars, pagevars
  <2> QED
    BY <2>1, <2>2, <2>3, A20Stutter, MapStutter, LoadStutter, VideoStutter, PageStutter,
       VolumeStutter DEF LoaderInv
<1>3. CASE UserStep
  <2>1. /\ stage = "records" /\ stage' = stage /\ GetInput /\ recpc' = "probe"
        /\ UNCHANGED <<features, a20vars, mapvars, loadvars, videovars, pagevars, volume, table>>
    BY <1>3 DEF UserStep, GetInput, loadvars, mapvars
  <2>2. RecordsInv'
    BY <2>1, RecordsStepInv DEF LoaderInv
  <2>3. StageInv'
    BY <2>1 DEF LoaderInv, StageInv, a20vars, mapvars, loadvars, videovars, pagevars
  <2> QED
    BY <2>1, <2>2, <2>3, A20Stutter, MapStutter, LoadStutter, VideoStutter, PageStutter,
       VolumeStutter DEF LoaderInv
<1>4. CASE CheckSystem
  <2>1. /\ stage = "check" /\ stage' = IF features = Features THEN "a20" ELSE "failed"
        /\ UNCHANGED <<features, recvars, a20vars, mapvars, loadvars, videovars, pagevars,
                       volume, table>>
    BY <1>4 DEF CheckSystem, loadvars, mapvars
  <2>2. StageInv'
    BY <2>1 DEF LoaderInv, StageInv, recvars, a20vars, mapvars, loadvars, videovars, pagevars
  <2> QED
    BY <2>1, <2>2, RecordsStutter, A20Stutter, MapStutter, LoadStutter, VideoStutter,
       PageStutter, VolumeStutter DEF LoaderInv
<1>5. CASE A20Step
  <2>1. /\ stage = "a20" /\ A20Next
        /\ stage' = CASE a20pc' = "enabled" -> "map"
                      [] a20pc' \in {"failed", "reset"} -> a20pc'
                      [] OTHER -> stage
        /\ UNCHANGED <<features, recvars, mapvars, loadvars, videovars, pagevars, volume, table>>
    BY <1>5 DEF A20Step, loadvars, mapvars
  <2>2. A20Inv'
    BY <2>1, A20StepInv DEF LoaderInv
  <2>3. \/ stage' = "map" /\ a20pc' = "enabled"
        \/ stage' \in {"a20", "failed", "reset"}
    BY <2>1
  <2>4. StageInv'
    BY <2>1, <2>3 DEF LoaderInv, StageInv, recvars, mapvars, loadvars, videovars, pagevars
  <2> QED
    BY <2>1, <2>2, <2>4, RecordsStutter, MapStutter, LoadStutter, VideoStutter, PageStutter,
       VolumeStutter DEF LoaderInv
<1>6. CASE MapStep
  <2>1. /\ stage = "map" /\ MapNext /\ Goes(mappc', "stored", "load", "failed")
        /\ UNCHANGED <<features, recvars, a20vars, loadvars, videovars, pagevars, volume>>
    BY <1>6 DEF MapStep, loadvars
  <2>2. MapInv'
    BY <2>1, MapStepInv DEF LoaderInv
  <2>3. loadpc = "find"
    BY <2>1 DEF LoaderInv, StageInv
  <2>4. LoadInv'
    BY <2>1, <2>3 DEF LoaderInv, LoadInv, loadvars
  <2>5. StageInv'
    BY <2>1, <2>3 DEF LoaderInv, StageInv, Goes, recvars, a20vars, loadvars, videovars, pagevars
  <2> QED
    BY <2>1, <2>2, <2>4, <2>5, RecordsStutter, A20Stutter, VideoStutter, PageStutter,
       VolumeStutter DEF LoaderInv
<1>7. CASE LoadStep
  <2>1. /\ stage = "load" /\ LoadNext /\ Goes(loadpc', "loaded", "video", "failed")
        /\ UNCHANGED <<features, recvars, a20vars, mapvars, videovars, pagevars, table>>
    BY <1>7 DEF LoadStep, mapvars
  <2>2. volume' = volume
    BY <2>1 DEF LoadNext, FindKernel, NoKernel, NoRegion, PassRegion, PickRegion, ReadCluster,
                CopyCluster, FollowChain
  <2>3. mappc = "stored" /\ recpc = "second"
    BY <2>1 DEF LoaderInv, StageInv
  <2>4. TableTyped /\ Len(table) \in Nat
    BY <2>3, MapInvTable DEF LoaderInv
  <2>5. LoadInv'
    BY <2>1, <2>4, LoadStepInv DEF LoaderInv
  <2>6. StageInv'
    BY <2>1, <2>3 DEF LoaderInv, StageInv, Goes, recvars, a20vars, mapvars, videovars, pagevars
  <2> QED
    BY <2>1, <2>2, <2>5, <2>6, RecordsStutter, A20Stutter, MapStutter, VideoStutter,
       PageStutter, VolumeStutter DEF LoaderInv
<1>8. CASE VideoStep
  <2>1. /\ stage = "video" /\ VideoNext /\ Goes(videopc', "done", "paging", "failed")
        /\ UNCHANGED <<features, recvars, a20vars, mapvars, loadvars, pagevars, volume, table>>
    BY <1>8 DEF VideoStep, loadvars, mapvars
  <2>2. VideoInv'
    BY <2>1, VideoStepInv DEF LoaderInv
  <2>3. StageInv'
    BY <2>1 DEF LoaderInv, StageInv, Goes, recvars, a20vars, mapvars, loadvars, pagevars
  <2> QED
    BY <2>1, <2>2, <2>3, RecordsStutter, A20Stutter, MapStutter, LoadStutter, PageStutter,
       VolumeStutter DEF LoaderInv
<1>9. CASE PageStep
  <2>1. /\ stage = "paging" /\ PageNext /\ Goes(pagepc', "kernel", "kernel", "failed")
        /\ UNCHANGED <<features, recvars, a20vars, mapvars, loadvars, videovars, volume, table>>
    BY <1>9 DEF PageStep, loadvars, mapvars
  <2>2. PageInv'
    BY <2>1, PageStepInv DEF LoaderInv
  <2>3. StageInv'
    BY <2>1 DEF LoaderInv, StageInv, Goes, recvars, a20vars, mapvars, loadvars, videovars
  <2> QED
    BY <2>1, <2>2, <2>3, RecordsStutter, A20Stutter, MapStutter, LoadStutter, VideoStutter,
       VolumeStutter DEF LoaderInv
<1> QED
  BY <1>1, <1>2, <1>3, <1>4, <1>5, <1>6, <1>7, <1>8, <1>9 DEF Next, Boot

\* Every part of the loader keeps its invariant, and the parts take their turns.
THEOREM LoaderInvariant == Spec => []LoaderInv
<1>1. Init => LoaderInv
  BY InitFacts
<1>2. LoaderInv /\ [Next]_vars => LoaderInv'
  BY StepFacts
<1> QED
  BY <1>1, <1>2, PTL DEF Spec

-----------------------------------------------------------------------------
(* What the loader promises.                                               *)

\* boot/mbr, boot/vbr: the second stage runs with the drive, the partition and all of
\* its clusters, whatever the user typed and the disk did before.
THEOREM SecondStageIsReady == Spec => []SecondStageReady
<1>1. LoaderInv => SecondStageReady
  BY RecordsInvReady DEF LoaderInv
<1> QED
  BY <1>1, LoaderInvariant, PTL

\* enable_A20: it goes on only with the line up and gives up only for a reason, for
\* every timeout and every hardware.
THEOREM A20IsDecided == Spec => []A20Decided
<1>1. LoaderInv => A20Decided
  BY DEF LoaderInv, A20Inv
<1> QED
  BY <1>1, LoaderInvariant, PTL

\* get_memory_map: the map that is stored is the one the BIOS has.
THEOREM MapIsStored == Spec => []MapStored
<1>1. LoaderInv => MapStored
  BY DEF LoaderInv, MapInv
<1> QED
  BY <1>1, LoaderInvariant, PTL

\* load_kernel: nothing is written outside the region, and the image is the file.
THEOREM ImageIsLoaded == Spec => []ImageLoaded
<1>1. ASSUME LoaderInv
      PROVE  ImageLoaded
  <2>1. CASE loadpc = "find"
    BY <1>1, <2>1 DEF LoaderInv, LoadInv, ImageLoaded
  <2>2. CASE loadpc # "find"
    <3>1. mappc = "stored" /\ recpc = "second"
      BY <1>1, <2>2 DEF LoaderInv, StageInv
    <3>2. volume.sectors \in Nat /\ volume.sectors <= MaxSectors
      BY <1>1, <3>1 DEF LoaderInv, RecordsInv, SoundRecords, SoundVolume
    <3>3. ClusterBytes < 65536
      BY <3>2 DEF ClusterBytes, BytesPer, SectorSize, MaxSectors
    <3>4. TableTyped
      BY <1>1, <3>1, MapInvTable DEF LoaderInv
    <3> QED
      BY <1>1, <3>3, <3>4, LoadInvImage DEF LoaderInv
  <2> QED
    BY <2>1, <2>2
<1>2. LoaderInv => ImageLoaded
  BY <1>1
<1> QED
  BY <1>2, LoaderInvariant, PTL

\* get_vbe_modes, set_vbe_mode: no mode with 32 bits per pixel has more pixels than the
\* one that is set, for every list of modes.
THEOREM BestModeIsSet == Spec => []BestMode
<1>1. LoaderInv => BestMode
  BY DEF LoaderInv, VideoInv
<1> QED
  BY <1>1, LoaderInvariant, PTL

\* enter_lmode: pages are mapped to themselves from the first moment of paging on, for
\* every size of the tables.
THEOREM PagesMappedToThemselves == Spec => []IdentityMapped
<1>1. LoaderInv => IdentityMapped
  BY PageInvMapped DEF LoaderInv
<1> QED
  BY <1>1, LoaderInvariant, PTL

\* enter_lmode: the lookaside buffer never holds an entry that the tables contradict.
THEOREM NoFlushIsNeeded == Spec => NoFlushNeeded
<1>1. ASSUME LoaderInv, LoaderInv', [Next]_vars
      PROVE  [\A p \in AllPages : Paging /\ Translation[p] # None =>
                 Translation'[p] = Translation[p]]_pagevars
  <2>1. CASE UNCHANGED pagevars
    BY <2>1
  <2>2. CASE PageStep
    BY <1>1, <2>2, PageStepNoFlush DEF LoaderInv, PageStep
  <2>3. [Next]_vars => PageStep \/ UNCHANGED pagevars
    BY DEF Next, Boot, RecordsStep, UserStep, CheckSystem, A20Step, MapStep, LoadStep,
           VideoStep, vars, pagevars
  <2> QED
    BY <1>1, <2>1, <2>2, <2>3
<1>2. LoaderInv /\ LoaderInv' /\ [Next]_vars =>
        [\A p \in AllPages : Paging /\ Translation[p] # None =>
            Translation'[p] = Translation[p]]_pagevars
  BY <1>1
<1> QED
  BY <1>2, LoaderInvariant, PTL DEF Spec, NoFlushNeeded

\* As many different addresses as there are clusters.
LEMMA PlacedMany ==
  ASSUME NEW start \in Nat, NEW size \in Nat \ {0}, NEW k \in Nat, NEW items
  PROVE  Cardinality(DOMAIN Placed(start, size, k, items)) = k
<1> DEFINE at == [i \in 1 .. k |-> start + size * (i - 1)]
           S == {start + size * (i - 1) : i \in 1 .. k}
<1>1. DOMAIN Placed(start, size, k, items) = S
  BY DEF Placed
<1>2. \A i, j \in 1 .. k : i # j => at[i] # at[j]
  <2>1. ASSUME NEW i \in 1 .. k, NEW j \in 1 .. k, i < j
        PROVE  at[i] # at[j]
    <3>1. size * (i - 1) + size <= size * (j - 1)
      BY <2>1, MultiplesApart
    <3>2. size * (i - 1) \in Nat /\ size * (j - 1) \in Nat
      BY ProductNatural
    <3> QED
      BY <3>1, <3>2
  <2> HIDE DEF at
  <2>2. \A i, j \in 1 .. k : i # j => i < j \/ j < i
    OBVIOUS
  <2> QED
    BY <2>1, <2>2
<1>3. at \in Bijection(1 .. k, S)
  <2>1. at \in [1 .. k -> S]
    OBVIOUS
  <2>2. \A s \in S : \E i \in 1 .. k : at[i] = s
    OBVIOUS
  <2> HIDE DEF at, S
  <2> QED
    BY <2>1, <2>2, <1>2, Fun_IsBij
<1>4. IsFiniteSet(1 .. k) /\ Cardinality(1 .. k) = k
  BY FS_Interval
<1>5. Cardinality(1 .. k) = Cardinality(S)
  <2> HIDE DEF at, S
  <2> QED
    BY <1>3, <1>4, FS_Bijection, Fun_ExistsBij
<1> QED
  BY <1>1, <1>4, <1>5

\* The kernel finds everything it relies on.
THEOREM KernelIsGivenMachine == Spec => []KernelGetsMachine
<1>1. ASSUME LoaderInv, stage = "kernel"
      PROVE  /\ features = Features
             /\ line
             /\ table = bios.entries
             /\ Cardinality(DOMAIN image) = Clusters(volume, volume.kernel)
             /\ info = chosen /\ Usable(chosen)
             /\ \A p \in Pages : Translate(p) = p
  <2>1. /\ features = Features /\ a20pc = "enabled" /\ mappc = "stored"
        /\ loadpc = "loaded" /\ videopc = "done" /\ pagepc = "kernel"
    BY <1>1 DEF LoaderInv, StageInv
  <2>2. line
    BY <1>1, <2>1 DEF LoaderInv, A20Inv, A20Decided
  <2>3. table = bios.entries
    BY <1>1, <2>1 DEF LoaderInv, MapInv, MapStored
  <2>4. info = chosen /\ Usable(chosen)
    BY <1>1, <2>1 DEF LoaderInv, VideoInv, BestMode
  <2>5. \A p \in Pages : Translate(p) = p
    BY <1>1, <2>1, PageInvMapped, PagesAreAll DEF LoaderInv, IdentityMapped, Paging
  <2>6. Cardinality(DOMAIN image) = Clusters(volume, volume.kernel)
    <3> DEFINE count == Clusters(volume, volume.kernel)
    <3>1. PICK k \in 0 .. count : LoadProgress(k)
      BY <1>1, <2>1 DEF LoaderInv, LoadInv
    <3>2. image = Placed(location, ClusterBytes, count, KernelItems(volume))
      BY <3>1, <2>1 DEF LoadProgress
    <3>3. ClusterBytes \in Nat \ {0} /\ count \in Nat
      BY <1>1, KernelFacts DEF LoaderInv
    <3>4. location \in Nat
      <4>1. index \in 1 .. Len(table) /\ location = table[index].address + KernelOffset
        BY <1>1, <2>1 DEF LoaderInv, LoadInv
      <4>2. TableTyped
        BY <1>1, <2>1, MapInvTable DEF LoaderInv
      <4> QED
        BY <4>1, <4>2 DEF TableTyped, KernelOffset
    <3> QED
      BY <3>2, <3>3, <3>4, PlacedMany
  <2> QED
    BY <2>1, <2>2, <2>3, <2>4, <2>5, <2>6
<1>2. LoaderInv => KernelGetsMachine
  BY <1>1 DEF KernelGetsMachine
<1> QED
  BY <1>2, LoaderInvariant, PTL
=============================================================================
